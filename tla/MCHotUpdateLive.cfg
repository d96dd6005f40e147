SPECIFICATION FairSpec
CONSTANTS
    NThread = 1
    NTable = 2
    Cleared = {2}
    Addr = {a1, a2}
    NULL = NULL
    MaxTime = 1
    MaxRow = 1
    a1 = a1
    a2 = a2
    a3 = a3
PROPERTIES
    NeverGoesBack
    NewVersionAdopted
    RequestsEnd
