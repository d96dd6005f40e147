SPECIFICATION Spec
CONSTANTS
    NThread = 2
    NTable = 1
    Cleared = {}
    Addr <- MCAddr
    NULL = NULL
    MaxTime = 2
    MaxRow = 2
    a1 = a1
    a2 = a2
    a3 = a3
SYMMETRY AddrSymmetry
INVARIANTS
    NoUseAfterFree
    NoRowSkipped
PROPERTIES
    OneVersionPerRequest
