CONSTANTS
    Pool = {p1, p2}
    Job <- MCJob
    DayK = 2
    HeapK = 2
    ListK = 2
    InitLen = 3
    ExpandLen = 1
    None = None
SYMMETRY Alike
SPECIFICATION Spec
INVARIANTS
    Conserved
    MergedBest
