\* The configuration says how many orders of a day are kept: the best one, as
\* the code has it, or two.
CONSTANTS
    Day <- MCDay
    Mid = 3
    TopK = {1, 2}
    Penalty <- MCPenalty
    Hour = 1
    CheckEvery = 7
    NULL = NULL
    Pos <- MCPos
    Raw <- MCRaw
    Hours <- MCHours
    Missing <- MCMissing
    Zips <- MCZips
SPECIFICATION DFSSpec
INVARIANTS
    Consistent
    Optimal
    Sound
    ClashExact
PROPERTIES
    Advances
