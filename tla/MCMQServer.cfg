\* Two processors and three requests, one with an empty body; no task may wait
\* for a busy thread (Factor is 3 in the server), so that the limit is reached.
\* The server may wait for a message for ever.
CONSTANTS
    Request = {r1, r2, r3}
    Blank = {r3}
    Proc = {p1, p2}
    Factor = 0
    MaxBreak = 1
    MaxKill = 1
    None = None
SPECIFICATION FairSpec
CHECK_DEADLOCK FALSE
INVARIANTS
    BacklogBounded
    AtMostOnce
    NothingVanishes
PROPERTIES
    Answered
    StopEnds
