\* Two threads share three jobs per search.  A failed pthread_create leaves
\* the caller at the barrier for ever, so the system may stop there.
CONSTANTS
    Thread = {t1, t2}
    Job = {j1, j2, j3}
    None = None
SPECIFICATION FairSpec
CHECK_DEADLOCK FALSE
INVARIANTS
    NoJobFreedInUse
    ResultsComplete
PROPERTIES
    SearchEnds
    StopEnds
