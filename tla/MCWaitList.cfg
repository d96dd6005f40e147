\* Three threads that call everything: one can be blocked while a second one
\* puts and a third one overtakes it.
CONSTANTS
    Thread = {t1, t2, t3}
    Node = {n1, n2}
    None = None
    Ops = {"put", "get", "timed", "head", "flush"}
SPECIFICATION FairSpec
INVARIANTS
    NoLostWakeup
PROPERTIES
    ImplementsQueue
    NoForgottenTask
    FlushReleases
