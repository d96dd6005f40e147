\* Two clients, of which one may leave while its request waits or is processed,
\* two event threads, two descriptors, all of which can be in use.  One request
\* comes in two parts; one answer has two and does not fit into the send buffer.
\* What comes after race is not explored.  The server may wait for a client for
\* ever.
CONSTANTS
    Client = {c1, c2}
    GivesUp <- MayLeave
    Fd = {5, 6}
    Worker = {1, 2}
    c1 = c1
    c2 = c2
    e1 = e1
    e2 = e2
    Event = {e1, e2}
    Proc = {p1}
    Threads <- Order
    Acceptor = Acceptor
    Cleaner = Cleaner
    ReqLen <- Requests
    RespLen <- Answers
    Room = 1
    None = None
SPECIFICATION FairSpec
CHECK_DEADLOCK FALSE
CONSTRAINT NotYet
INVARIANTS
    NoUseAfterFree
    Alone
    OwnAnswer
PROPERTIES
    Replied
    Reclaimed
    StopEnds
