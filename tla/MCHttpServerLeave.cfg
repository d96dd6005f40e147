\* Clients that also leave while their request is processed.
CONSTANTS
    Client = {c1, c2}
    GivesUp <- Impatient
    Fd = {5, 6}
    Worker = {1, 2}
    c1 = c1
    c2 = c2
    e1 = e1
    e2 = e2
    Event = {e1, e2}
    Proc = {p1}
    Threads <- Order
    Acceptor = Acceptor
    Cleaner = Cleaner
    ReqLen <- Requests
    RespLen <- Answers
    Room = 1
    None = None
SPECIFICATION FairSpec
CHECK_DEADLOCK FALSE
PROPERTIES
    AnswerDropped
