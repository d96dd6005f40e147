\* Two sessions; a request needs two rounds through the send buffer, an answer
\* comes in two pieces.  Without a timeout the call waits for a server that hangs.
CONSTANTS
    N = 2
    Parts = 3
    Room = 2
    Pieces = 2
    Servers <- MCServers
SPECIFICATION FairSpec
CHECK_DEADLOCK FALSE
INVARIANTS
    Accounted
    NoLostEdge
    WholeAnswer
PROPERTIES
    Returns
