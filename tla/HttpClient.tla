----------------------------- MODULE HttpClient -----------------------------
(***************************************************************************)
(* SocketClientEpoll::doHttpRequest (common/src/http): one thread sends a  *)
(* request on each of several sockets and collects the answers, with an    *)
(* edge-triggered epoll instance and a timeout for all of them.  TrafficData*)
(* asks the traffic services this way.                                     *)
(*                                                                         *)
(* The kernel and the servers are external.  A request is Parts pieces, of *)
(* which a socket buffers Room.  A server that answers takes the request,  *)
(* sends Pieces pieces and closes the connection; one that hangs never     *)
(* does; and one that breaks does what it likes: it refuses, answers before*)
(* it has the whole request, closes in the middle of its answer, or is     *)
(* reset at any moment.  epoll keeps the sockets on which something        *)
(* happened since they were last reported (edge), and reports for them     *)
(* what they are ready for.                                                *)
(***************************************************************************)
EXTENDS Integers, FiniteSets

CONSTANTS
    N,      \* sessions.size()
    Parts,  \* pieces of a request
    Room,   \* pieces that the send buffer holds
    Pieces, \* pieces of an answer
    Servers \* what the server of each session may be

ASSUME ClientAssumption ==
    N \in Nat /\ Parts \in Nat \ {0} /\ Room \in Nat \ {0} /\ Pieces \in Nat \ {0}

Session == 1..N
ASSUME ServersAssumption == Servers \in [Session -> SUBSET {"answer", "hang", "break"}]

VARIABLES
    timed,      \* whether timeout >= 0
    server,     \* what a server does: "answer", "hang" or "break"
    pc, i,      \* the caller, and the session it is at
    rest,       \* restSession
    mask,       \* events: what epoll_wait reported and is still to be handled
    socket,     \* _socket: "none", "open" or "closed"
    sendCnt,    \* _sendCnt, in pieces
    got,        \* _response, in pieces
    result,     \* _response_len
    link,       \* external: the connection
    sending,    \* external: pieces in the send buffer
    asked,      \* external: pieces of the request that the server has
    answered,   \* external: pieces of the answer that it has sent
    unread,     \* external: those of them in the receive buffer
    fin,        \* external: the server has closed the connection
    full,       \* external: a write failed for want of room
    interest,   \* external: what epoll watches a socket for
    edge        \* external: the sockets on epoll's ready list

clientVars == <<pc, i, rest, mask, socket, sendCnt, got, result>>
netVars == <<link, sending, asked, answered, unread, fin, full>>
vars == <<timed, server, clientVars, netVars, interest, edge>>

\* The values of _response_len that are no length.
Unfinished == -1
Failed == 0
TimedOut == -3
NoSocket == -4
BadAddress == -5

-----------------------------------------------------------------------------
(* The kernel. *)

Broken(s) == link[s] \in {"refused", "reset"}

\* What read and write on a socket would not have to wait for.
Ready(s) ==
    (IF Broken(s) \/ (link[s] = "up" /\ sending[s] < Room) THEN {"out"} ELSE {})
    \union (IF Broken(s) \/ unread[s] > 0 \/ fin[s] THEN {"in"} ELSE {})

\* What epoll_wait reports of a socket; an error may come alone.
Reports(s) ==
    LET m == Ready(s) \intersect interest[s] IN
    IF Broken(s) THEN {m \union {"err"}, {"err"}} ELSE {m}

\* Something happens on a socket.
Wake(s, what) ==
    edge' = IF interest[s] \intersect what # {} THEN edge \union {s} ELSE edge

\* epoll_ctl, which also looks at the socket as it is.
Watch(s, what) ==
    /\ interest' = [interest EXCEPT ![s] = what]
    /\ edge' = IF Broken(s) \/ Ready(s) \intersect what # {} THEN edge \union {s} ELSE edge

netFrame == UNCHANGED <<timed, server, clientVars, interest>>

Connected(s) ==
    /\ link[s] = "connecting"
    /\ \/ link' = [link EXCEPT ![s] = "up"]
       \/ server[s] = "break" /\ link' = [link EXCEPT ![s] = "refused"]
    /\ Wake(s, {"out"})
    /\ UNCHANGED <<sending, asked, answered, unread, fin, full>> /\ netFrame

\* The server takes a piece of the request, which makes room for another.
Take(s) ==
    /\ link[s] = "up" /\ sending[s] > 0
    /\ sending' = [sending EXCEPT ![s] = @ - 1]
    /\ asked' = [asked EXCEPT ![s] = @ + 1]
    /\ full' = [full EXCEPT ![s] = FALSE]
    /\ IF full[s] THEN Wake(s, {"out"}) ELSE UNCHANGED edge
    /\ UNCHANGED <<link, answered, unread, fin>> /\ netFrame

\* The server sends a piece of the answer, as a rule once it has the request.
Answer(s) ==
    /\ link[s] = "up" /\ answered[s] < Pieces /\ ~fin[s]
    /\ server[s] = "break" \/ (server[s] = "answer" /\ asked[s] >= Parts)
    /\ answered' = [answered EXCEPT ![s] = @ + 1]
    /\ unread' = [unread EXCEPT ![s] = @ + 1]
    /\ Wake(s, {"in"})
    /\ UNCHANGED <<link, sending, asked, fin, full>> /\ netFrame

\* FIN: when the answer is complete, or when the server's process dies.
Close(s) ==
    /\ link[s] = "up" /\ ~fin[s]
    /\ server[s] = "break" \/ answered[s] = Pieces
    /\ fin' = [fin EXCEPT ![s] = TRUE]
    /\ Wake(s, {"in"})
    /\ UNCHANGED <<link, sending, asked, answered, unread, full>> /\ netFrame

\* RST, also after FIN; what has arrived before it can still be read.
Reset(s) ==
    /\ link[s] = "up" /\ server[s] = "break"
    /\ link' = [link EXCEPT ![s] = "reset"]
    /\ Wake(s, {"in", "out"})
    /\ UNCHANGED <<sending, asked, answered, unread, fin, full>> /\ netFrame

Net(s) == Connected(s) \/ Take(s) \/ Answer(s) \/ Close(s) \/ Reset(s)

-----------------------------------------------------------------------------
(* doHttpRequest *)

Init ==
    /\ timed \in BOOLEAN
    /\ server \in [Session -> {"answer", "hang", "break"}]
    /\ \A s \in Session : server[s] \in Servers[s]
    /\ pc = "create" /\ i = 1 /\ rest = N
    /\ mask = [s \in Session |-> {}]
    /\ socket = [s \in Session |-> "none"]
    /\ sendCnt = [s \in Session |-> 0] /\ got = [s \in Session |-> 0]
    /\ result = [s \in Session |-> Unfinished]
    /\ link = [s \in Session |-> "none"]
    /\ sending = [s \in Session |-> 0] /\ asked = [s \in Session |-> 0]
    /\ answered = [s \in Session |-> 0] /\ unread = [s \in Session |-> 0]
    /\ fin = [s \in Session |-> FALSE] /\ full = [s \in Session |-> FALSE]
    /\ interest = [s \in Session |-> {}] /\ edge = {}

\* What is left of a session whose socket is closed.
CloseLinks(S) ==
    /\ link' = [s \in Session |-> IF s \in S THEN "none" ELSE link[s]]
    /\ interest' = [s \in Session |-> IF s \in S THEN {} ELSE interest[s]]
    /\ edge' = edge \ S

\* Mutant: the session is counted down only when its socket was open.
closeSession_Socket(s, stat) ==
    /\ socket' = [socket EXCEPT ![s] = IF @ = "none" THEN @ ELSE "closed"]
    /\ rest' = IF socket[s] = "open" THEN rest - 1 ELSE rest
    /\ result' = [result EXCEPT ![s] = IF stat = Unfinished THEN got[s] ELSE stat]
    /\ CloseLinks({s})

\* closeSession: the socket, the count and the result.  Unfinished is what it
\* is called with when the answer is complete.
closeSession(s, stat) ==
    /\ socket' = [socket EXCEPT ![s] = IF @ = "none" THEN @ ELSE "closed"]
    /\ rest' = IF result[s] = Unfinished THEN rest - 1 ELSE rest
    /\ result' = [result EXCEPT ![s] = IF stat = Unfinished THEN got[s] ELSE stat]
    /\ CloseLinks({s})

clientFrame == UNCHANGED <<timed, server, i, rest, mask, socket, sendCnt, got, result,
                           netVars, interest, edge>>

Create == pc = "create" /\ pc' = "open" /\ clientFrame

\* epoll_create fails: the call returns -1 and leaves every session as it is.
CreateFails == pc = "create" /\ pc' = "failed" /\ clientFrame

\* The first loop: a socket for each session, a connect that does not block,
\* and epoll_ctl.
Open ==
    /\ pc = "open" /\ i <= N
    /\ socket' = [socket EXCEPT ![i] = "open"]
    /\ link' = [link EXCEPT ![i] = "connecting"]
    /\ interest' = [interest EXCEPT ![i] = {"in", "out"}]
    /\ i' = i + 1
    /\ UNCHANGED <<timed, server, pc, rest, mask, sendCnt, got, result,
                   sending, asked, answered, unread, fin, full, edge>>

\* socket() fails, or inet_pton, after which the socket is closed again.
OpenFails ==
    /\ pc = "open" /\ i <= N
    /\ \E stat \in {NoSocket, BadAddress} : closeSession(i, stat)
    /\ i' = i + 1
    /\ UNCHANGED <<timed, server, pc, mask, sendCnt, got,
                   sending, asked, answered, unread, fin, full>>

Opened ==
    /\ pc = "open" /\ i = N + 1
    /\ pc' = "wait"
    /\ clientFrame

\* epoll_wait returns every socket on the ready list that has something to
\* report; with EPOLLET they leave the list.
epoll_wait ==
    /\ pc = "wait" /\ rest > 0 /\ edge # {}
    /\ mask' \in {m \in [Session -> SUBSET {"in", "out", "err"}] :
                    \A s \in Session : IF s \in edge THEN m[s] \in Reports(s) ELSE m[s] = {}}
    /\ edge' = {}
    /\ pc' = IF \E s \in Session : mask'[s] # {} THEN "event" ELSE "wait"
    /\ UNCHANGED <<timed, server, i, rest, socket, sendCnt, got, result, netVars, interest>>

\* The for loop over the events; the order is epoll's.  EPOLLOUT goes first,
\* and EPOLLIN is not looked at then.
Handle(s) ==
    /\ pc = "event" /\ mask[s] # {}
    /\ i' = s
    /\ mask' = [mask EXCEPT ![s] = {}]
    /\ IF "out" \in mask[s] \/ "in" \in mask[s]
       THEN /\ pc' = IF "out" \in mask[s] THEN "write" ELSE "read"
            /\ UNCHANGED <<rest, socket, result, link, interest, edge>>
       ELSE closeSession(s, Failed) /\ UNCHANGED pc
    /\ UNCHANGED <<timed, server, sendCnt, got, sending, asked, answered, unread, fin, full>>

HandledAll ==
    /\ pc = "event" /\ \A s \in Session : mask[s] = {}
    /\ pc' = "wait"
    /\ clientFrame

\* Mutant: only EPOLLOUT is dropped, without epoll_ctl.
modEpollIn_None(s) == UNCHANGED <<interest, edge>>

modEpollIn(s) == Watch(s, {"in"})

\* Mutant: the loop ends with the first write that is not complete.
AfterPart_Break == "event"

\* After a write that took a part the loop goes on, until the buffer is full.
AfterPart == "write"

\* One write: it takes some of what is left.  A write of a positive length
\* does not return 0, and a socket that does not block is not interrupted, so
\* that those two branches of the loop are not taken.
Write ==
    /\ pc = "write" /\ link[i] = "up" /\ sending[i] < Room
    /\ LET len == Parts - sendCnt[i] IN
       \E k \in 1..len :
        /\ sending[i] + k <= Room
        /\ sending' = [sending EXCEPT ![i] = @ + k]
        /\ IF k = len
           THEN modEpollIn(i) /\ pc' = "event" /\ UNCHANGED sendCnt
           ELSE /\ sendCnt' = [sendCnt EXCEPT ![i] = @ + k]
                /\ pc' = AfterPart
                /\ UNCHANGED <<interest, edge>>
    /\ UNCHANGED <<timed, server, i, rest, mask, socket, got, result,
                   link, asked, answered, unread, fin, full>>

\* write: EAGAIN.
WriteFull ==
    /\ pc = "write" /\ ~Broken(i) /\ ~(link[i] = "up" /\ sending[i] < Room)
    /\ full' = [full EXCEPT ![i] = TRUE]
    /\ pc' = "event"
    /\ UNCHANGED <<timed, server, i, rest, mask, socket, sendCnt, got, result,
                   link, sending, asked, answered, unread, fin, interest, edge>>

\* read: a piece of the answer; the loop goes on.
Read ==
    /\ pc = "read" /\ unread[i] > 0
    /\ unread' = [unread EXCEPT ![i] = @ - 1]
    /\ got' = [got EXCEPT ![i] = @ + 1]
    /\ UNCHANGED <<timed, server, pc, i, rest, mask, socket, sendCnt, result,
                   link, sending, asked, answered, fin, full, interest, edge>>

\* Mutant: a read that finds nothing is taken for the end of the answer.
ReadEnd_Empty ==
    /\ pc = "read" /\ unread[i] = 0 /\ ~Broken(i)
    /\ closeSession(i, Unfinished)
    /\ pc' = "event"
    /\ UNCHANGED <<timed, server, i, mask, sendCnt, got, sending, asked, answered, unread, fin, full>>

\* read: 0, which is taken for the end of the answer whatever the answer is:
\* nobody looks at its Content-Length.
ReadEnd ==
    /\ pc = "read" /\ unread[i] = 0 /\ fin[i]
    /\ closeSession(i, Unfinished)
    /\ pc' = "event"
    /\ UNCHANGED <<timed, server, i, mask, sendCnt, got, sending, asked, answered, unread, fin, full>>

\* read: EAGAIN.  From now on only EPOLLIN is watched for, even if part of the
\* request has still to be written.
ReadEmpty ==
    /\ pc = "read" /\ unread[i] = 0 /\ ~fin[i] /\ ~Broken(i)
    /\ modEpollIn(i)
    /\ pc' = "event"
    /\ UNCHANGED <<timed, server, i, rest, mask, socket, sendCnt, got, result, netVars>>

\* read or write: any other error.
IOError ==
    /\ pc \in {"read", "write"} /\ Broken(i)
    /\ closeSession(i, Failed)
    /\ pc' = "event"
    /\ UNCHANGED <<timed, server, i, mask, sendCnt, got, sending, asked, answered, unread, fin, full>>

\* The loop ends, or epoll_wait finds nothing before the timeout: ALL_OVER.
Over ==
    /\ pc = "wait" /\ (rest = 0 \/ (timed /\ edge = {}))
    /\ LET S == {s \in Session : result[s] = Unfinished} IN
       /\ result' = [s \in Session |-> IF s \in S THEN TimedOut ELSE result[s]]
       /\ socket' = [s \in Session |-> IF s \in S THEN "closed" ELSE socket[s]]
       /\ rest' = rest - Cardinality(S)
       /\ CloseLinks(S)
    /\ pc' = "done"
    /\ UNCHANGED <<timed, server, i, mask, sendCnt, got, sending, asked, answered, unread, fin, full>>

Client ==
    \/ Create \/ CreateFails \/ Open \/ OpenFails \/ Opened \/ epoll_wait \/ HandledAll
    \/ \E s \in Session : Handle(s)
    \/ Write \/ WriteFull \/ Read \/ ReadEnd \/ ReadEmpty \/ IOError \/ Over

Next == Client \/ (\E s \in Session : Net(s))

Spec == Init /\ [][Next]_vars

\* The thread runs, connections get made, and every server that does not hang
\* goes on until it has closed the connection or the connection breaks.
FairSpec ==
    /\ Spec
    /\ WF_vars(Client)
    /\ \A s \in Session : WF_vars(Connected(s)) /\ WF_vars(Take(s) \/ Reset(s))
                           /\ WF_vars(Answer(s) \/ Close(s) \/ Reset(s))

-----------------------------------------------------------------------------
(* Properties. *)

\* The count of the unfinished sessions is right at every moment, although
\* there are seven places that close a session: the loop neither leaves one
\* behind nor waits for one that is over.  A socket stays open just as long
\* as its session is unfinished; it is not closed twice, when its number may
\* belong to another thread, and none is left open.  A call that returns 0
\* leaves no session unfinished, one that returns -1 leaves all of them.
Accounted ==
    LET open == {s \in Session : socket[s] = "open"}
        waiting == {s \in Session : result[s] = Unfinished}
    IN /\ rest = Cardinality(waiting)
       /\ open = waiting \ {s \in Session : pc \in {"create", "failed", "open"} /\ s >= i}
       /\ pc = "done" => waiting = {}
       /\ pc = "failed" => waiting = Session

\* No edge is lost: when the thread waits, a session that epoll will not
\* report can do nothing.  One that has more to send has no room for it,
\* unless an answer that came before the end of the request has made the
\* thread drop EPOLLOUT; one that has sent everything, or that has dropped it,
\* has nothing to read.
NoLostEdge ==
    pc = "wait" =>
        \A s \in Session :
            LET unsent == asked[s] + sending[s] < Parts
                dropped == "out" \notin interest[s]
            IN (result[s] = Unfinished /\ s \notin edge) =>
                /\ unsent => "out" \notin Ready(s) \/ (dropped /\ answered[s] > 0)
                /\ ~unsent \/ dropped => "in" \notin Ready(s)

\* The server gets the request once, and a result above 0 stands for all that
\* the server sent before it closed the connection, however the pieces, the
\* events of the other sessions and the timeout interleave: the whole answer,
\* if the server closes after a whole one.  Without a timeout every server
\* that answers is heard.
WholeAnswer ==
    \A s \in Session :
        /\ asked[s] + sending[s] <= Parts
        /\ result[s] > 0 => result[s] = answered[s] /\ fin[s]
        /\ result[s] > 0 /\ server[s] = "answer" => result[s] = Pieces /\ asked[s] = Parts
        /\ (pc = "done" /\ ~timed /\ server[s] = "answer") =>
                result[s] \in {Pieces, NoSocket, BadAddress}

\* The call returns if it has a timeout, or if no server hangs.
Returns == (timed \/ \A s \in Session : server[s] # "hang") ~> (pc \in {"done", "failed"})
====
