----------------------------- MODULE HttpServer -----------------------------
(***************************************************************************)
(* The HTTP front end of the services: HttpServer (one thread that accepts,*)
(* one that deletes finished workers, and the event threads that share an  *)
(* epoll instance), QueryProcessor (the threads that compute the answers)  *)
(* and the stop of MJHttpShell.  A connection is a descriptor and an       *)
(* HttpWorker; both are numbers that the system gives out again after      *)
(* close and delete.  The clients, the sockets and epoll are external: a   *)
(* registration fires once (EPOLLONESHOT) and has to be armed again.       *)
(***************************************************************************)
EXTENDS Integers, Sequences, FiniteSets

CONSTANTS
    Client,     \* the clients, each with one connection and one request
    GivesUp,    \* when a client may go away: "sending", "waiting", "receiving"
    Fd,         \* descriptors
    Worker,     \* addresses of HttpWorker objects; the allocator reuses the lowest
    Event,      \* the event threads
    Proc,       \* the processor threads
    Threads,    \* all threads of HttpServer in the order in which join ends them
    Acceptor, Cleaner,  \* thread 0 and thread 2
    ReqLen,     \* the parts in which the request of a client arrives
    RespLen,    \* the parts of the answer to it
    Room,       \* the parts that fit into a send buffer
    None        \* no descriptor, no worker, not registered, free memory

Closed == -1    \* the value of a closed session in _unreleaseWorkers

ASSUME HttpAssumption ==
    /\ GivesUp \in [Client -> SUBSET {"sending", "waiting", "receiving"}]
    /\ ReqLen \in [Client -> Nat \ {0}] /\ RespLen \in [Client -> Nat \ {0}]
    /\ Room \in Nat \ {0}
    /\ Acceptor # Cleaner /\ Event \intersect {Acceptor, Cleaner} = {}
    /\ Event # {} /\ Proc # {}
    /\ {Threads[i] : i \in DOMAIN Threads} = Event \union {Acceptor, Cleaner}
    /\ Closed \notin Fd
    /\ None \notin Client \union Fd \union Worker \union Event \union {Closed}
    /\ None \notin {"in", "out", "spent"}

\* Descriptors and addresses are numbers, and there is memory for the workers
\* of all connections.
ASSUME AddressAssumption ==
    /\ Fd \subseteq Nat /\ Worker \subseteq Nat
    /\ IsFiniteSet(Client) /\ IsFiniteSet(Worker)
    /\ Cardinality(Client) <= Cardinality(Worker)
    /\ Threads \in Seq(Event \union {Acceptor, Cleaner})

VARIABLES
    link,       \* the connection of a client: "new" (not accepted yet), "up", "gone"
    sent,       \* the parts of its request that it has sent,
    unread,     \* and those that the server has not read yet
    pipe,       \* the parts in the send buffer, each the answer to some client
    got,        \* the parts that the client has received
    peer,       \* the client at the other end of a descriptor
    mask, ptr,  \* the events a descriptor is armed for, and data.ptr
    batch,      \* _epoll_ready_event, as a set: epoll gives no order
    sess,       \* _unreleaseWorkers; None is an address that is not in use
    sock, stat, \* m_socket, m_stat of a worker
    input,      \* m_requestStr and m_request: whose parts it has read
    answer,     \* m_responseStr: the client it answers, or None
    sendCnt,    \* m_sendCnt
    nowConn,    \* _now_connections
    queue, open,    \* m_task_list, as the atomic queue of TaskQueue
    apc, afd,   \* the accepting thread
    cpc,        \* the cleaning thread
    emutex,     \* the holder of _epoll_mutex
    epc, ew, efd,   \* the event threads: where they are, worker and fd
    ppc, pw,    \* the processor threads: where they are, worker
    stopTask,   \* _stop_task
    mpc,        \* main: -1 while the server runs, 0 when it joins the processors,
                \* then the number of the thread of Threads that it joins
    race        \* history: a session has been closed while another event of its
                \* worker was in hand, or an answer armed on another's connection

Tasks == INSTANCE TaskQueue WITH Node <- Worker

clientVars == <<link, sent, unread, pipe, got>>
kernelVars == <<peer, mask, ptr>>
workerVars == <<sock, stat, input, answer, sendCnt>>
sessionVars == <<sess, nowConn>>
taskVars == <<queue, open>>
acceptVars == <<apc, afd>>
eventVars == <<batch, emutex, epc, ew, efd>>
procVars == <<ppc, pw>>
mainVars == <<stopTask, mpc>>
vars == <<clientVars, kernelVars, workerVars, sessionVars, taskVars, acceptVars, cpc,
          eventVars, procVars, mainVars, race>>

Init ==
    /\ link = [c \in Client |-> "new"]
    /\ sent = [c \in Client |-> 0] /\ unread = [c \in Client |-> 0]
    /\ pipe = [c \in Client |-> <<>>] /\ got = [c \in Client |-> <<>>]
    /\ peer = [f \in Fd |-> None]
    /\ mask = [f \in Fd |-> None] /\ ptr = [f \in Fd |-> None]
    /\ batch = {} /\ sess = [w \in Worker |-> None] /\ nowConn = 0
    /\ sock = [w \in Worker |-> None] /\ stat = [w \in Worker |-> 0]
    /\ input = [w \in Worker |-> <<>>] /\ answer = [w \in Worker |-> None]
    /\ sendCnt = [w \in Worker |-> 0]
    /\ queue = <<>> /\ open = TRUE
    /\ apc = "accept" /\ afd = None /\ cpc = "run"
    /\ emutex = None /\ epc = [t \in Event |-> "lock"]
    /\ ew = [t \in Event |-> None] /\ efd = [t \in Event |-> None]
    /\ ppc = [p \in Proc |-> "get"] /\ pw = [p \in Proc |-> None]
    /\ stopTask = FALSE /\ mpc = -1 /\ race = FALSE

-----------------------------------------------------------------------------
(* The clients. *)

Send(c) ==
    /\ link[c] = "up" /\ sent[c] < ReqLen[c]
    /\ sent' = [sent EXCEPT ![c] = @ + 1]
    /\ unread' = [unread EXCEPT ![c] = @ + 1]
    /\ UNCHANGED <<link, pipe, got, kernelVars, workerVars, sessionVars, taskVars,
                   acceptVars, cpc, eventVars, procVars, mainVars, race>>

Receive(c) ==
    /\ link[c] = "up" /\ pipe[c] # <<>>
    /\ got' = [got EXCEPT ![c] = Append(@, Head(pipe[c]))]
    /\ pipe' = [pipe EXCEPT ![c] = Tail(@)]
    /\ UNCHANGED <<link, sent, unread, kernelVars, workerVars, sessionVars, taskVars,
                   acceptVars, cpc, eventVars, procVars, mainVars, race>>

\* What a client is doing.
Phase(c) ==
    IF sent[c] < ReqLen[c] THEN "sending" ELSE IF got[c] = <<>> THEN "waiting" ELSE "receiving"

\* The client closes its end.
Leave(c) ==
    /\ link[c] = "up" /\ Phase(c) \in GivesUp[c]
    /\ link' = [link EXCEPT ![c] = "gone"]
    /\ pipe' = [pipe EXCEPT ![c] = <<>>]
    /\ UNCHANGED <<sent, unread, got, kernelVars, workerVars, sessionVars, taskVars,
                   acceptVars, cpc, eventVars, procVars, mainVars, race>>

-----------------------------------------------------------------------------
(* Sockets and epoll. *)

\* The events that a registration would report now: the end of the stream is
\* readable, a broken connection is writable.
Fires(f) ==
    LET c == peer[f] IN
    \/ mask[f] = "in" /\ (unread[c] > 0 \/ link[c] = "gone")
    \/ mask[f] = "out" /\ (Len(pipe[c]) < Room \/ link[c] = "gone")

Ready == {f \in Fd : peer[f] # None /\ Fires(f)}

\* mod_input_fd and mod_output_fd: EPOLL_CTL_MOD, which fails when the
\* descriptor is not registered.
Arm(f, w, m) ==
    IF mask[f] # None
    THEN mask' = [mask EXCEPT ![f] = m] /\ ptr' = [ptr EXCEPT ![f] = w]
    ELSE UNCHANGED <<mask, ptr>>

-----------------------------------------------------------------------------
(* HttpServer::svc(0) and svc(2): the threads that accept and clean up. *)

Free == {f \in Fd : peer[f] = None}
Lowest(S) == CHOOSE x \in S : \A y \in S : x <= y

\* accept: a connection, which gets the lowest descriptor that is free.
Accept(c) ==
    /\ apc = "accept" /\ link[c] = "new" /\ Free # {}
    /\ link' = [link EXCEPT ![c] = "up"]
    /\ afd' = Lowest(Free)
    /\ peer' = [peer EXCEPT ![afd'] = c]
    /\ apc' = "create"
    /\ UNCHANGED <<sent, unread, pipe, got, mask, ptr, workerVars, sessionVars, taskVars, cpc,
                   eventVars, procVars, mainVars, race>>

\* accept is called when all descriptors are in use: the thread ends.
AcceptFails ==
    /\ apc = "accept" /\ Free = {}
    /\ apc' = "exit"
    /\ UNCHANGED <<clientVars, kernelVars, workerVars, sessionVars, taskVars, afd, cpc,
                   eventVars, procVars, mainVars, race>>

\* createSession: new HttpWorker, and its registration.
createSession ==
    /\ apc = "create"
    /\ LET w == Lowest({v \in Worker : sess[v] = None}) IN
        /\ sess' = [sess EXCEPT ![w] = afd]
        /\ sock' = [sock EXCEPT ![w] = afd]
        /\ stat' = [stat EXCEPT ![w] = 0]
        /\ input' = [input EXCEPT ![w] = <<>>]
        /\ answer' = [answer EXCEPT ![w] = None]
        /\ sendCnt' = [sendCnt EXCEPT ![w] = 0]
        /\ mask' = [mask EXCEPT ![afd] = "in"]
        /\ ptr' = [ptr EXCEPT ![afd] = w]
    /\ nowConn' = nowConn + 1
    /\ apc' = IF stopTask THEN "exit" ELSE "accept"
    /\ afd' = None
    /\ UNCHANGED <<clientVars, peer, taskVars, cpc, eventVars, procVars, mainVars, race>>

\* Mutant: m_stat is not looked at.
Released_Closed == {w \in Worker : sess[w] = Closed}

\* The workers that checkUnreleaseWorker deletes.
Released == {w \in Worker : sess[w] = Closed /\ stat[w] # 1}

\* checkUnreleaseWorker, every five seconds.  What the members of a deleted
\* worker hold is no longer of interest.
checkUnreleaseWorker ==
    /\ cpc = "run" /\ Released # {}
    /\ LET Wiped(f, v) == [w \in Worker |-> IF w \in Released THEN v ELSE f[w]] IN
        /\ sess' = Wiped(sess, None) /\ stat' = Wiped(stat, 0)
        /\ input' = Wiped(input, <<>>) /\ answer' = Wiped(answer, None)
        /\ sendCnt' = Wiped(sendCnt, 0)
    /\ UNCHANGED <<clientVars, kernelVars, sock, nowConn, taskVars, acceptVars, cpc,
                   eventVars, procVars, mainVars, race>>

CleanerEnds ==
    /\ cpc = "run" /\ stopTask
    /\ cpc' = "exit"
    /\ UNCHANGED <<clientVars, kernelVars, workerVars, sessionVars, taskVars, acceptVars,
                   eventVars, procVars, mainVars, race>>

-----------------------------------------------------------------------------
(* HttpServer::svc: an event thread. *)

\* The end of the handling of an event: back to the lock, or out of the loop.
Back(t) ==
    /\ epc' = [epc EXCEPT ![t] = IF stopTask THEN "exit" ELSE "lock"]
    /\ ew' = [ew EXCEPT ![t] = None] /\ efd' = [efd EXCEPT ![t] = None]

\* svc: the last of the events that epoll_wait returned, and the unlock.
Pop(t, events) ==
    /\ \E e \in events :
        /\ batch' = events \ {e}
        /\ ew' = [ew EXCEPT ![t] = e[1]]
        /\ efd' = [efd EXCEPT ![t] = sock[e[1]]]
        /\ epc' = [epc EXCEPT ![t] = e[2]]
    /\ emutex' = None

\* svc: lock; there are events left, or the thread calls epoll_wait, or the
\* server stops.
Lock(t) ==
    /\ epc[t] = "lock" /\ emutex = None
    /\ \/ stopTask /\ Back(t) /\ UNCHANGED <<batch, emutex>>
       \/ ~stopTask /\ batch # {} /\ Pop(t, batch)
       \/ /\ ~stopTask /\ batch = {}
          /\ emutex' = t
          /\ epc' = [epc EXCEPT ![t] = "wait"]
          /\ UNCHANGED <<batch, ew, efd>>
    /\ UNCHANGED <<clientVars, kernelVars, workerVars, sessionVars, taskVars, acceptVars, cpc,
                   procVars, mainVars, race>>

\* svc: epoll_wait returns what is ready, and disarms it.
Wait(t) ==
    /\ epc[t] = "wait" /\ Ready # {}
    /\ mask' = [f \in Fd |-> IF f \in Ready THEN "spent" ELSE mask[f]]
    /\ Pop(t, {<<ptr[f], mask[f]>> : f \in Ready})
    /\ UNCHANGED <<clientVars, peer, ptr, workerVars, sessionVars, taskVars,
                   acceptVars, cpc, procVars, mainVars, race>>

\* svc, EPOLLIN: everything there is to read.  The end of the stream and a
\* closed descriptor end the session.
Read(t) ==
    /\ epc[t] = "in"
    /\ LET c == peer[efd[t]] IN
        IF c = None
        THEN /\ epc' = [epc EXCEPT ![t] = "close"]
             /\ UNCHANGED <<input, unread>>
        ELSE /\ input' = [input EXCEPT ![ew[t]] = @ \o [i \in 1..unread[c] |-> c]]
             /\ unread' = [unread EXCEPT ![c] = 0]
             /\ epc' = [epc EXCEPT ![t] = IF link[c] = "gone" THEN "close" ELSE "arm"]
    /\ UNCHANGED <<link, sent, pipe, got, kernelVars, sock, stat, answer, sendCnt, sessionVars,
                   taskVars, acceptVars, cpc, batch, emutex, ew, efd, procVars, mainVars, race>>

\* isRecvOver
isRecvOver(w) == input[w] # <<>> /\ Len(input[w]) >= ReqLen[Head(input[w])]

\* Mutant: only the end of a request arms the socket again.
ArmInput_AtEnd(t) ==
    /\ epc[t] = "arm"
    /\ IF isRecvOver(ew[t]) THEN Arm(sock[ew[t]], ew[t], "in") ELSE UNCHANGED <<mask, ptr>>
    /\ IF isRecvOver(ew[t])
       THEN epc' = [epc EXCEPT ![t] = "submit"] /\ UNCHANGED <<ew, efd>>
       ELSE Back(t)
    /\ UNCHANGED <<clientVars, peer, workerVars, sessionVars, taskVars, acceptVars,
                   cpc, batch, emutex, procVars, mainVars, race>>

\* svc, EPOLLIN: mod_input_fd, whether the request is complete or not.
ArmInput(t) ==
    /\ epc[t] = "arm"
    /\ Arm(sock[ew[t]], ew[t], "in")
    /\ IF isRecvOver(ew[t])
       THEN epc' = [epc EXCEPT ![t] = "submit"] /\ UNCHANGED <<ew, efd>>
       ELSE Back(t)
    /\ UNCHANGED <<clientVars, peer, workerVars, sessionVars, taskVars, acceptVars,
                   cpc, batch, emutex, procVars, mainVars, race>>

\* submitWorker
submitWorker(t) ==
    /\ epc[t] = "submit"
    /\ stat' = [stat EXCEPT ![ew[t]] = 1]
    /\ Tasks!Put(ew[t])
    /\ Back(t)
    /\ UNCHANGED <<clientVars, kernelVars, sock, input, answer, sendCnt, sessionVars,
                   acceptVars, cpc, batch, emutex, procVars, mainVars, race>>

\* What is left of the answer.
Rest(w) == IF answer[w] = None THEN 0 ELSE RespLen[answer[w]] - sendCnt[w]

\* A write fails: the descriptor is closed, or the client is gone.
Cut(c) == c # None => link[c] = "gone"

\* Mutant: a partial write is not counted.
Write_Uncounted(t) ==
    /\ epc[t] = "out"
    /\ LET w == ew[t]
           c == peer[sock[w]]
           space == Room - Len(pipe[c])
           n == IF Rest(w) <= space THEN Rest(w) ELSE space
       IN
       \/ /\ Rest(w) <= 0 \/ Cut(c)
          /\ epc' = [epc EXCEPT ![t] = "close"]
          /\ UNCHANGED <<pipe, sendCnt, mask, ptr, ew, efd>>
       \/ /\ Rest(w) > 0 /\ ~Cut(c) /\ space > 0
          /\ pipe' = [pipe EXCEPT ![c] = @ \o [i \in 1..n |-> answer[w]]]
          /\ sendCnt' = [sendCnt EXCEPT ![w] = @]
          /\ epc' = [epc EXCEPT ![t] = IF n = Rest(w) THEN "close" ELSE "out"]
          /\ UNCHANGED <<mask, ptr, ew, efd>>
       \/ /\ Rest(w) > 0 /\ ~Cut(c) /\ space = 0
          /\ Arm(sock[w], w, "out")
          /\ Back(t)
          /\ UNCHANGED <<pipe, sendCnt>>
    /\ UNCHANGED <<link, sent, unread, got, peer, sock, stat, input, answer,
                   sessionVars, taskVars, acceptVars, cpc, batch, emutex, procVars, mainVars, race>>

\* svc, EPOLLOUT: one write of what is left, of which as much is taken as the
\* buffer has room for; when that is nothing, mod_output_fd.
Write(t) ==
    /\ epc[t] = "out"
    /\ LET w == ew[t]
           c == peer[sock[w]]
           space == Room - Len(pipe[c])
           n == IF Rest(w) <= space THEN Rest(w) ELSE space
       IN
       \/ /\ Rest(w) <= 0 \/ Cut(c)
          /\ epc' = [epc EXCEPT ![t] = "close"]
          /\ UNCHANGED <<pipe, sendCnt, mask, ptr, ew, efd>>
       \/ /\ Rest(w) > 0 /\ ~Cut(c) /\ space > 0
          /\ pipe' = [pipe EXCEPT ![c] = @ \o [i \in 1..n |-> answer[w]]]
          /\ sendCnt' = [sendCnt EXCEPT ![w] = IF n = Rest(w) THEN @ ELSE @ + n]
          /\ epc' = [epc EXCEPT ![t] = IF n = Rest(w) THEN "close" ELSE "out"]
          /\ UNCHANGED <<mask, ptr, ew, efd>>
       \/ /\ Rest(w) > 0 /\ ~Cut(c) /\ space = 0
          /\ Arm(sock[w], w, "out")
          /\ Back(t)
          /\ UNCHANGED <<pipe, sendCnt>>
    /\ UNCHANGED <<link, sent, unread, got, peer, sock, stat, input, answer,
                   sessionVars, taskVars, acceptVars, cpc, batch, emutex, procVars, mainVars, race>>

\* What epoll has reported and has not been handled, but for thread t.
InHand(t) == {e[1] : e \in batch} \union {ew[u] : u \in Event \ {t}}

\* closeSession
closeSession(t) ==
    /\ epc[t] = "close"
    /\ LET w == ew[t]
           f == efd[t]
       IN IF sess[w] = f
          THEN /\ mask' = [mask EXCEPT ![f] = None] /\ ptr' = [ptr EXCEPT ![f] = None]
               /\ peer' = [peer EXCEPT ![f] = None]
               /\ nowConn' = nowConn - 1
               /\ sess' = [sess EXCEPT ![w] = Closed]
               /\ race' = (race \/ w \in InHand(t))
          ELSE UNCHANGED <<mask, ptr, peer, sessionVars, race>>
    /\ Back(t)
    /\ UNCHANGED <<clientVars, workerVars, taskVars, acceptVars, cpc, batch, emutex,
                   procVars, mainVars>>

-----------------------------------------------------------------------------
(* QueryProcessor::svc *)

Get(p) ==
    /\ ppc[p] = "get"
    /\ \E w \in Worker : Tasks!Take(w) /\ pw' = [pw EXCEPT ![p] = w]
    /\ ppc' = [ppc EXCEPT ![p] = "work"]
    /\ UNCHANGED <<clientVars, kernelVars, workerVars, sessionVars, acceptVars, cpc, eventVars,
                   mainVars, race>>

\* svc: get() returned NULL.
Exit(p) ==
    /\ ppc[p] = "get" /\ ~open
    /\ ppc' = [ppc EXCEPT ![p] = "exit"]
    /\ UNCHANGED <<clientVars, kernelVars, workerVars, sessionVars, taskVars, acceptVars, cpc,
                   eventVars, pw, mainVars, race>>

\* Mutant: the socket is armed before the answer is there.
doWork_Early(p) ==
    /\ ppc[p] = "work"
    /\ Arm(sock[pw[p]], pw[p], "out")
    /\ ppc' = [ppc EXCEPT ![p] = "respond"]
    /\ UNCHANGED <<clientVars, peer, workerVars, sessionVars, taskVars,
                   acceptVars, cpc, eventVars, pw, mainVars, race>>

\* doWork computes the answer to the request; writeResponse: m_responseStr
doWork(p) ==
    /\ ppc[p] = "work"
    /\ LET s == input[pw[p]] IN
        answer' = [answer EXCEPT ![pw[p]] = IF s = <<>> THEN None ELSE Head(s)]
    /\ ppc' = [ppc EXCEPT ![p] = "respond"]
    /\ UNCHANGED <<clientVars, kernelVars, sock, stat, input, sendCnt, sessionVars, taskVars,
                   acceptVars, cpc, eventVars, pw, mainVars, race>>

\* writeResponse: unless m_socket is negative, mod_output_fd.
writeResponse(p) ==
    /\ ppc[p] = "respond"
    /\ IF sock[pw[p]] = Closed
       THEN UNCHANGED <<mask, ptr>>
       ELSE Arm(sock[pw[p]], pw[p], "out")
    /\ race' = (race \/ (sess[pw[p]] = Closed /\ mask[sock[pw[p]]] # None))
    /\ ppc' = [ppc EXCEPT ![p] = "done"]
    /\ UNCHANGED <<clientVars, peer, workerVars, sessionVars, taskVars, acceptVars,
                   cpc, eventVars, pw, mainVars>>

\* Mutant: m_stat stays 1.
Done_Stat(p) ==
    /\ ppc[p] = "done"
    /\ UNCHANGED stat
    /\ ppc' = [ppc EXCEPT ![p] = "get"]
    /\ pw' = [pw EXCEPT ![p] = None]
    /\ UNCHANGED <<clientVars, kernelVars, sock, input, answer, sendCnt, sessionVars, taskVars,
                   acceptVars, cpc, eventVars, mainVars, race>>

\* svc: m_stat, when the worker has done its duty.
Done(p) ==
    /\ ppc[p] = "done"
    /\ stat' = [stat EXCEPT ![pw[p]] = 2]
    /\ ppc' = [ppc EXCEPT ![p] = "get"]
    /\ pw' = [pw EXCEPT ![p] = None]
    /\ UNCHANGED <<clientVars, kernelVars, sock, input, answer, sendCnt, sessionVars, taskVars,
                   acceptVars, cpc, eventVars, mainVars, race>>

-----------------------------------------------------------------------------
(* MJHttpShell::stop: the processors first, then the threads of the server. *)

\* QueryProcessor::stop
StopProcessors ==
    /\ mpc = -1
    /\ Tasks!Close
    /\ mpc' = 0
    /\ UNCHANGED <<clientVars, kernelVars, workerVars, sessionVars, acceptVars, cpc, eventVars,
                   procVars, stopTask, race>>

\* Mutant: after EINTR the lock is kept.
Signal_Locked(x) ==
    \/ UNCHANGED <<apc, emutex, epc>>
    \/ /\ x = Acceptor /\ apc = "accept" /\ apc' = "exit"
       /\ UNCHANGED <<emutex, epc>>
    \/ /\ x \in Event /\ epc[x] = "wait"
       /\ epc' = [epc EXCEPT ![x] = "exit"]
       /\ UNCHANGED <<apc, emutex>>

\* TaskBase::join: pthread_kill, which ends accept or epoll_wait, unless the
\* thread has not called it yet.
Signal(x) ==
    \/ UNCHANGED <<apc, emutex, epc>>
    \/ /\ x = Acceptor /\ apc = "accept" /\ apc' = "exit"
       /\ UNCHANGED <<emutex, epc>>
    \/ /\ x \in Event /\ epc[x] = "wait"
       /\ epc' = [epc EXCEPT ![x] = "exit"]
       /\ emutex' = None
       /\ UNCHANGED apc

\* The end of a thread of HttpServer.
Ended(x) ==
    \/ x = Acceptor /\ apc = "exit"
    \/ x = Cleaner /\ cpc = "exit"
    \/ x \in Event /\ epc[x] = "exit"

\* HttpServer::stop and TaskBase::join: the next thread.
Join ==
    /\ \/ mpc = 0 /\ \A p \in Proc : ppc[p] = "exit"
       \/ mpc \in DOMAIN Threads /\ Ended(Threads[mpc])
    /\ mpc' = mpc + 1
    /\ stopTask' = TRUE
    /\ IF mpc' \in DOMAIN Threads THEN Signal(Threads[mpc']) ELSE UNCHANGED <<apc, emutex, epc>>
    /\ UNCHANGED <<clientVars, kernelVars, workerVars, sessionVars, taskVars, afd, cpc, batch,
                   ew, efd, procVars, race>>

-----------------------------------------------------------------------------

CleanSvc == checkUnreleaseWorker \/ CleanerEnds
EventSvc(t) ==
    \/ Lock(t) \/ Wait(t) \/ Read(t) \/ ArmInput(t) \/ submitWorker(t)
    \/ Write(t) \/ closeSession(t)
ProcSvc(p) == Get(p) \/ Exit(p) \/ doWork(p) \/ writeResponse(p) \/ Done(p)

Server ==
    \/ createSession \/ CleanSvc \/ Join
    \/ \E t \in Event : EventSvc(t)
    \/ \E p \in Proc : ProcSvc(p)

Next ==
    \/ \E c \in Client : Send(c) \/ Receive(c) \/ Leave(c) \/ Accept(c)
    \/ AcceptFails \/ Server \/ StopProcessors

Spec == Init /\ [][Next]_vars

\* The threads of the server run, and a client reads what has arrived.  No
\* fairness between the threads is needed: none of them spins.
FairSpec == Spec /\ WF_vars(Server \/ \E c \in Client : Receive(c))

-----------------------------------------------------------------------------

TypeOK ==
    /\ link \in [Client -> {"new", "up", "gone"}]
    /\ sent \in [Client -> Nat] /\ unread \in [Client -> Nat]
    /\ \A c \in Client : unread[c] <= sent[c] /\ sent[c] <= ReqLen[c]
    /\ pipe \in [Client -> Seq(Client)] /\ got \in [Client -> Seq(Client)]
    /\ peer \in [Fd -> Client \union {None}]
    /\ mask \in [Fd -> {None, "in", "out", "spent"}]
    /\ ptr \in [Fd -> Worker \union {None}]
    /\ batch \subseteq Worker \X {"in", "out"}
    /\ sess \in [Worker -> Fd \union {Closed, None}] /\ nowConn \in Int
    /\ sock \in [Worker -> Fd \union {None}] /\ stat \in [Worker -> 0..2]
    /\ input \in [Worker -> Seq(Client)] /\ answer \in [Worker -> Client \union {None}]
    /\ sendCnt \in [Worker -> Nat]
    /\ queue \in Seq(Worker) /\ open \in BOOLEAN
    /\ apc \in {"accept", "create", "exit"} /\ afd \in Fd \union {None}
    /\ cpc \in {"run", "exit"} /\ emutex \in Event \union {None}
    /\ epc \in [Event -> {"lock", "wait", "in", "arm", "submit", "out", "close", "exit"}]
    /\ ew \in [Event -> Worker \union {None}] /\ efd \in [Event -> Fd \union {None}]
    /\ ppc \in [Proc -> {"get", "work", "respond", "done", "exit"}]
    /\ pw \in [Proc -> Worker \union {None}]
    /\ stopTask \in BOOLEAN /\ mpc \in -1..(Len(Threads) + 1) /\ race \in BOOLEAN

\* The sessions, the descriptors and the registrations agree: an open session
\* has its own descriptor, registered with its own worker, and there is no
\* other registration.
Sessions ==
    /\ nowConn = Cardinality({w \in Worker : sess[w] \in Fd})
    /\ \A w \in Worker : sess[w] \in Fd =>
        LET f == sess[w] IN
        sock[w] = f /\ peer[f] # None /\ mask[f] # None /\ ptr[f] = w
    /\ \A f \in Fd :
        /\ mask[f] # None => \E w \in Worker : sess[w] = f
        /\ peer[f] # None => mask[f] # None \/ afd = f

\* What createSession, closeSession and checkUnreleaseWorker keep, with the
\* types, until an answer is armed on the descriptor of another session.
HttpInv == ~race => TypeOK /\ Sessions

InQueue == {queue[i] : i \in 1..Len(queue)}
InBatch == {e[1] : e \in batch}
InEvent == {ew[t] : t \in Event} \ {None}
InProc == {pw[p] : p \in Proc} \ {None}

\* The client has left while it waited, when its request has been read and
\* none of the answer has arrived.
LeftWaiting(c) == link[c] = "gone" /\ Phase(c) = "waiting"
Left == {w \in Worker : sess[w] \in Fd /\ LeftWaiting(peer[sess[w]])}

\* A worker that a thread, the task queue or the array of events still refers
\* to is not deleted, whenever the clients leave: m_stat keeps the cleaner away
\* from a worker whose session is closed while it waits for a processor or is
\* with one.  Only what race records is excepted: nothing keeps the cleaner
\* away from an event thread, so that the worker is lost to one that is still
\* before submitWorker, or at an event of its own, when another one closes the
\* session.
NoUseAfterFree ==
    ~race => \A w \in InQueue \union InBatch \union InEvent \union InProc : sess[w] # None

\* A worker is submitted once and processed by one processor.  An event thread
\* has it only while no other one, the array, the queue or a processor has it,
\* unless its client has left while it waited: then the end of the stream is
\* an event of its own, for which the socket is armed during the processing
\* (HttpServer.cpp:211).  A processor is through with the worker when it has
\* called mod_output_fd.
Alone ==
    ~race =>
        /\ \A i, j \in 1..Len(queue) : queue[i] = queue[j] => i = j
        /\ \A p, q \in Proc : pw[p] # None /\ pw[p] = pw[q] => p = q
        /\ InQueue \intersect InProc = {}
        /\ \A t, u \in Event : ew[t] # None /\ ew[t] = ew[u] => t = u \/ ew[t] \in Left
        /\ InBatch \intersect InEvent \subseteq Left
        /\ InQueue \intersect (InEvent \union InBatch) \subseteq Left
        /\ \A p \in Proc :
            ppc[p] \in {"work", "respond"} /\ pw[p] \in InEvent \union InBatch => pw[p] \in Left

\* A client receives nothing but the answer to its own request, and that once,
\* also when other clients leave and it gets the descriptor of one of them;
\* but not when race has recorded that an answer was armed on it, see
\* AnswerDropped.
OwnAnswer ==
    ~race => \A c \in Client :
        LET s == got[c] \o pipe[c] IN Len(s) <= RespLen[c] /\ \A i \in 1..Len(s) : s[i] = c

\* "socket断开 什么都不做", QueryProcessor.cpp:73: when the connection of a request
\* is closed, writeResponse does nothing, and above all nothing to a connection
\* that has got the same descriptor meanwhile.
AnswerDropped ==
    [][\A p \in Proc :
          (ppc[p] = "respond" /\ sess[pw[p]] = Closed /\ ppc'[p] = "done")
                => UNCHANGED <<mask, ptr>>]_vars

\* A client that has sent its request and waits receives the whole answer,
\* unless the server stops, or race has recorded that the worker of a client
\* that left came between.
Replied ==
    \A c \in Client :
        sent[c] = ReqLen[c] ~> (Len(got[c]) = RespLen[c] \/ link[c] = "gone" \/ ~open \/ race)

\* The worker of a closed session is deleted, unless the server stops or race
\* has been recorded.
Reclaimed == \A w \in Worker : sess[w] = Closed ~> (sess[w] = None \/ ~open \/ race)

\* stop returns, unless a thread stays in accept or in epoll_wait because no
\* connection and no event comes any more, or race has been recorded.
StopEnds ==
    mpc = 0 ~> \/ mpc > Len(Threads) \/ race
               \/ [](apc = "accept")
               \/ [](Ready = {} /\ \E t \in Event : epc[t] = "wait")

=============================================================================
