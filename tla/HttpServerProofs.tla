-------------------------- MODULE HttpServerProofs --------------------------
(***************************************************************************)
(* The HTTP front end for any number of clients, descriptors, workers and  *)
(* threads, whenever the clients leave.  Until race is recorded, a worker  *)
(* is handled by one thread at a time, but for the end of the stream of a  *)
(* client that has left while it waited, and not deleted under it, and a   *)
(* client receives nothing but the answer to its own request, once.  Race  *)
(* is not recorded before a client has left while it waited.               *)
(***************************************************************************)
EXTENDS HttpServer, FiniteSetTheorems, SequenceTheorems, TLAPS

-----------------------------------------------------------------------------
(* The types, by the groups of variables that the actions name. *)

ClientTypes ==
    /\ link \in [Client -> {"new", "up", "gone"}]
    /\ sent \in [Client -> Nat] /\ unread \in [Client -> Nat]
    /\ \A c \in Client : unread[c] <= sent[c] /\ sent[c] <= ReqLen[c]
    /\ pipe \in [Client -> Seq(Client)] /\ got \in [Client -> Seq(Client)]

KernelTypes ==
    /\ peer \in [Fd -> Client \union {None}]
    /\ mask \in [Fd -> {None, "in", "out", "spent"}]
    /\ ptr \in [Fd -> Worker \union {None}]

WorkerTypes ==
    /\ sock \in [Worker -> Fd \union {None}] /\ stat \in [Worker -> 0..2]
    /\ input \in [Worker -> Seq(Client)] /\ answer \in [Worker -> Client \union {None}]
    /\ sendCnt \in [Worker -> Nat]

SessionTypes == sess \in [Worker -> Fd \union {Closed, None}] /\ nowConn \in Int

TaskTypes == queue \in Seq(Worker) /\ open \in BOOLEAN

AcceptTypes == apc \in {"accept", "create", "exit"} /\ afd \in Fd \union {None}

EventTypes ==
    /\ batch \subseteq Worker \X {"in", "out"}
    /\ emutex \in Event \union {None}
    /\ epc \in [Event -> {"lock", "wait", "in", "arm", "submit", "out", "close", "exit"}]
    /\ ew \in [Event -> Worker \union {None}] /\ efd \in [Event -> Fd \union {None}]

ProcTypes ==
    /\ ppc \in [Proc -> {"get", "work", "respond", "done", "exit"}]
    /\ pw \in [Proc -> Worker \union {None}]

MainTypes == stopTask \in BOOLEAN /\ mpc \in -1..(Len(Threads) + 1)

Types ==
    /\ ClientTypes /\ KernelTypes /\ WorkerTypes /\ SessionTypes /\ TaskTypes
    /\ AcceptTypes /\ cpc \in {"run", "exit"} /\ EventTypes /\ ProcTypes /\ MainTypes

-----------------------------------------------------------------------------
(* The inductive invariant. *)

\* The whole request has been read.
Complete(w) == Len(input[w]) >= ReqLen[peer[sess[w]]]

\* Nothing has been sent to a client.
Unanswered(c) == got[c] = <<>> /\ pipe[c] = <<>>

\* OwnAnswer, before race.
Own ==
    \A c \in Client :
        LET s == got[c] \o pipe[c] IN Len(s) <= RespLen[c] /\ \A i \in 1..Len(s) : s[i] = c

\* A client that is not connected has sent nothing.
ClientInv ==
    /\ \A c \in Client : link[c] = "new" => sent[c] = 0 /\ unread[c] = 0 /\ Unanswered(c)
    /\ \A f \in Fd : peer[f] # None => link[peer[f]] # "new"
    /\ \A f, g \in Fd : peer[f] # None /\ peer[f] = peer[g] => f = g

\* The connection that accept has returned.
AcceptInv ==
    apc = "create" =>
        /\ afd \in Fd /\ mask[afd] = None /\ peer[afd] # None
        /\ unread[peer[afd]] = sent[peer[afd]] /\ Unanswered(peer[afd])

\* The open sessions are counted, and there is an address for the worker of the next connection.
Addresses ==
    /\ nowConn = Cardinality({w \in Worker : sess[w] \in Fd})
    /\ Cardinality({w \in Worker : sess[w] # None}) + (IF apc = "create" THEN 1 ELSE 0)
            <= Cardinality({c \in Client : link[c] # "new"})

\* The registration, the worker and the client of an open session.
Registered ==
    /\ \A w \in Worker : sess[w] \in Fd =>
        LET f == sess[w] IN
        sock[w] = f /\ peer[f] # None /\ mask[f] # None /\ ptr[f] = w
    /\ \A f \in Fd :
        /\ mask[f] # None => ptr[f] \in Worker /\ sess[ptr[f]] = f
        /\ peer[f] # None => mask[f] # None \/ (apc = "create" /\ afd = f)

Exchange(w) ==
    sess[w] \in Fd =>
        LET c == peer[sess[w]]
            m == mask[sess[w]]
        IN
        /\ \A k \in 1..Len(input[w]) : input[w][k] = c
        /\ Len(input[w]) + unread[c] = sent[c]
        /\ answer[w] \in {None, c}
        /\ answer[w] = None \/ m = "in" => Unanswered(c) /\ sendCnt[w] = 0
        /\ m = "out" => answer[w] = c
        /\ stat[w] # 0 => Complete(w)
        /\ stat[w] = 0 => answer[w] = None
        /\ (\A t \in Event : ew[t] = w => epc[t] # "close") =>
                Len(got[c]) + Len(pipe[c]) <= sendCnt[w]

\* An event of a worker is reported, or handled by a thread, only while its
\* registration is spent; the submission alone comes after the socket is armed
\* again, but then the client has nothing more to say.  If it has left while it
\* waited, the registration is not known: the end of its stream is another
\* event, and so is the answer that a processor has had sent all the same.
EventOf(w, m) ==
    /\ w \in Worker /\ sess[w] \in Fd
    /\ m \in {"arm", "submit"} => stat[w] = 0
    /\ m = "submit" => Complete(w)
    /\ m = "out" => answer[w] = peer[sess[w]]
    /\ \/ w \in Left
       \/ /\ mask[sess[w]] = IF m = "submit" THEN "in" ELSE "spent"
          /\ m = "in" => stat[w] = 0 /\ ~Complete(w)

EventAt(t) ==
    IF epc[t] \in {"lock", "wait", "exit"}
    THEN ew[t] = None
    ELSE EventOf(ew[t], epc[t]) /\ efd[t] = sess[ew[t]]

\* On the way to submitWorker.
Submits(t) == epc[t] \in {"arm", "submit"}

Events ==
    /\ \A e \in batch : EventOf(e[1], e[2])
    /\ \A d, e \in batch : d[1] = e[1] => d = e
    /\ \A t \in Event : EventAt(t)
    /\ \A t, u \in Event : ew[t] # None /\ ew[t] = ew[u] => t = u \/ ew[t] \in Left
    /\ \A e \in batch, t \in Event : ew[t] = e[1] => e[1] \in Left
    /\ \A t, u \in Event : ew[t] = ew[u] /\ Submits(t) /\ Submits(u) => t = u

SomeLeft == \E c \in Client : LeftWaiting(c)

\* A worker that waits for a processor or is with one.  Its session may be
\* closed meanwhile.
Pending(w) ==
    /\ stat[w] = 1 /\ sess[w] # None
    /\ sess[w] \in Fd => w \in Left \/ mask[sess[w]] = "in"
    /\ sess[w] = Closed => SomeLeft

ProcAt(p) ==
    IF ppc[p] \in {"get", "exit"}
    THEN pw[p] = None
    ELSE /\ pw[p] \in Worker /\ stat[pw[p]] = 1 /\ sess[pw[p]] # None
         /\ ppc[p] \in {"work", "respond"} => Pending(pw[p])
         /\ ppc[p] = "respond" /\ sess[pw[p]] \in Fd => answer[pw[p]] = peer[sess[pw[p]]]

Processing ==
    /\ \A w \in InQueue : Pending(w)
    /\ \A j, k \in 1..Len(queue) : queue[j] = queue[k] => j = k
    /\ \A p \in Proc : ProcAt(p)
    /\ \A p, q \in Proc : pw[p] # None /\ pw[p] = pw[q] => p = q
    /\ \A p \in Proc : pw[p] \notin InQueue

ShellInv ==
    /\ Types /\ ClientInv /\ AcceptInv /\ Addresses /\ Registered
    /\ \A w \in Worker : Exchange(w)
    /\ Events /\ Processing /\ Own

-----------------------------------------------------------------------------

LEMMA LowestIn ==
    ASSUME NEW S \in SUBSET Nat, S # {}
    PROVE  Lowest(S) \in S
  <1> DEFINE R == {ss \in Nat \X Nat : ss[1] < ss[2]}
  <1>1. IsWellFoundedOn(R, Nat)
    BY NatLessThanWellFounded DEF OpToRel
  <1>2. \A y, z \in Nat : y < z => <<y, z>> \in R
    OBVIOUS
  <1> HIDE DEF R
  <1>3. PICK x \in S : \A y \in S : ~(<<y, x>> \in R)
    BY <1>1, WFMin
  <1>4. \A y \in S : ~(y < x) /\ y \in Nat /\ x \in Nat
    BY <1>2, <1>3
  <1>5. \A y \in S : x <= y
    BY <1>4
  <1> QED
    BY <1>5 DEF Lowest

\* What has been read, or written, is a number of parts of one client.
LEMMA Filled ==
    ASSUME NEW s \in Seq(Client), NEW n \in Nat, NEW c \in Client,
           NEW r, r = s \o [k \in 1..n |-> c]
    PROVE  /\ r \in Seq(Client) /\ Len(r) = Len(s) + n /\ Len(s) \in Nat
           /\ \A k \in 1..Len(r) : r[k] = s[k] \/ r[k] = c
           /\ \A k \in 1..Len(r) : r[k] = IF k <= Len(s) THEN s[k] ELSE c
  <1> DEFINE u == [k \in 1..n |-> c]
  <1>1. u \in Seq(Client) /\ Len(u) = n /\ \A k \in 1..n : u[k] = c
    OBVIOUS
  <1> HIDE DEF u
  <1>2. r = s \o u
    BY DEF u
  <1> QED
    BY <1>1, <1>2

\* The free descriptors and addresses.
LEMMA NewNumbers ==
    ASSUME ShellInv
    PROVE  /\ Free # {} => Lowest(Free) \in Fd /\ peer[Lowest(Free)] = None
           /\ apc = "create" =>
                LET w == Lowest({v \in Worker : sess[v] = None}) IN w \in Worker /\ sess[w] = None
  <1>1. Free # {} => Lowest(Free) \in Free
    BY LowestIn, AddressAssumption DEF Free
  <1>2. ASSUME apc = "create"
        PROVE  {v \in Worker : sess[v] = None} # {}
    <2> DEFINE U == {w \in Worker : sess[w] # None}
               C == {c \in Client : link[c] # "new"}
    <2>1. Cardinality(U) + 1 <= Cardinality(C)
      BY <1>2 DEF ShellInv, Addresses
    <2>2. U \subseteq Worker /\ C \subseteq Client
      OBVIOUS
    <2> HIDE DEF U, C
    <2>3. /\ IsFiniteSet(U) /\ IsFiniteSet(C) /\ Cardinality(U) \in Nat /\ Cardinality(C) \in Nat
          /\ Cardinality(C) <= Cardinality(Client)
          /\ Cardinality(Client) \in Nat /\ Cardinality(Worker) \in Nat
      BY <2>2, AddressAssumption, FS_Subset, FS_CardinalityType
    <2>4. U # Worker
      BY <2>1, <2>3, AddressAssumption
    <2> QED
      BY <2>2, <2>4 DEF U
  <1>3. apc = "create" =>
            Lowest({v \in Worker : sess[v] = None}) \in {v \in Worker : sess[v] = None}
    <2> DEFINE S == {v \in Worker : sess[v] = None}
    <2>1. S \subseteq Nat /\ (apc = "create" => S # {})
      BY <1>2, AddressAssumption
    <2> HIDE DEF S
    <2>2. apc = "create" => Lowest(S) \in S
      BY <2>1, LowestIn
    <2> QED
      BY <2>2 DEF S
  <1> QED
    BY <1>1, <1>3 DEF Free

-----------------------------------------------------------------------------
(* The types and the frames. *)

LEMMA TypeParts ==
    TypeOK <=> Types /\ race \in BOOLEAN
  BY DEF TypeOK, Types, ClientTypes, KernelTypes, WorkerTypes, SessionTypes, TaskTypes, AcceptTypes,
         EventTypes, ProcTypes, MainTypes

LEMMA TypeFrame ==
    /\ ClientTypes /\ UNCHANGED clientVars => ClientTypes'
    /\ KernelTypes /\ UNCHANGED kernelVars => KernelTypes'
    /\ WorkerTypes /\ UNCHANGED workerVars => WorkerTypes'
    /\ SessionTypes /\ UNCHANGED sessionVars => SessionTypes'
    /\ TaskTypes /\ UNCHANGED taskVars => TaskTypes'
    /\ AcceptTypes /\ UNCHANGED acceptVars => AcceptTypes'
    /\ EventTypes /\ UNCHANGED eventVars => EventTypes'
    /\ ProcTypes /\ UNCHANGED procVars => ProcTypes'
    /\ MainTypes /\ UNCHANGED mainVars => MainTypes'
  <1>1. ClientTypes /\ UNCHANGED clientVars => ClientTypes'
    BY DEF ClientTypes, clientVars
  <1>2. KernelTypes /\ UNCHANGED kernelVars => KernelTypes'
    BY DEF KernelTypes, kernelVars
  <1>3. WorkerTypes /\ UNCHANGED workerVars => WorkerTypes'
    BY DEF WorkerTypes, workerVars
  <1>4. SessionTypes /\ UNCHANGED sessionVars => SessionTypes'
    BY DEF SessionTypes, sessionVars
  <1>5. TaskTypes /\ UNCHANGED taskVars => TaskTypes'
    BY DEF TaskTypes, taskVars
  <1>6. AcceptTypes /\ UNCHANGED acceptVars => AcceptTypes'
    BY DEF AcceptTypes, acceptVars
  <1>7. EventTypes /\ UNCHANGED eventVars => EventTypes'
    BY DEF EventTypes, eventVars
  <1>8. ProcTypes /\ UNCHANGED procVars => ProcTypes'
    BY DEF ProcTypes, procVars
  <1>9. MainTypes /\ UNCHANGED mainVars => MainTypes'
    BY DEF MainTypes, mainVars
  <1> QED
    BY <1>1, <1>2, <1>3, <1>4, <1>5, <1>6, <1>7, <1>8, <1>9

-----------------------------------------------------------------------------
(* What a step that leaves the variables of a part alone does to it. *)

LEMMA ClientFrame ==
    ASSUME ClientInv, UNCHANGED <<link, sent, unread, pipe, got, peer>>
    PROVE  ClientInv'
  BY DEF ClientInv, Unanswered

LEMMA AcceptFrame ==
    ASSUME AcceptInv, UNCHANGED <<apc, afd, mask, peer, sent, unread, pipe, got>>
    PROVE  AcceptInv'
  BY DEF AcceptInv, Unanswered

LEMMA AddressFrame ==
    ASSUME Addresses, UNCHANGED <<nowConn, sess, apc, link>>
    PROVE  Addresses'
  BY DEF Addresses

LEMMA RegisterFrame ==
    ASSUME Registered, UNCHANGED <<sess, sock, peer, mask, ptr, apc, afd>>
    PROVE  Registered'
  BY DEF Registered

LEMMA AnswerFrame ==
    ASSUME Own, UNCHANGED <<got, pipe>>
    PROVE  Own'
  BY DEF Own

\* No thread is about to close the session of the worker.
NotClosing(w) == \A t \in Event : ew[t] = w => epc[t] # "close"

\* The exchange of a worker that the step does not concern.
LEMMA ExchangeFrame ==
    ASSUME NEW w \in Worker, Exchange(w),
           sess'[w] = sess[w],
           sess[w] \in Fd =>
             /\ stat'[w] = stat[w] /\ input'[w] = input[w]
             /\ answer'[w] = answer[w] /\ sendCnt'[w] = sendCnt[w]
             /\ mask'[sess[w]] = mask[sess[w]] /\ peer'[sess[w]] = peer[sess[w]]
             /\ sent'[peer[sess[w]]] = sent[peer[sess[w]]]
             /\ unread'[peer[sess[w]]] = unread[peer[sess[w]]]
             /\ pipe'[peer[sess[w]]] = pipe[peer[sess[w]]]
             /\ got'[peer[sess[w]]] = got[peer[sess[w]]],
           NotClosing(w)' => NotClosing(w)
    PROVE  Exchange(w)'
  BY DEF Exchange, Complete, Unanswered, NotClosing

\* What an exchange is after a step that does concern it.
LEMMA ExchangeAfter ==
    ASSUME NEW w \in Worker, NEW f \in Fd, NEW c \in Client, sess'[w] = f, peer'[f] = c,
           \A k \in 1..Len(input'[w]) : input'[w][k] = c,
           Len(input'[w]) + unread'[c] = sent'[c],
           answer'[w] \in {None, c},
           answer'[w] = None \/ mask'[f] = "in" => got'[c] = <<>> /\ pipe'[c] = <<>> /\ sendCnt'[w] = 0,
           mask'[f] = "out" => answer'[w] = c,
           stat'[w] # 0 => Len(input'[w]) >= ReqLen[c],
           stat'[w] = 0 => answer'[w] = None,
           NotClosing(w)' => Len(got'[c]) + Len(pipe'[c]) <= sendCnt'[w]
    PROVE  Exchange(w)'
  BY DEF Exchange, Complete, Unanswered, NotClosing

\* Whoever has left while it waited, has left.
StillLeft == \A c \in Client : LeftWaiting(c) => LeftWaiting(c)'

LEMMA LeftFrame ==
    ASSUME StillLeft
    PROVE  /\ SomeLeft => SomeLeft'
           /\ \A w \in Worker :
                sess'[w] = sess[w] /\ peer[sess[w]] \in Client /\ peer'[sess[w]] = peer[sess[w]]
                    => (w \in Left => w \in Left')
  BY DEF StillLeft, SomeLeft, Left

LEMMA LeftSame ==
    ASSUME UNCHANGED <<link, sent, got, sess, peer>>
    PROVE  Left' = Left /\ SomeLeft' = SomeLeft
  BY DEF Left, SomeLeft, LeftWaiting, Phase

LEMMA EventFrame ==
    ASSUME NEW w \in Worker, NEW m, EventOf(w, m), sess'[w] = sess[w],
           w \in Left => w \in Left',
           w \in Left' \/ mask'[sess[w]] = mask[sess[w]],
           peer'[sess[w]] = peer[sess[w]],
           stat[w] = 0 => stat'[w] = 0 \/ (w \in Left' /\ m \notin {"arm", "submit"}),
           input'[w] = input[w] \/ (w \in Left' /\ (Complete(w) => Complete(w)')),
           answer'[w] \in {answer[w], peer[sess[w]]}
    PROVE  EventOf(w, m)'
  BY DEF EventOf, Complete

\* The events, when none of their workers is concerned.
LEMMA EventsFrame ==
    ASSUME Events, UNCHANGED <<batch, epc, ew, efd>>, Types, StillLeft, Registered,
           \A w \in InBatch \union InEvent :
             /\ sess'[w] = sess[w] /\ peer'[sess[w]] = peer[sess[w]]
             /\ w \in Left' \/ mask'[sess[w]] = mask[sess[w]]
             /\ stat[w] = 0 => stat'[w] = 0
             /\ input'[w] = input[w] /\ answer'[w] \in {answer[w], peer[sess[w]]}
    PROVE  Events'
  <1>0. \A w \in InBatch \union InEvent : w \in Worker => (w \in Left => w \in Left')
    BY LeftFrame DEF Left, Registered, Types, KernelTypes
  <1>1. ASSUME NEW e \in batch PROVE EventOf(e[1], e[2])'
    <2>1. e[1] \in InBatch /\ e[1] \in Worker
      BY DEF InBatch, Types, EventTypes
    <2>2. ASSUME NEW w, w = e[1] PROVE EventOf(w, e[2])'
      BY <1>0, <2>1, <2>2, EventFrame DEF Events
    <2> QED
      BY <2>2
  <1>2. ASSUME NEW t \in Event PROVE EventAt(t)'
    <2>1. CASE epc[t] \in {"lock", "wait", "exit"}
      BY <2>1 DEF Events, EventAt
    <2>2. CASE epc[t] \notin {"lock", "wait", "exit"}
      <3>1. PICK w : w = ew[t]
        OBVIOUS
      <3>2. PICK m : m = epc[t]
        OBVIOUS
      <3>3. EventOf(w, m) /\ efd[t] = sess[w]
        BY <2>2, <3>1, <3>2 DEF Events, EventAt
      <3>4. w \in Worker /\ w \in InEvent
        BY <3>1, <3>3, HttpAssumption DEF InEvent, EventOf
      <3>5. EventOf(w, m)' /\ efd'[t] = sess'[w]
        BY <1>0, <3>3, <3>4, EventFrame
      <3> QED
        BY <2>2, <3>1, <3>2, <3>5 DEF EventAt, EventOf
    <2> QED
      BY <2>1, <2>2
  <1>3. ASSUME NEW t \in Event, NEW u \in Event, ew[t] # None, ew[t] = ew[u], t # u
        PROVE  ew[t] \in Left'
    BY <1>0, <1>3 DEF Events, InEvent, Left
  <1>4. ASSUME NEW e \in batch, NEW t \in Event, ew[t] = e[1]
        PROVE  e[1] \in Left'
    BY <1>0, <1>4 DEF Events, InBatch, Left
  <1> QED
    BY <1>1, <1>2, <1>3, <1>4 DEF Events, Submits

\* A processor whose worker a step does not concern, or only after its answer.
LEMMA ProcFrame ==
    ASSUME NEW p \in Proc, ProcAt(p), ppc'[p] = ppc[p], pw'[p] = pw[p], NEW w, w = pw[p],
           w \in Worker /\ Pending(w) =>
             /\ Pending(w)'
             /\ sess'[w] \in Fd => /\ sess'[w] = sess[w] /\ answer'[w] = answer[w]
                                    /\ peer'[sess[w]] = peer[sess[w]],
           w \in Worker /\ stat[w] = 1 /\ sess[w] # None => stat'[w] = 1 /\ sess'[w] # None
    PROVE  ProcAt(p)'
  <1>1. CASE ppc[p] \in {"get", "exit"}
    BY <1>1 DEF ProcAt
  <1>2. CASE ppc[p] \notin {"get", "exit"}
    <2>1. /\ w \in Worker /\ stat[w] = 1 /\ sess[w] # None
          /\ ppc[p] \in {"work", "respond"} => Pending(w)
          /\ ppc[p] = "respond" /\ sess[w] \in Fd => answer[w] = peer[sess[w]]
      BY <1>2 DEF ProcAt
    <2>2. /\ w \in Worker /\ stat'[w] = 1 /\ sess'[w] # None
          /\ ppc[p] \in {"work", "respond"} => Pending(w)'
          /\ ppc[p] = "respond" /\ sess'[w] \in Fd => answer'[w] = peer'[sess'[w]]
      BY <2>1
    <2> QED
      BY <1>2, <2>2 DEF ProcAt, Pending
  <1> QED
    BY <1>1, <1>2

LEMMA ProcessFrame ==
    ASSUME Processing, UNCHANGED <<queue, ppc, pw>>, Types,
           \A w \in Worker : Pending(w) =>
             /\ Pending(w)'
             /\ sess'[w] \in Fd => /\ sess'[w] = sess[w] /\ answer'[w] = answer[w]
                                    /\ peer'[sess[w]] = peer[sess[w]],
           \A w \in Worker : stat[w] = 1 /\ sess[w] # None => stat'[w] = 1 /\ sess'[w] # None
    PROVE  Processing'
  <1>1. InQueue' = InQueue /\ InQueue \subseteq Worker
    BY DEF InQueue, Types, TaskTypes
  <1>2. ASSUME NEW p \in Proc PROVE ProcAt(p)'
    BY ProcFrame DEF Processing
  <1>3. ASSUME NEW w \in InQueue PROVE Pending(w)'
    BY <1>1 DEF Processing
  <1> QED
    BY <1>1, <1>2, <1>3 DEF Processing

\* A pending worker whose session stays as it is.
LEMMA PendingFrame ==
    ASSUME NEW w \in Worker, Pending(w), StillLeft, Types, Registered,
           stat'[w] = stat[w], sess'[w] = sess[w],
           sess[w] \in Fd => /\ peer'[sess[w]] = peer[sess[w]]
                             /\ w \in Left' \/ mask'[sess[w]] = mask[sess[w]]
    PROVE  Pending(w)'
  <1>1. sess[w] \in Fd => peer[sess[w]] \in Client
    BY DEF Registered, Types, KernelTypes
  <1>2. sess[w] \in Fd => w \in Left' \/ (w \notin Left /\ mask'[sess[w]] = mask[sess[w]])
    BY <1>1, LeftFrame
  <1>3. SomeLeft => SomeLeft'
    BY LeftFrame
  <1> QED
    BY <1>2, <1>3 DEF Pending

LEMMA QuietProcess ==
    ASSUME Processing, Types, Registered, StillLeft,
           UNCHANGED <<queue, ppc, pw, sess, mask, stat, answer>>,
           \A f \in Fd : peer[f] # None => peer'[f] = peer[f]
    PROVE  Processing'
  <1>1. \A w \in Worker : Pending(w) =>
            /\ Pending(w)'
            /\ sess'[w] \in Fd => /\ sess'[w] = sess[w] /\ answer'[w] = answer[w]
                                   /\ peer'[sess[w]] = peer[sess[w]]
    BY PendingFrame DEF Registered
  <1>2. \A w \in Worker : stat[w] = 1 /\ sess[w] # None => stat'[w] = 1 /\ sess'[w] # None
    OBVIOUS
  <1> QED
    BY <1>1, <1>2, ProcessFrame

-----------------------------------------------------------------------------
(* Facts that the actions share. *)

LEMMA Session ==
    ASSUME Types, Registered, NEW w \in Worker, sess[w] \in Fd
    PROVE  /\ sock[w] = sess[w] /\ ptr[sess[w]] = w
           /\ peer[sess[w]] \in Client /\ mask[sess[w]] # None
  BY DEF Types, KernelTypes, Registered

\* Two open sessions have different descriptors and different clients.
LEMMA Distinct ==
    ASSUME Types, Registered, ClientInv,
           NEW v \in Worker, NEW w \in Worker, sess[v] \in Fd, sess[w] \in Fd, v # w
    PROVE  sess[v] # sess[w] /\ peer[sess[v]] # peer[sess[w]]
  <1>1. sess[v] # sess[w]
    BY Session
  <1>2. peer[sess[v]] # None
    BY Session, HttpAssumption
  <1> QED
    BY <1>1, <1>2 DEF ClientInv

\* The workers of the events have open sessions.
LEMMA EventWorker ==
    ASSUME Events
    PROVE  \A w \in InBatch \union InEvent :
             w \in Worker /\ sess[w] \in Fd /\ \E m : EventOf(w, m)
  <1>1. ASSUME NEW w \in InBatch
        PROVE  w \in Worker /\ sess[w] \in Fd /\ \E m : EventOf(w, m)
    <2>1. PICK e \in batch : w = e[1]
      BY DEF InBatch
    <2>2. EventOf(w, e[2])
      BY <2>1 DEF Events
    <2> QED
      BY <2>2 DEF EventOf
  <1>2. ASSUME NEW w \in InEvent
        PROVE  w \in Worker /\ sess[w] \in Fd /\ \E m : EventOf(w, m)
    <2>1. PICK t \in Event : w = ew[t] /\ w # None
      BY DEF InEvent
    <2>2. EventOf(w, epc[t])
      BY <2>1 DEF Events, EventAt
    <2> QED
      BY <2>2 DEF EventOf
  <1> QED
    BY <1>1, <1>2

\* The workers of the queue and of the processors, and their phase.
LEMMA ProcessWorker ==
    ASSUME Processing, Types
    PROVE  /\ \A w \in InQueue : w \in Worker /\ Pending(w)
           /\ \A p \in Proc : pw[p] # None =>
                pw[p] \in Worker /\ stat[pw[p]] = 1 /\ sess[pw[p]] # None
  BY DEF Processing, ProcAt, Types, TaskTypes, InQueue

-----------------------------------------------------------------------------
(* The steps of the clients. *)

LEMMA SendKeeps ==
    ASSUME ShellInv, StillLeft, NEW c \in Client, Send(c)
    PROVE  ShellInv'
  <1>1. ClientTypes /\ KernelTypes /\ SessionTypes /\ WorkerTypes
    BY DEF ShellInv, Types
  <1>2. /\ sent' = [sent EXCEPT ![c] = sent[c] + 1]
        /\ unread' = [unread EXCEPT ![c] = unread[c] + 1]
        /\ link[c] = "up" /\ sent[c] < ReqLen[c]
        /\ UNCHANGED <<link, pipe, got>>
    BY DEF Send
  <1>3. UNCHANGED <<kernelVars, workerVars, sessionVars, taskVars, acceptVars, cpc, eventVars, procVars, mainVars>>
    BY DEF Send
  <1>4. ClientTypes'
    <2>1. ASSUME NEW d \in Client PROVE unread'[d] <= sent'[d] /\ sent'[d] <= ReqLen[d]
      <3>1. /\ unread[d] \in Nat /\ sent[d] \in Nat /\ unread[d] <= sent[d] /\ sent[d] <= ReqLen[d]
            /\ ReqLen[d] \in Nat
        BY <1>1, HttpAssumption DEF ClientTypes
      <3>2. /\ sent'[d] = IF d = c THEN sent[d] + 1 ELSE sent[d]
            /\ unread'[d] = IF d = c THEN unread[d] + 1 ELSE unread[d]
        BY <1>1, <1>2 DEF ClientTypes
      <3> QED
        BY <1>2, <3>1, <3>2
    <2> QED
      BY <1>1, <1>2, <2>1 DEF ClientTypes
  <1>5. Types'
    BY <1>3, <1>4, TypeFrame DEF ShellInv, Types
  <1>6. ClientInv'
    BY <1>1, <1>2, <1>3 DEF ShellInv, ClientTypes, ClientInv, Unanswered, kernelVars
  <1>7. AcceptInv'
    BY <1>1, <1>2, <1>3 DEF ShellInv, ClientTypes, KernelTypes, AcceptInv, Unanswered, kernelVars, acceptVars
  <1>8. Addresses' /\ Registered' /\ Own'
    BY <1>2, <1>3, AddressFrame, RegisterFrame, AnswerFrame
       DEF ShellInv, kernelVars, workerVars, sessionVars, acceptVars
  <1>9. ASSUME NEW w \in Worker PROVE Exchange(w)'
    <2>1. CASE sess[w] \in Fd /\ peer[sess[w]] = c
      <3>1. Len(input[w]) + unread[c] = sent[c] /\ Len(input[w]) \in Nat
        <4>1. Exchange(w) /\ input[w] \in Seq(Client)
          BY <1>1 DEF ShellInv, WorkerTypes
        <4>2. Len(input[w]) \in Nat
          BY <4>1
        <4>3. Len(input[w]) + unread[c] = sent[c]
          BY <2>1, <4>1 DEF Exchange
        <4> QED
          BY <4>2, <4>3
      <3>2. Len(input[w]) + unread'[c] = sent'[c]
        BY <1>1, <1>2, <3>1 DEF ClientTypes
      <3> QED
        BY <1>2, <1>3, <2>1, <3>2 DEF ShellInv, Exchange, Complete, Unanswered, kernelVars, workerVars,
              sessionVars, eventVars
    <2>2. CASE ~(sess[w] \in Fd /\ peer[sess[w]] = c)
      <3>1. NotClosing(w)' => NotClosing(w)
        BY <1>3 DEF NotClosing, eventVars
      <3>2. sess[w] \in Fd => /\ sent'[peer[sess[w]]] = sent[peer[sess[w]]]
                             /\ unread'[peer[sess[w]]] = unread[peer[sess[w]]]
        BY <1>1, <1>2, <2>2, Session DEF ShellInv, ClientTypes
      <3> QED
        BY <1>2, <1>3, <3>1, <3>2, ExchangeFrame
           DEF ShellInv, kernelVars, workerVars, sessionVars
    <2> QED
      BY <2>1, <2>2
  <1>10. Events' /\ Processing'
    BY <1>3, EventsFrame, QuietProcess
       DEF ShellInv, kernelVars, workerVars, sessionVars, taskVars, eventVars, procVars
  <1> QED
    BY <1>5, <1>6, <1>7, <1>8, <1>9, <1>10 DEF ShellInv

\* The first part of a sequence moves to the end of the one before it.
LEMMA Moved ==
    ASSUME NEW S, NEW s \in Seq(S), NEW g \in Seq(S), s # <<>>,
           NEW h, NEW r, h = Append(g, Head(s)), r = Tail(s)
    PROVE  /\ h \in Seq(S) /\ r \in Seq(S) /\ h # <<>>
           /\ Len(h) + Len(r) = Len(g) + Len(s)
           /\ h \o r = g \o s
  <1>1. /\ Len(g) \in Nat /\ Len(s) \in Nat /\ Len(s) > 0 /\ Head(s) \in S /\ Head(s) = s[1]
    OBVIOUS
  <1>2. h \in Seq(S) /\ Len(h) = Len(g) + 1 /\ h # <<>>
        /\ \A k \in 1..Len(h) : h[k] = IF k <= Len(g) THEN g[k] ELSE s[1]
    BY <1>1
  <1>3. r \in Seq(S) /\ Len(r) = Len(s) - 1 /\ \A k \in 1..Len(r) : r[k] = s[k + 1]
    BY <1>1
  <1>4. Len(h \o r) = Len(g \o s)
    BY <1>1, <1>2, <1>3
  <1>5. ASSUME NEW k \in 1..Len(h \o r)
        PROVE  (h \o r)[k] = (g \o s)[k]
    <2>1. (h \o r)[k] = IF k <= Len(h) THEN h[k] ELSE r[k - Len(h)]
      BY <1>2, <1>3
    <2>2. (g \o s)[k] = IF k <= Len(g) THEN g[k] ELSE s[k - Len(g)]
      BY <1>1, <1>2, <1>3
    <2>3. CASE k <= Len(h)
      BY <1>1, <1>2, <2>1, <2>2, <2>3
    <2>4. CASE k > Len(h)
      <3>1. k - Len(h) \in 1..Len(r) /\ k - Len(g) = (k - Len(h)) + 1
        BY <1>1, <1>2, <1>3, <2>4
      <3> QED
        BY <1>1, <1>2, <1>3, <2>1, <2>2, <2>4, <3>1
    <2> QED
      BY <1>2, <2>3, <2>4
  <1>6. h \o r \in Seq(S) /\ g \o s \in Seq(S)
    BY <1>2, <1>3
  <1> QED
    BY <1>2, <1>3, <1>1, <1>4, <1>5, <1>6, SeqEqual

LEMMA ReceiveKeeps ==
    ASSUME ShellInv, StillLeft, NEW c \in Client, Receive(c)
    PROVE  ShellInv'
  <1>0. ClientTypes /\ KernelTypes /\ SessionTypes /\ WorkerTypes
    BY DEF ShellInv, Types
  <1>1. PICK g, s, h, r :
          /\ s = pipe[c] /\ g = got[c] /\ s \in Seq(Client) /\ g \in Seq(Client) /\ s # <<>>
          /\ h = Append(g, Head(s)) /\ r = Tail(s) /\ link[c] = "up"
          /\ got' = [got EXCEPT ![c] = h] /\ pipe' = [pipe EXCEPT ![c] = r]
    BY <1>0 DEF ClientTypes, Receive
  <1>2. /\ h \in Seq(Client) /\ r \in Seq(Client) /\ h # <<>>
        /\ Len(h) + Len(r) = Len(g) + Len(s)
        /\ h \o r = g \o s
    <2>1. s \in Seq(Client) /\ g \in Seq(Client) /\ s # <<>> /\ h = Append(g, Head(s)) /\ r = Tail(s)
      BY <1>1
    <2> QED
      BY ONLY <2>1, Moved
  <1>3. UNCHANGED <<link, sent, unread, kernelVars, workerVars, sessionVars, taskVars, acceptVars, cpc,
                    eventVars, procVars, mainVars>>
    BY DEF Receive
  <1>4. Types'
    <2>1. ClientTypes'
      BY <1>0, <1>1, <1>2, <1>3 DEF ClientTypes
    <2> QED
      BY <1>3, <2>1, TypeFrame DEF ShellInv, Types
  <1>5. ClientInv'
    BY <1>0, <1>1, <1>2, <1>3 DEF ShellInv, ClientTypes, ClientInv, Unanswered, kernelVars
  <1>6. AcceptInv'
    BY <1>0, <1>1, <1>3 DEF ShellInv, ClientTypes, KernelTypes, AcceptInv, Unanswered, kernelVars, acceptVars
  <1>7. Addresses' /\ Registered'
    BY <1>3, AddressFrame, RegisterFrame
       DEF ShellInv, kernelVars, workerVars, sessionVars, acceptVars
  <1>8. Own'
    <2>1. ASSUME NEW d \in Client
          PROVE  got'[d] \o pipe'[d] = got[d] \o pipe[d]
      BY <1>0, <1>1, <1>2 DEF ClientTypes
    <2> QED
      BY <2>1 DEF Own, ShellInv
  <1>9. ASSUME NEW w \in Worker PROVE Exchange(w)'
    <2>1. CASE sess[w] \in Fd /\ peer[sess[w]] = c
      <3>1. ~Unanswered(c)
        BY <1>1 DEF Unanswered
      <3>2. Len(got'[c]) + Len(pipe'[c]) = Len(got[c]) + Len(pipe[c])
        BY <1>0, <1>1, <1>2 DEF ClientTypes
      <3> QED
        BY <1>3, <2>1, <3>1, <3>2 DEF ShellInv, Exchange, Complete, kernelVars, workerVars,
              sessionVars, eventVars
    <2>2. CASE ~(sess[w] \in Fd /\ peer[sess[w]] = c)
      <3>1. NotClosing(w)' => NotClosing(w)
        BY <1>3 DEF NotClosing, eventVars
      <3>2. sess[w] \in Fd => /\ got'[peer[sess[w]]] = got[peer[sess[w]]]
                             /\ pipe'[peer[sess[w]]] = pipe[peer[sess[w]]]
        BY <1>0, <1>1, <2>2, Session DEF ShellInv, ClientTypes
      <3> QED
        BY <1>3, <3>1, <3>2, ExchangeFrame
           DEF ShellInv, kernelVars, workerVars, sessionVars
    <2> QED
      BY <2>1, <2>2
  <1>10. Events' /\ Processing'
    BY <1>3, EventsFrame, QuietProcess
       DEF ShellInv, kernelVars, workerVars, sessionVars, taskVars, eventVars, procVars
  <1> QED
    BY <1>4, <1>5, <1>6, <1>7, <1>8, <1>9, <1>10 DEF ShellInv

\* What is received stays, when what is under way is lost.
LEMMA Kept ==
    ASSUME NEW S, NEW g \in Seq(S), NEW s \in Seq(S), NEW n \in Nat, NEW c,
           Len(g \o s) <= n, \A k \in 1..Len(g \o s) : (g \o s)[k] = c
    PROVE  Len(g \o <<>>) <= n /\ \A k \in 1..Len(g \o <<>>) : (g \o <<>>)[k] = c
  <1>1. Len(g) \in Nat /\ Len(s) \in Nat /\ Len(g \o s) = Len(g) + Len(s) /\ g \o <<>> = g
    OBVIOUS
  <1>2. \A k \in 1..Len(g) : (g \o s)[k] = g[k] /\ k \in 1..Len(g \o s)
    BY <1>1
  <1> QED
    BY <1>1, <1>2

LEMMA LeaveKeeps ==
    ASSUME ShellInv, StillLeft, NEW c \in Client, Leave(c)
    PROVE  ShellInv'
  <1>0. ClientTypes /\ KernelTypes /\ SessionTypes /\ WorkerTypes
    BY DEF ShellInv, Types
  <1>1. /\ link[c] = "up" /\ link' = [link EXCEPT ![c] = "gone"]
        /\ pipe' = [pipe EXCEPT ![c] = <<>>]
    BY DEF Leave
  <1>2. UNCHANGED <<sent, unread, got, kernelVars, workerVars, sessionVars, taskVars, acceptVars, cpc,
                    eventVars, procVars, mainVars>>
    BY DEF Leave
  <1>3. /\ pipe[c] \in Seq(Client) /\ got[c] \in Seq(Client) /\ Len(pipe[c]) \in Nat /\ Len(got[c]) \in Nat
        /\ \A d \in Client : pipe'[d] = IF d = c THEN <<>> ELSE pipe[d]
    BY <1>0, <1>1 DEF ClientTypes
  <1>4. Types'
    <2>1. ClientTypes'
      BY <1>0, <1>1, <1>2 DEF ClientTypes
    <2> QED
      BY <1>2, <2>1, TypeFrame DEF ShellInv, Types
  <1>5. ClientInv'
    <2>1. ASSUME NEW d \in Client
          PROVE  /\ link'[d] = "new" => sent[d] = 0 /\ unread[d] = 0 /\ got[d] = <<>> /\ pipe'[d] = <<>>
                 /\ link[d] # "new" => link'[d] # "new"
      <3>1. link'[d] = IF d = c THEN "gone" ELSE link[d]
        BY <1>0, <1>1 DEF ClientTypes
      <3> QED
        BY <1>1, <1>3, <3>1 DEF ShellInv, ClientInv, Unanswered
    <2> QED
      BY <1>0, <1>2, <2>1, HttpAssumption DEF ShellInv, ClientInv, Unanswered, kernelVars, KernelTypes
  <1>6. AcceptInv'
    BY <1>0, <1>2, <1>3 DEF ShellInv, KernelTypes, AcceptInv, Unanswered, kernelVars, acceptVars
  <1>7. Addresses'
    <2>1. {d \in Client : link'[d] # "new"} = {d \in Client : link[d] # "new"}
      BY <1>0, <1>1 DEF ClientTypes
    <2> QED
      BY <1>2, <2>1 DEF ShellInv, Addresses, sessionVars, acceptVars
  <1>8. Registered'
    BY <1>2, RegisterFrame DEF ShellInv, kernelVars, workerVars, sessionVars, acceptVars
  <1>9. Own'
    <2>1. Len(got[c] \o <<>>) <= RespLen[c] /\ \A k \in 1..Len(got[c] \o <<>>) : (got[c] \o <<>>)[k] = c
      <3>1. RespLen[c] \in Nat
        BY HttpAssumption
      <3>2. Len(got[c] \o pipe[c]) <= RespLen[c] /\ \A k \in 1..Len(got[c] \o pipe[c]) : (got[c] \o pipe[c])[k] = c
        BY DEF ShellInv, Own
      <3>3. PICK g, s, n : g = got[c] /\ s = pipe[c] /\ n = RespLen[c]
        OBVIOUS
      <3>4. /\ g \in Seq(Client) /\ s \in Seq(Client) /\ n \in Nat
            /\ Len(g \o s) <= n /\ \A k \in 1..Len(g \o s) : (g \o s)[k] = c
        BY <1>3, <3>1, <3>2, <3>3
      <3>5. Len(g \o <<>>) <= n /\ \A k \in 1..Len(g \o <<>>) : (g \o <<>>)[k] = c
        BY ONLY <3>4, Kept
      <3> QED
        BY <3>3, <3>5
    <2>2. ASSUME NEW d \in Client
          PROVE  LET s == got'[d] \o pipe'[d] IN Len(s) <= RespLen[d] /\ \A k \in 1..Len(s) : s[k] = d
      <3>1. CASE d = c
        BY <1>2, <1>3, <2>1, <3>1
      <3>2. CASE d # c
        BY <1>2, <1>3, <3>2 DEF ShellInv, Own
      <3> QED
        BY <3>1, <3>2
    <2> QED
      BY <2>2 DEF Own
  <1>10. ASSUME NEW w \in Worker PROVE Exchange(w)'
    <2>1. CASE sess[w] \in Fd /\ peer[sess[w]] = c
      <3>1. got'[c] = got[c] /\ pipe'[c] = <<>> /\ Len(pipe'[c]) = 0
        BY <1>2, <1>3
      <3>2. Len(got[c]) + Len(pipe[c]) <= sendCnt[w] => Len(got'[c]) + Len(pipe'[c]) <= sendCnt[w]
        <4>1. PICK a, b, n : a = Len(got[c]) /\ b = Len(pipe[c]) /\ n = sendCnt[w] /\ n \in Nat
                             /\ a \in Nat /\ b \in Nat
          BY <1>0, <1>3 DEF WorkerTypes
        <4>2. Len(got'[c]) = a /\ Len(pipe'[c]) = 0
          BY <3>1, <4>1
        <4>3. a + b <= n => a + 0 <= n
          <5>1. a \in Nat /\ b \in Nat /\ n \in Nat
            BY <4>1
          <5> QED
            BY <5>1
        <4>4. a + b <= n => Len(got'[c]) + Len(pipe'[c]) <= n
          BY <4>2, <4>3
        <4> QED
          BY <4>1, <4>4
      <3> QED
        BY <1>2, <2>1, <3>1, <3>2 DEF ShellInv, Exchange, Complete, Unanswered, kernelVars, workerVars,
              sessionVars, eventVars
    <2>2. CASE ~(sess[w] \in Fd /\ peer[sess[w]] = c)
      <3>1. NotClosing(w)' => NotClosing(w)
        BY <1>2 DEF NotClosing, eventVars
      <3>2. sess[w] \in Fd => pipe'[peer[sess[w]]] = pipe[peer[sess[w]]]
        BY <1>3, <2>2, Session DEF ShellInv
      <3> QED
        BY <1>2, <3>1, <3>2, ExchangeFrame
           DEF ShellInv, kernelVars, workerVars, sessionVars
    <2> QED
      BY <2>1, <2>2
  <1>11. Events' /\ Processing'
    BY <1>2, EventsFrame, QuietProcess
       DEF ShellInv, kernelVars, workerVars, sessionVars, taskVars, eventVars, procVars
  <1> QED
    BY <1>4, <1>5, <1>6, <1>7, <1>8, <1>9, <1>10, <1>11 DEF ShellInv

-----------------------------------------------------------------------------
(* The steps of the accepting thread and of the cleaning thread. *)

LEMMA AcceptKeeps ==
    ASSUME ShellInv, StillLeft, NEW c \in Client, Accept(c)
    PROVE  ShellInv'
  <1>0. ClientTypes /\ KernelTypes /\ SessionTypes /\ WorkerTypes /\ Types /\ Registered /\ ClientInv
    BY DEF ShellInv, Types
  <1>1. PICK f : f = Lowest(Free)
    OBVIOUS
  <1>2. f \in Fd /\ peer[f] = None
    BY <1>1, NewNumbers DEF Accept
  <1>3. /\ apc = "accept" /\ link[c] = "new" /\ apc' = "create" /\ afd' = f
        /\ link' = [link EXCEPT ![c] = "up"] /\ peer' = [peer EXCEPT ![f] = c]
    BY <1>1 DEF Accept
  <1>4. UNCHANGED <<sent, unread, pipe, got, mask, ptr, workerVars, sessionVars, taskVars, cpc,
                    eventVars, procVars, mainVars>>
    BY DEF Accept
  <1>5. /\ \A d \in Client : link'[d] = IF d = c THEN "up" ELSE link[d]
        /\ \A g \in Fd : peer'[g] = IF g = f THEN c ELSE peer[g]
    BY <1>0, <1>3 DEF ClientTypes, KernelTypes
  <1>6. c # None /\ \A g \in Fd : peer[g] # c
    BY <1>0, <1>3, HttpAssumption DEF ClientInv
  <1>7. mask[f] = None
    BY <1>0, <1>2 DEF Registered
  <1>8. \A w \in Worker : sess[w] \in Fd => sess[w] # f /\ peer'[sess[w]] = peer[sess[w]]
    BY <1>0, <1>2, <1>5 DEF Registered
  <1>9. Types'
    <2>1. ClientTypes' /\ KernelTypes' /\ AcceptTypes'
      BY <1>0, <1>2, <1>3, <1>4 DEF ClientTypes, KernelTypes, AcceptTypes
    <2> QED
      BY <1>4, <2>1, TypeFrame DEF ShellInv, Types
  <1>10. ClientInv'
    <2>1. \A d \in Client :
            link'[d] = "new" => sent[d] = 0 /\ unread[d] = 0 /\ Unanswered(d)
      BY <1>0, <1>3, <1>5 DEF ClientInv
    <2>2. \A g \in Fd : peer'[g] # None => link'[peer'[g]] # "new"
      <3>1. \A g \in Fd : peer[g] # None => peer[g] \in Client /\ link[peer[g]] # "new"
        BY <1>0 DEF ClientInv, KernelTypes
      <3> QED
        BY <1>5, <3>1
    <2>3. \A g, h \in Fd : peer'[g] # None /\ peer'[g] = peer'[h] => g = h
      BY <1>0, <1>5, <1>6 DEF ClientInv
    <2> QED
      BY <1>4, <2>1, <2>2, <2>3 DEF ClientInv, Unanswered
  <1>11. AcceptInv'
    <2>1. sent[c] = 0 /\ unread[c] = 0 /\ Unanswered(c)
      BY <1>0, <1>3 DEF ClientInv
    <2>2. peer'[f] = c
      BY <1>2, <1>5
    <2> QED
      BY <1>2, <1>3, <1>4, <1>6, <1>7, <2>1, <2>2 DEF AcceptInv, Unanswered
  <1>12. Addresses'
    <2> DEFINE C == {d \in Client : link[d] # "new"}
               D == {d \in Client : link'[d] # "new"}
               U == {w \in Worker : sess[w] # None}
    <2>1. D = C \union {c} /\ c \notin C /\ C \subseteq Client /\ U \subseteq Worker
      BY <1>3, <1>5
    <2>2. Cardinality(U) + 0 <= Cardinality(C)
      BY <1>3 DEF ShellInv, Addresses
    <2> HIDE DEF C, D, U
    <2>3. Cardinality(U) \in Nat /\ Cardinality(C) \in Nat /\ IsFiniteSet(C)
      BY <2>1, AddressAssumption, FS_Subset, FS_CardinalityType
    <2>4. Cardinality(D) = Cardinality(C) + 1
      BY <2>1, <2>3, FS_AddElement
    <2>5. Cardinality(U) + 1 <= Cardinality(D)
      BY <2>2, <2>3, <2>4
    <2> QED
      BY <1>3, <1>4, <2>5 DEF ShellInv, Addresses, sessionVars, U, D
  <1>13. Registered'
    BY <1>0, <1>3, <1>4, <1>5, <1>8 DEF Registered, sessionVars, workerVars
  <1>14. Own'
    BY <1>4, AnswerFrame DEF ShellInv
  <1>15. ASSUME NEW w \in Worker PROVE Exchange(w)'
    <2>1. NotClosing(w)' => NotClosing(w)
      BY <1>4 DEF NotClosing, eventVars
    <2> QED
      BY <1>4, <1>8, <2>1, ExchangeFrame DEF ShellInv, workerVars, sessionVars
  <1>16. Events'
    <2>1. \A w \in InBatch \union InEvent : peer'[sess[w]] = peer[sess[w]]
      BY <1>8, EventWorker DEF ShellInv
    <2> QED
      BY <1>4, <2>1, EventsFrame DEF ShellInv, workerVars, sessionVars, eventVars
  <1>17. Processing'
    <2>1. \A g \in Fd : peer[g] # None => peer'[g] = peer[g]
      BY <1>2, <1>5
    <2> QED
      BY <1>4, <2>1, QuietProcess DEF ShellInv, workerVars, sessionVars, taskVars, procVars
  <1> QED
    BY <1>9, <1>10, <1>11, <1>12, <1>13, <1>14, <1>15, <1>16, <1>17 DEF ShellInv

\* The steps that change none of the data the invariant speaks of.
LEMMA AcceptFailsKeeps ==
    ASSUME ShellInv, StillLeft, AcceptFails
    PROVE  ShellInv'
  <1>1. /\ apc = "accept" /\ apc' = "exit"
        /\ UNCHANGED <<clientVars, kernelVars, workerVars, sessionVars, taskVars, afd, cpc,
                       eventVars, procVars, mainVars>>
    BY DEF AcceptFails
  <1>2. Types'
    <2>1. AcceptTypes'
      BY <1>1 DEF ShellInv, Types, AcceptTypes
    <2> QED
      BY <1>1, <2>1, TypeFrame DEF ShellInv, Types
  <1>3. ClientInv' /\ Own'
    BY <1>1, ClientFrame, AnswerFrame DEF ShellInv, clientVars, kernelVars
  <1>4. AcceptInv' /\ Addresses' /\ Registered'
    BY <1>1 DEF ShellInv, AcceptInv, Addresses, Registered, clientVars, kernelVars, workerVars, sessionVars
  <1>5. ASSUME NEW w \in Worker PROVE Exchange(w)'
    <2>1. NotClosing(w)' => NotClosing(w)
      BY <1>1 DEF NotClosing, eventVars
    <2> QED
      BY <1>1, <2>1, ExchangeFrame DEF ShellInv, clientVars, kernelVars, workerVars, sessionVars
  <1>6. Events' /\ Processing'
    BY <1>1, EventsFrame, QuietProcess
       DEF ShellInv, kernelVars, workerVars, sessionVars, taskVars, eventVars, procVars
  <1> QED
    BY <1>2, <1>3, <1>4, <1>5, <1>6 DEF ShellInv

LEMMA CleanerEndsKeeps ==
    ASSUME ShellInv, StillLeft, CleanerEnds
    PROVE  ShellInv'
  <1>1. /\ cpc' = "exit"
        /\ UNCHANGED <<clientVars, kernelVars, workerVars, sessionVars, taskVars, acceptVars,
                       eventVars, procVars, mainVars>>
    BY DEF CleanerEnds
  <1>2. Types'
    BY <1>1, TypeFrame DEF ShellInv, Types
  <1>3. ClientInv' /\ Own' /\ AcceptInv' /\ Addresses' /\ Registered'
    BY <1>1, ClientFrame, AnswerFrame, AcceptFrame, AddressFrame, RegisterFrame
       DEF ShellInv, clientVars, kernelVars, acceptVars, sessionVars, workerVars
  <1>5. ASSUME NEW w \in Worker PROVE Exchange(w)'
    <2>1. NotClosing(w)' => NotClosing(w)
      BY <1>1 DEF NotClosing, eventVars
    <2> QED
      BY <1>1, <2>1, ExchangeFrame DEF ShellInv, clientVars, kernelVars, workerVars, sessionVars
  <1>6. Events' /\ Processing'
    BY <1>1, EventsFrame, QuietProcess
       DEF ShellInv, kernelVars, workerVars, sessionVars, taskVars, eventVars, procVars
  <1> QED
    BY <1>2, <1>3, <1>5, <1>6 DEF ShellInv

LEMMA createSessionKeeps ==
    ASSUME ShellInv, StillLeft, createSession
    PROVE  ShellInv'
  <1>0. ClientTypes /\ KernelTypes /\ SessionTypes /\ WorkerTypes /\ Types /\ Registered /\ ClientInv
    BY DEF ShellInv, Types
  <1>1. PICK v : v = Lowest({u \in Worker : sess[u] = None})
    OBVIOUS
  <1>2. PICK f : f = afd
    OBVIOUS
  <1>3. apc = "create"
    BY DEF createSession
  <1>4. v \in Worker /\ sess[v] = None
    BY <1>1, <1>3, NewNumbers
  <1>5. /\ f \in Fd /\ mask[f] = None /\ peer[f] # None
        /\ unread[peer[f]] = sent[peer[f]] /\ Unanswered(peer[f])
    BY <1>2, <1>3 DEF ShellInv, AcceptInv
  <1>6. /\ sess' = [sess EXCEPT ![v] = f] /\ sock' = [sock EXCEPT ![v] = f]
        /\ stat' = [stat EXCEPT ![v] = 0] /\ input' = [input EXCEPT ![v] = <<>>]
        /\ answer' = [answer EXCEPT ![v] = None] /\ sendCnt' = [sendCnt EXCEPT ![v] = 0]
        /\ mask' = [mask EXCEPT ![f] = "in"] /\ ptr' = [ptr EXCEPT ![f] = v]
        /\ nowConn' = nowConn + 1 /\ apc' \in {"accept", "exit"} /\ afd' = None
    BY <1>1, <1>2 DEF createSession
  <1>7. UNCHANGED <<clientVars, peer, taskVars, cpc, eventVars, procVars, mainVars>>
    BY DEF createSession
  <1>8. ASSUME NEW w \in Worker, w # v
        PROVE  /\ sess'[w] = sess[w] /\ sock'[w] = sock[w] /\ stat'[w] = stat[w] /\ input'[w] = input[w]
               /\ answer'[w] = answer[w] /\ sendCnt'[w] = sendCnt[w]
    BY <1>0, <1>4, <1>6, <1>8 DEF SessionTypes, WorkerTypes
  <1>9. /\ sess'[v] = f /\ sock'[v] = f /\ stat'[v] = 0 /\ input'[v] = <<>>
        /\ answer'[v] = None /\ sendCnt'[v] = 0
    BY <1>0, <1>4, <1>6 DEF SessionTypes, WorkerTypes
  <1>10. \A g \in Fd : /\ mask'[g] = IF g = f THEN "in" ELSE mask[g]
                       /\ ptr'[g] = IF g = f THEN v ELSE ptr[g]
    BY <1>0, <1>5, <1>6 DEF KernelTypes
  <1>11. None \notin Fd /\ None # "in"
    BY HttpAssumption
  <1>12. ASSUME NEW w \in Worker, sess[w] \in Fd
         PROVE  w # v /\ sess[w] # f /\ mask'[sess[w]] = mask[sess[w]] /\ ptr'[sess[w]] = ptr[sess[w]]
    BY <1>0, <1>4, <1>5, <1>10, <1>11, <1>12, Session
  <1>13. Types'
    <2>1. KernelTypes'
      BY <1>0, <1>4, <1>5, <1>6, <1>7 DEF KernelTypes
    <2>2. WorkerTypes'
      BY <1>0, <1>4, <1>5, <1>6 DEF WorkerTypes
    <2>3. SessionTypes' /\ AcceptTypes'
      BY <1>0, <1>4, <1>5, <1>6 DEF SessionTypes, AcceptTypes
    <2> QED
      BY <1>7, <2>1, <2>2, <2>3, TypeFrame DEF ShellInv, Types
  <1>14. ClientInv' /\ Own'
    BY <1>7, ClientFrame, AnswerFrame DEF ShellInv, clientVars
  <1>15. AcceptInv'
    BY <1>6 DEF AcceptInv
  <1>16. Addresses'
    <2> DEFINE C == {d \in Client : link[d] # "new"}
               U == {w \in Worker : sess[w] # None}
               V == {w \in Worker : sess'[w] # None}
               A == {w \in Worker : sess[w] \in Fd}
               B == {w \in Worker : sess'[w] \in Fd}
    <2>1. V = U \union {v} /\ v \notin U /\ U \subseteq Worker /\ C \subseteq Client
      BY <1>4, <1>5, <1>8, <1>9, <1>11
    <2>2. B = A \union {v} /\ v \notin A /\ A \subseteq Worker
      BY <1>4, <1>5, <1>8, <1>9, <1>11
    <2>3. Cardinality(U) + 1 <= Cardinality(C) /\ nowConn = Cardinality(A)
      BY <1>3 DEF ShellInv, Addresses
    <2> HIDE DEF C, U, V, A, B
    <2>4. Cardinality(U) \in Nat /\ Cardinality(C) \in Nat /\ IsFiniteSet(U) /\ IsFiniteSet(A)
      BY <2>1, <2>2, AddressAssumption, FS_Subset, FS_CardinalityType
    <2>5. Cardinality(V) = Cardinality(U) + 1 /\ Cardinality(B) = Cardinality(A) + 1
      BY <2>1, <2>2, <2>4, FS_AddElement
    <2>6. nowConn' = Cardinality(B) /\ Cardinality(V) + 0 <= Cardinality(C)
      BY <1>6, <2>3, <2>4, <2>5
    <2>7. apc' # "create"
      BY <1>6
    <2> QED
      BY <1>7, <2>6, <2>7 DEF Addresses, clientVars, V, B, C
  <1>17. Registered'
    <2>1. ASSUME NEW w \in Worker, sess'[w] \in Fd
          PROVE  LET g == sess'[w] IN
                 sock'[w] = g /\ peer'[g] # None /\ mask'[g] # None /\ ptr'[g] = w
      <3>1. CASE w = v
        BY <1>5, <1>7, <1>9, <1>10, <1>11, <3>1
      <3>2. CASE w # v
        BY <1>0, <1>7, <1>8, <1>12, <2>1, <3>2 DEF Registered
      <3> QED
        BY <3>1, <3>2
    <2>2. ASSUME NEW g \in Fd
          PROVE  /\ mask'[g] # None => ptr'[g] \in Worker /\ sess'[ptr'[g]] = g
                 /\ peer'[g] # None => mask'[g] # None
      <3>1. CASE g = f
        BY <1>4, <1>9, <1>10, <1>11, <3>1
      <3>2. CASE g # f
        <4>1. /\ mask[g] # None => ptr[g] \in Worker /\ sess[ptr[g]] = g
              /\ peer[g] # None => mask[g] # None
          BY <1>0, <1>2, <3>2 DEF Registered
        <4>2. mask[g] # None => ptr[g] # v
          BY <1>4, <1>11, <4>1
        <4> QED
          BY <1>7, <1>8, <1>10, <3>2, <4>1, <4>2
      <3> QED
        BY <3>1, <3>2
    <2> QED
      BY <2>1, <2>2 DEF Registered
  <1>18. ASSUME NEW w \in Worker PROVE Exchange(w)'
    <2>1. CASE w = v
      <3>1. Len(<<>>) = 0 /\ 1..0 = {} /\ 0 + 0 <= 0
        OBVIOUS
      <3>2. PICK c : c = peer[f] /\ c \in Client
        BY <1>0, <1>5 DEF KernelTypes
      <3>3. /\ peer'[f] = c /\ unread'[c] = sent'[c] /\ unread'[c] \in Nat
            /\ got'[c] = <<>> /\ pipe'[c] = <<>>
        BY <1>0, <1>5, <1>7, <3>2 DEF Unanswered, clientVars, ClientTypes
      <3>4. 0 + unread'[c] = sent'[c]
        BY <3>3
      <3>5. mask'[f] = "in"
        BY <1>5, <1>10
      <3>6. /\ \A k \in 1..Len(input'[v]) : input'[v][k] = c
            /\ Len(input'[v]) + unread'[c] = sent'[c]
            /\ Len(got'[c]) + Len(pipe'[c]) <= sendCnt'[v]
        BY <1>9, <3>1, <3>3, <3>4
      <3>7. /\ answer'[v] \in {None, c} /\ sendCnt'[v] = 0
            /\ mask'[f] # "out" /\ stat'[v] = 0 /\ answer'[v] = None
        BY <1>9, <3>5
      <3>8. Exchange(v)'
        BY <1>4, <1>5, <1>9, <3>2, <3>3, <3>6, <3>7, ExchangeAfter
      <3> QED
        BY <2>1, <3>8
    <2>2. CASE w # v
      <3>1. NotClosing(w)' => NotClosing(w)
        BY <1>7 DEF NotClosing, eventVars
      <3> QED
        BY <1>7, <1>8, <1>12, <2>2, <3>1, ExchangeFrame DEF ShellInv, clientVars
    <2> QED
      BY <2>1, <2>2
  <1>19. Events'
    <2>1. \A w \in InBatch \union InEvent :
             /\ sess'[w] = sess[w] /\ mask'[sess[w]] = mask[sess[w]]
             /\ stat'[w] = stat[w] /\ input'[w] = input[w] /\ answer'[w] = answer[w]
      BY <1>8, <1>12, EventWorker DEF ShellInv
    <2> QED
      BY <1>7, <2>1, EventsFrame DEF ShellInv, eventVars
  <1>20. Processing'
    <2>1. ASSUME NEW w \in Worker, Pending(w)
          PROVE  Pending(w)' /\ sess'[w] = sess[w] /\ answer'[w] = answer[w]
      <3>1. w # v
        BY <1>4, <2>1 DEF Pending
      <3> QED
        BY <1>0, <1>7, <1>8, <1>12, <2>1, <3>1, PendingFrame
    <2>2. \A w \in Worker : stat[w] = 1 /\ sess[w] # None => stat'[w] = 1 /\ sess'[w] # None
      BY <1>4, <1>8
    <2> QED
      BY <1>7, <2>1, <2>2, ProcessFrame DEF ShellInv, taskVars, procVars
  <1> QED
    BY <1>13, <1>14, <1>15, <1>16, <1>17, <1>18, <1>19, <1>20 DEF ShellInv

LEMMA checkUnreleaseWorkerKeeps ==
    ASSUME ShellInv, StillLeft, checkUnreleaseWorker
    PROVE  ShellInv'
  <1>0. ClientTypes /\ KernelTypes /\ SessionTypes /\ WorkerTypes /\ Types /\ Registered /\ ClientInv
    BY DEF ShellInv, Types
  <1>1. PICK R : R = Released
    OBVIOUS
  <1>2. UNCHANGED <<clientVars, kernelVars, sock, nowConn, taskVars, acceptVars, cpc,
                    eventVars, procVars, mainVars>>
    BY DEF checkUnreleaseWorker
  <1>3. /\ sess' = [w \in Worker |-> IF w \in R THEN None ELSE sess[w]]
        /\ stat' = [w \in Worker |-> IF w \in R THEN 0 ELSE stat[w]]
        /\ input' = [w \in Worker |-> IF w \in R THEN <<>> ELSE input[w]]
        /\ answer' = [w \in Worker |-> IF w \in R THEN None ELSE answer[w]]
        /\ sendCnt' = [w \in Worker |-> IF w \in R THEN 0 ELSE sendCnt[w]]
    BY <1>1 DEF checkUnreleaseWorker
  <1>4. \A w \in R : w \in Worker /\ sess[w] = Closed /\ stat[w] # 1
    BY <1>1 DEF Released
  <1>5. Closed \notin Fd /\ None \notin Fd /\ Closed # None
    BY HttpAssumption
  <1>6. ASSUME NEW w \in Worker, w \notin R
        PROVE  /\ sess'[w] = sess[w] /\ stat'[w] = stat[w] /\ input'[w] = input[w]
               /\ answer'[w] = answer[w] /\ sendCnt'[w] = sendCnt[w]
    BY <1>3, <1>6
  <1>7. \A w \in R : sess'[w] = None
    BY <1>3, <1>4
  <1>8. \A w \in Worker : sess[w] \in Fd \/ sess'[w] \in Fd => w \notin R /\ sess'[w] = sess[w]
    BY <1>4, <1>5, <1>6, <1>7
  <1>9. Types'
    <2>1. WorkerTypes' /\ SessionTypes'
      <3>1. \A w \in Worker : /\ stat'[w] \in 0..2 /\ input'[w] \in Seq(Client)
                              /\ answer'[w] \in Client \union {None} /\ sendCnt'[w] \in Nat
                              /\ sess'[w] \in Fd \union {Closed, None}
        BY <1>0, <1>3 DEF WorkerTypes, SessionTypes
      <3> QED
        BY <1>0, <1>2, <1>3, <3>1 DEF WorkerTypes, SessionTypes
    <2> QED
      BY <1>2, <2>1, TypeFrame DEF ShellInv, Types
  <1>10. ClientInv' /\ Own' /\ AcceptInv'
    BY <1>2, ClientFrame, AnswerFrame, AcceptFrame DEF ShellInv, clientVars, kernelVars, acceptVars
  <1>11. Addresses'
    <2> DEFINE C == {d \in Client : link[d] # "new"}
               U == {w \in Worker : sess[w] # None}
               V == {w \in Worker : sess'[w] # None}
    <2>1. {w \in Worker : sess'[w] \in Fd} = {w \in Worker : sess[w] \in Fd}
      BY <1>8
    <2>2. V \subseteq U /\ U \subseteq Worker /\ C \subseteq Client
      BY <1>6, <1>7
    <2>3. Cardinality(U) + (IF apc = "create" THEN 1 ELSE 0) <= Cardinality(C)
      BY DEF ShellInv, Addresses
    <2> HIDE DEF C, U, V
    <2>4. /\ IsFiniteSet(U) /\ Cardinality(U) \in Nat /\ Cardinality(V) \in Nat /\ Cardinality(C) \in Nat
          /\ Cardinality(V) <= Cardinality(U)
      BY <2>2, AddressAssumption, FS_Subset, FS_CardinalityType
    <2>5. Cardinality(V) + (IF apc = "create" THEN 1 ELSE 0) <= Cardinality(C)
      BY <2>3, <2>4
    <2> QED
      BY <1>2, <2>1, <2>5 DEF ShellInv, Addresses, clientVars, acceptVars, V, C
  <1>12. Registered'
    <2>1. \A w \in Worker : sess'[w] \in Fd => sess'[w] = sess[w]
      BY <1>8
    <2>2. \A g \in Fd : mask[g] # None => ptr[g] \in Worker /\ sess[ptr[g]] = g /\ sess'[ptr[g]] = g
      BY <1>0, <1>8 DEF Registered
    <2> QED
      BY <1>0, <1>2, <2>1, <2>2 DEF Registered, kernelVars, acceptVars
  <1>13. ASSUME NEW w \in Worker PROVE Exchange(w)'
    <2>1. CASE w \in R
      BY <1>5, <1>7, <2>1 DEF Exchange
    <2>2. CASE w \notin R
      <3>1. NotClosing(w)' => NotClosing(w)
        BY <1>2 DEF NotClosing, eventVars
      <3> QED
        BY <1>2, <1>6, <2>2, <3>1, ExchangeFrame DEF ShellInv, clientVars, kernelVars
    <2> QED
      BY <2>1, <2>2
  <1>14. Events'
    <2>1. \A w \in InBatch \union InEvent :
             /\ sess'[w] = sess[w]
             /\ stat'[w] = stat[w] /\ input'[w] = input[w] /\ answer'[w] = answer[w]
      BY <1>6, <1>8, EventWorker DEF ShellInv
    <2> QED
      BY <1>2, <2>1, EventsFrame DEF ShellInv, eventVars, kernelVars
  <1>15. Processing'
    <2>1. ASSUME NEW w \in Worker, Pending(w)
          PROVE  Pending(w)' /\ sess'[w] = sess[w] /\ answer'[w] = answer[w]
      <3>1. w \notin R
        BY <1>4, <2>1 DEF Pending
      <3> QED
        BY <1>0, <1>2, <1>6, <2>1, <3>1, PendingFrame DEF kernelVars
    <2>2. \A w \in Worker : stat[w] = 1 /\ sess[w] # None => stat'[w] = 1 /\ sess'[w] # None
      BY <1>4, <1>6
    <2> QED
      BY <1>2, <2>1, <2>2, ProcessFrame DEF ShellInv, taskVars, procVars, kernelVars
  <1> QED
    BY <1>9, <1>10, <1>11, <1>12, <1>13, <1>14, <1>15 DEF ShellInv

-----------------------------------------------------------------------------
(* The steps of the event threads. *)

\* A step changes the place, the worker and the descriptor of one thread only.
OnlyThread(t) ==
    \A u \in Event : u # t => epc'[u] = epc[u] /\ ew'[u] = ew[u] /\ efd'[u] = efd[u]

\* The threads that are about to close a session stay there.
LEMMA ClosingFrame ==
    ASSUME NEW w \in Worker, NEW t \in Event, OnlyThread(t), epc[t] # "close" \/ ew[t] # w
    PROVE  NotClosing(w)' => NotClosing(w)
  BY DEF OnlyThread, NotClosing

\* The worker of a thread that handles an event; unless its client has left
\* while it waited, nobody else has an event of it.
LEMMA EventThread ==
    ASSUME Types, Events, Registered, NEW t \in Event,
           epc[t] \in {"in", "arm", "submit", "out", "close"}, NEW w, w = ew[t]
    PROVE  /\ w \in Worker /\ sess[w] \in Fd /\ efd[t] = sess[w] /\ sock[w] = sess[w]
           /\ peer[sess[w]] \in Client /\ peer[sess[w]] # None
           /\ mask[sess[w]] # None /\ EventOf(w, epc[t]) /\ w # None
           /\ ptr[sess[w]] = w
           /\ \/ w \in Left
              \/ /\ mask[sess[w]] = IF epc[t] = "submit" THEN "in" ELSE "spent"
                 /\ w \notin InHand(t)
  <1>1. EventAt(t) /\ epc[t] \notin {"lock", "wait", "exit"}
    BY DEF Events
  <1>2. EventOf(w, epc[t]) /\ efd[t] = sess[w]
    BY <1>1 DEF EventAt
  <1>3. /\ w \in Worker /\ sess[w] \in Fd
        /\ w \in Left \/ mask[sess[w]] = IF epc[t] = "submit" THEN "in" ELSE "spent"
    BY <1>2 DEF EventOf
  <1>4. w # None
    BY <1>3, HttpAssumption
  <1>5. w \in Left \/ w \notin InHand(t)
    BY <1>4 DEF Events, InHand
  <1>6. /\ sock[w] = sess[w] /\ ptr[sess[w]] = w
        /\ peer[sess[w]] \in Client /\ mask[sess[w]] # None
    BY <1>3, Session
  <1>7. peer[sess[w]] # None
    BY <1>6, HttpAssumption
  <1> QED
    BY <1>2, <1>3, <1>4, <1>5, <1>6, <1>7

\* What the session, the events and the request of a worker that others have
\* in hand may become while thread t takes a step.
Held(w, t) ==
    /\ sess'[w] = sess[w] /\ peer'[sess[w]] = peer[sess[w]]
    /\ w \in Left' \/ mask'[sess[w]] = mask[sess[w]]
    /\ stat[w] = 0 => stat'[w] = 0 \/ (w \in Left' /\ w = ew[t] /\ Submits(t))
    /\ input'[w] = input[w] \/ (w \in Left' /\ (Complete(w) => Complete(w)'))
    /\ answer'[w] \in {answer[w], peer[sess[w]]}

\* The descriptor that waits for createSession has no session.
LEMMA NotAccepted ==
    ASSUME Types, Registered, ClientInv, AcceptInv, NEW w \in Worker, sess[w] \in Fd, apc = "create"
    PROVE  afd # sess[w] /\ peer[afd] # peer[sess[w]]
  BY Session DEF AcceptInv, ClientInv

\* A thread goes on with its event, or is done with it.
LEMMA EventStep ==
    ASSUME Types, Events, StillLeft, Registered, NEW t \in Event, OnlyThread(t), UNCHANGED batch,
           ew'[t] = ew[t] \/ ew'[t] = None, EventAt(t)',
           Submits(t)' => Submits(t) \/ ew[t] \notin InHand(t),
           \A w \in Worker : w \in InHand(t) => Held(w, t)
    PROVE  Events'
  <1>0. ASSUME NEW w \in Worker, w \in InHand(t)
        PROVE  w \in Left => w \in Left'
    <2>1. w \in InBatch \union InEvent
      BY <1>0, HttpAssumption DEF InHand, InBatch, InEvent
    <2>2. sess[w] \in Fd
      BY <2>1, EventWorker
    <2>3. peer[sess[w]] \in Client
      BY <2>2, Session
    <2> QED
      BY <1>0, <2>3, LeftFrame DEF Held
  <1>1. ASSUME NEW e \in batch PROVE EventOf(e[1], e[2])'
    <2>1. PICK w, m : w = e[1] /\ m = e[2]
      OBVIOUS
    <2>2. w \in InHand(t) /\ w \in Worker /\ m \in {"in", "out"} /\ EventOf(w, m)
      BY <2>1 DEF InHand, Types, EventTypes, Events
    <2>3. EventOf(w, m)'
      BY <1>0, <2>2, EventFrame DEF Held
    <2> QED
      BY <2>1, <2>3
  <1>2. ASSUME NEW u \in Event, u # t PROVE EventAt(u)'
    <2>0. epc'[u] = epc[u] /\ ew'[u] = ew[u] /\ efd'[u] = efd[u]
      BY <1>2 DEF OnlyThread
    <2>1. CASE epc[u] \in {"lock", "wait", "exit"}
      BY <2>0, <2>1 DEF Events, EventAt
    <2>2. CASE epc[u] \notin {"lock", "wait", "exit"}
      <3>1. PICK w : w = ew[u]
        OBVIOUS
      <3>2. PICK m : m = epc[u]
        OBVIOUS
      <3>3. EventOf(w, m) /\ efd[u] = sess[w]
        BY <2>2, <3>1, <3>2 DEF Events, EventAt
      <3>4. w \in Worker /\ w \in InHand(t) /\ w # None
        BY <1>2, <3>1, <3>3, HttpAssumption DEF InHand, EventOf
      <3>5. w = ew[t] /\ Submits(t) => m \notin {"arm", "submit"}
        BY <1>2, <3>1, <3>2 DEF Events, Submits
      <3>6. EventOf(w, m)' /\ efd'[u] = sess'[w]
        BY <1>0, <2>0, <3>3, <3>4, <3>5, EventFrame DEF Held
      <3>7. efd'[u] = sess'[ew'[u]]
        BY <2>0, <3>1, <3>6
      <3>8. EventOf(ew[u], epc[u])'
        BY <2>0, <3>1, <3>2, <3>6 DEF EventOf, Complete
      <3> QED
        BY <2>0, <2>2, <3>7, <3>8 DEF EventAt
    <2> QED
      BY <2>1, <2>2
  <1>3. ASSUME NEW u \in Event, NEW x \in Event, ew'[u] # None, ew'[u] = ew'[x], u # x
        PROVE  ew'[u] \in Left'
    <2>1. PICK w : w = ew'[u]
      OBVIOUS
    <2>2. w = ew[u] /\ w = ew[x] /\ w # None
      BY <1>3, <2>1 DEF OnlyThread
    <2>3. w \in Left /\ w \in InHand(t) /\ w \in Worker
      BY <1>3, <2>2 DEF Events, InHand, Left
    <2> QED
      BY <1>0, <2>1, <2>3
  <1>4. ASSUME NEW e \in batch, NEW u \in Event, ew'[u] = e[1]
        PROVE  e[1] \in Left'
    <2>1. PICK w : w = e[1]
      OBVIOUS
    <2>2. w \in Worker /\ w \in InHand(t) /\ w # None
      BY <2>1, HttpAssumption DEF InHand, Types, EventTypes
    <2>3. w = ew[u]
      BY <1>4, <2>1, <2>2 DEF OnlyThread
    <2>4. w \in Left
      BY <2>1, <2>3 DEF Events
    <2> QED
      BY <1>0, <2>1, <2>2, <2>4
  <1>5. \A u \in Event : EventAt(u)'
    <2>1. ASSUME NEW u \in Event PROVE EventAt(u)'
      <3>1. CASE u = t
        BY <3>1
      <3> QED
        BY <1>2, <3>1
    <2> QED
      BY <2>1
  <1>6. ASSUME NEW u \in Event, u # t, ew'[t] = ew'[u], Submits(t)', Submits(u)'
        PROVE  FALSE
    <2>1. ew'[t] # None
      <3>1. EventOf(ew[t], epc[t])'
        BY <1>6 DEF EventAt, Submits
      <3> QED
        BY <3>1, HttpAssumption DEF EventOf
    <2>2. ew[t] = ew[u] /\ Submits(u)
      BY <1>6, <2>1 DEF OnlyThread, Submits
    <2>3. ew[t] \in InHand(t)
      BY <1>6, <2>2 DEF InHand
    <2> QED
      BY <1>6, <2>2, <2>3 DEF Events
  <1>7. \A u, x \in Event : ew'[u] = ew'[x] /\ Submits(u)' /\ Submits(x)' => u = x
    <2>1. ASSUME NEW u \in Event, NEW x \in Event, u # t, x # t,
                 ew'[u] = ew'[x], Submits(u)', Submits(x)'
          PROVE  u = x
      BY <2>1 DEF OnlyThread, Submits, Events
    <2> QED
      BY <1>6, <2>1
  <1> QED
    BY <1>1, <1>3, <1>4, <1>5, <1>7 DEF Events

LEMMA BackStep ==
    ASSUME Types, NEW t \in Event, Back(t), UNCHANGED <<batch, emutex>>
    PROVE  /\ EventTypes' /\ OnlyThread(t) /\ ew'[t] = None /\ epc'[t] \in {"lock", "exit"} /\ EventAt(t)'
  <1>1. EventTypes
    BY DEF Types
  <1>2. epc'[t] \in {"lock", "exit"} /\ ew'[t] = None /\ efd'[t] = None
    BY <1>1 DEF EventTypes, Back
  <1>3. OnlyThread(t)
    BY <1>1 DEF EventTypes, Back, OnlyThread
  <1>4. EventTypes'
    BY <1>1 DEF EventTypes, Back
  <1>5. EventAt(t)'
    BY <1>2 DEF EventAt
  <1> QED
    BY <1>2, <1>3, <1>4, <1>5

\* The thread takes one of the events and leaves the others.
LEMMA PopStep ==
    ASSUME Types', Registered', Events, Types, UNCHANGED sock, NEW t \in Event, NEW evs, Pop(t, evs), ew[t] = None,
           evs \subseteq Worker \X {"in", "out"},
           \A e \in evs : EventOf(e[1], e[2])',
           \A d, e \in evs : d[1] = e[1] => d = e,
           \A e \in evs, u \in Event : ew[u] = e[1] => e[1] \in Left',
           UNCHANGED <<sess, peer, stat, input, answer>>, Left' = Left,
           \A w \in InEvent : w \in Left \/ mask'[sess[w]] = mask[sess[w]]
    PROVE  Events' /\ OnlyThread(t)
  <1>1. PICK e \in evs :
          /\ batch' = evs \ {e} /\ ew' = [ew EXCEPT ![t] = e[1]]
          /\ efd' = [efd EXCEPT ![t] = sock[e[1]]] /\ epc' = [epc EXCEPT ![t] = e[2]]
    BY DEF Pop
  <1>2. EventTypes /\ e[1] \in Worker /\ e[2] \in {"in", "out"} /\ e[1] # None
    BY HttpAssumption DEF Types
  <1>3. OnlyThread(t) /\ ew'[t] = e[1] /\ efd'[t] = sock[e[1]] /\ epc'[t] = e[2]
    BY <1>1, <1>2 DEF EventTypes, OnlyThread
  <1>4. EventAt(t)'
    <2>1. PICK w, m : w = e[1] /\ m = e[2]
      OBVIOUS
    <2>2. EventOf(w, m)'
      BY <2>1
    <2>3. w \in Worker /\ sess'[w] \in Fd
      BY <2>2 DEF EventOf
    <2>4. efd'[t] = sess'[w]
      BY <1>3, <2>1, <2>3 DEF Registered
    <2>5. ew'[t] = w /\ epc'[t] = m
      BY <1>3, <2>1
    <2>6. EventOf(ew[t], epc[t])'
      BY <2>2, <2>5 DEF EventOf, Complete
    <2>7. epc'[t] \notin {"lock", "wait", "exit"} /\ efd'[t] = sess'[ew'[t]]
      BY <1>2, <1>3, <2>1, <2>4
    <2> QED
      BY <2>6, <2>7 DEF EventAt
  <1>5. ASSUME NEW u \in Event, u # t PROVE EventAt(u)'
    <2>0. epc'[u] = epc[u] /\ ew'[u] = ew[u] /\ efd'[u] = efd[u]
      BY <1>3, <1>5 DEF OnlyThread
    <2>1. CASE epc[u] \in {"lock", "wait", "exit"}
      BY <2>0, <2>1 DEF Events, EventAt
    <2>2. CASE epc[u] \notin {"lock", "wait", "exit"}
      <3>1. PICK w : w = ew[u]
        OBVIOUS
      <3>2. PICK m : m = epc[u]
        OBVIOUS
      <3>3. EventOf(w, m) /\ efd[u] = sess[w]
        BY <2>2, <3>1, <3>2 DEF Events, EventAt
      <3>4. w \in Worker /\ w \in InEvent /\ w # None
        BY <3>1, <3>3, HttpAssumption DEF InEvent, EventOf
      <3>6. EventOf(w, m)' /\ efd'[u] = sess'[w]
        BY <2>0, <3>3, <3>4, EventFrame
      <3>7. efd'[u] = sess'[ew'[u]]
        BY <2>0, <3>1, <3>6
      <3>8. EventOf(ew[u], epc[u])'
        BY <2>0, <3>1, <3>2, <3>6 DEF EventOf, Complete
      <3> QED
        BY <2>0, <2>2, <3>7, <3>8 DEF EventAt
    <2> QED
      BY <2>1, <2>2
  <1>6. \A u \in Event : EventAt(u)'
    <2>1. ASSUME NEW u \in Event PROVE EventAt(u)'
      <3>1. CASE u = t
        BY <1>4, <3>1
      <3> QED
        BY <1>5, <3>1
    <2> QED
      BY <2>1
  <1>7. \A u, x \in Event : ew'[u] # None /\ ew'[u] = ew'[x] => u = x \/ ew'[u] \in Left'
    BY <1>3 DEF Events, OnlyThread
  <1>8. \A d \in batch', u \in Event : ew'[u] = d[1] => d[1] \in Left'
    BY <1>1, <1>3 DEF OnlyThread
  <1>9. \A d \in batch' : EventOf(d[1], d[2])'
    BY <1>1
  <1>10. \A d, b \in batch' : d[1] = b[1] => d = b
    BY <1>1
  <1>11. \A u, x \in Event : ew'[u] = ew'[x] /\ Submits(u)' /\ Submits(x)' => u = x
    BY <1>2, <1>3 DEF Events, OnlyThread, Submits
  <1>12. Events'
    BY <1>6, <1>7, <1>8, <1>9, <1>10, <1>11 DEF Events
  <1> QED
    BY <1>3, <1>12

\* A step of an event thread that changes no data.
LEMMA QuietStep ==
    ASSUME ShellInv, StillLeft, Types', Events', \A w \in Worker : NotClosing(w)' => NotClosing(w),
           UNCHANGED <<clientVars, kernelVars, workerVars, sessionVars, taskVars, acceptVars, procVars>>
    PROVE  ShellInv'
  <1>1. ClientInv' /\ Own' /\ AcceptInv' /\ Addresses' /\ Registered'
    BY ClientFrame, AnswerFrame, AcceptFrame, AddressFrame, RegisterFrame
       DEF ShellInv, clientVars, kernelVars, acceptVars, sessionVars, workerVars
  <1>2. ASSUME NEW w \in Worker PROVE Exchange(w)'
    BY ExchangeFrame DEF ShellInv, clientVars, kernelVars, workerVars, sessionVars
  <1>3. Processing'
    BY QuietProcess DEF ShellInv, kernelVars, workerVars, sessionVars, taskVars, procVars
  <1> QED
    BY <1>1, <1>2, <1>3 DEF ShellInv

LEMMA LockKeeps ==
    ASSUME ShellInv, StillLeft, NEW t \in Event, Lock(t)
    PROVE  ShellInv'
  <1>0. Types /\ Events /\ Registered /\ EventTypes
    BY DEF ShellInv, Types
  <1>1. /\ epc[t] = "lock" /\ emutex = None
        /\ UNCHANGED <<clientVars, kernelVars, workerVars, sessionVars, taskVars, acceptVars, cpc,
                       procVars, mainVars>>
    BY DEF Lock
  <1>2. EventTypes' => Types'
    BY <1>0, <1>1, TypeFrame DEF Types
  <1>3. Registered'
    BY <1>0, <1>1, RegisterFrame DEF kernelVars, workerVars, sessionVars, acceptVars
  <1>4. ew[t] = None
    BY <1>0, <1>1 DEF Events, EventAt
  <1>5. OnlyThread(t) => \A w \in Worker : NotClosing(w)' => NotClosing(w)
    BY <1>1, ClosingFrame
  <1>9. Left' = Left /\ \A w \in Worker : w \in InHand(t) => Held(w, t)
    BY <1>1, LeftSame DEF Held, clientVars, kernelVars, workerVars, sessionVars
  <1>6. CASE Back(t) /\ UNCHANGED <<batch, emutex>>
    <2>1. EventTypes' /\ OnlyThread(t) /\ ew'[t] = None /\ EventAt(t)' /\ ~Submits(t)'
      BY <1>0, <1>6, BackStep DEF Submits
    <2>2. Events'
      BY <1>0, <1>6, <1>9, <2>1, EventStep
    <2> QED
      BY <1>1, <1>2, <1>5, <2>1, <2>2, QuietStep
  <1>7. CASE Pop(t, batch)
    <2>1. EventTypes'
      <3>1. PICK e \in batch :
              /\ batch' = batch \ {e} /\ ew' = [ew EXCEPT ![t] = e[1]]
              /\ efd' = [efd EXCEPT ![t] = sock[e[1]]] /\ epc' = [epc EXCEPT ![t] = e[2]] /\ emutex' = None
        BY <1>7 DEF Pop
      <3>2. e[1] \in Worker /\ e[2] \in {"in", "out"} /\ sock[e[1]] \in Fd \union {None}
        BY <1>0 DEF EventTypes, Types, WorkerTypes
      <3> QED
        BY <1>0, <3>1, <3>2 DEF EventTypes
    <2>2. \A e \in batch : EventOf(e[1], e[2])'
      <3>1. ASSUME NEW e \in batch PROVE EventOf(e[1], e[2])'
        BY <1>0, <1>1, <1>9 DEF Events, EventOf, Complete, kernelVars, workerVars, sessionVars
      <3> QED
        BY <3>1
    <2>3. Events' /\ OnlyThread(t)
      <3>1. PICK evs : evs = batch
        OBVIOUS
      <3>2. /\ Pop(t, evs) /\ evs \subseteq Worker \X {"in", "out"}
            /\ \A e \in evs : EventOf(e[1], e[2])'
            /\ \A d, e \in evs : d[1] = e[1] => d = e
            /\ \A e \in evs, u \in Event : ew[u] = e[1] => e[1] \in Left'
        <4>1. Pop(t, evs)
          BY <1>7, <3>1 DEF Pop
        <4> QED
          BY <1>0, <1>9, <2>2, <3>1, <4>1 DEF Events, EventTypes
      <3>3. UNCHANGED <<sess, mask, peer, stat, input, answer, sock>>
        BY <1>1 DEF kernelVars, workerVars, sessionVars
      <3> QED
        BY <1>0, <1>2, <1>3, <1>4, <1>9, <2>1, <3>2, <3>3, PopStep
    <2> QED
      BY <1>1, <1>2, <1>5, <2>1, <2>3, QuietStep
  <1>8. CASE emutex' = t /\ epc' = [epc EXCEPT ![t] = "wait"] /\ UNCHANGED <<batch, ew, efd>>
    <2>1. EventTypes' /\ OnlyThread(t) /\ epc'[t] = "wait" /\ ew'[t] = None
      BY <1>0, <1>4, <1>8 DEF EventTypes, OnlyThread
    <2>2. EventAt(t)' /\ ~Submits(t)'
      BY <2>1 DEF EventAt, Submits
    <2>3. Events'
      BY <1>0, <1>4, <1>8, <1>9, <2>1, <2>2, EventStep
    <2> QED
      BY <1>1, <1>2, <1>5, <2>1, <2>3, QuietStep
  <1> QED
    BY <1>6, <1>7, <1>8 DEF Lock

\* A session that waits for a processor, or is about to, has nothing to report,
\* unless its client leaves.
LEMMA Silent ==
    ASSUME ShellInv, NEW w \in Worker, sess[w] \in Fd, mask[sess[w]] = "in", Complete(w)
    PROVE  sess[w] \notin Ready \/ w \in Left
  <1>0. Types /\ Registered /\ ClientInv /\ ClientTypes /\ WorkerTypes /\ Exchange(w)
    BY DEF ShellInv, Types
  <1>1. PICK c : c = peer[sess[w]]
    OBVIOUS
  <1>2. c \in Client
    BY <1>0, <1>1, Session
  <1>3. PICK n : n = Len(input[w]) /\ n \in Nat
    BY <1>0 DEF WorkerTypes
  <1>4. /\ n + unread[c] = sent[c] /\ got[c] = <<>> /\ n >= ReqLen[c]
    BY <1>0, <1>1, <1>3 DEF Exchange, Complete, Unanswered
  <1>5. unread[c] \in Nat /\ sent[c] \in Nat /\ sent[c] <= ReqLen[c] /\ ReqLen[c] \in Nat
    BY <1>0, <1>2, HttpAssumption DEF ClientTypes
  <1>6. n \in Nat
    BY <1>3
  <1>7. unread[c] = 0 /\ sent[c] = ReqLen[c]
    BY <1>4, <1>5, <1>6
  <1>8. link[c] = "gone" => w \in Left
    BY <1>1, <1>4, <1>5, <1>7 DEF Left, LeftWaiting, Phase
  <1> QED
    BY <1>1, <1>7, <1>8 DEF Ready, Fires

\* What epoll_wait reports of a session.
LEMMA Reported ==
    ASSUME ShellInv, NEW f \in Ready
    PROVE  /\ f \in Fd /\ mask[f] \in {"in", "out"}
           /\ ptr[f] \in Worker /\ sess[ptr[f]] = f
           /\ mask[f] = "in" => (stat[ptr[f]] = 0 /\ ~Complete(ptr[f])) \/ ptr[f] \in Left
           /\ mask[f] = "out" => answer[ptr[f]] = peer[f]
  <1>0. Types /\ Registered /\ WorkerTypes /\ None \notin {"in", "out"}
    BY HttpAssumption DEF ShellInv, Types
  <1>1. f \in Fd /\ mask[f] \in {"in", "out"}
    BY DEF Ready, Fires
  <1>2. PICK w : w = ptr[f]
    OBVIOUS
  <1>3. w \in Worker /\ sess[w] = f
    BY <1>0, <1>1, <1>2 DEF Registered
  <1>4. Exchange(w)
    BY <1>3 DEF ShellInv
  <1>5. mask[f] = "in" => ~Complete(w) \/ w \in Left
    BY <1>1, <1>3, Silent
  <1>6. mask[f] = "in" => stat[w] = 0 \/ w \in Left
    BY <1>1, <1>3, <1>4, <1>5 DEF Exchange
  <1>7. mask[f] = "out" => answer[w] = peer[f]
    BY <1>1, <1>3, <1>4 DEF Exchange
  <1> QED
    BY <1>1, <1>2, <1>3, <1>5, <1>6, <1>7

LEMMA WaitKeeps ==
    ASSUME ShellInv, StillLeft, NEW t \in Event, Wait(t)
    PROVE  ShellInv'
  <1>0. /\ Types /\ Events /\ Registered /\ EventTypes /\ KernelTypes /\ WorkerTypes /\ SessionTypes
        /\ AcceptInv /\ Processing
    BY DEF ShellInv, Types
  <1>1. PICK R : R = Ready
    OBVIOUS
  <1>2. PICK evs : evs = {<<ptr[f], mask[f]>> : f \in R}
    OBVIOUS
  <1>3. /\ epc[t] = "wait"
        /\ mask' = [f \in Fd |-> IF f \in R THEN "spent" ELSE mask[f]]
        /\ UNCHANGED <<clientVars, peer, ptr, workerVars, sessionVars, taskVars,
                       acceptVars, cpc, procVars, mainVars>>
    BY <1>1 DEF Wait
  <1>4. Pop(t, evs)
    BY <1>1, <1>2 DEF Wait, Pop
  <1>5. \A f \in R : /\ f \in Fd /\ mask[f] \in {"in", "out"}
                     /\ ptr[f] \in Worker /\ sess[ptr[f]] = f
                     /\ mask[f] = "in" => (stat[ptr[f]] = 0 /\ ~Complete(ptr[f])) \/ ptr[f] \in Left
                     /\ mask[f] = "out" => answer[ptr[f]] = peer[f]
    BY <1>1, Reported
  <1>6. \A f \in Fd : mask'[f] = IF f \in R THEN "spent" ELSE mask[f]
    BY <1>3
  <1>7. None \notin {"in", "out", "spent"} /\ None \notin Worker
    BY HttpAssumption
  <1>8. ew[t] = None
    BY <1>0, <1>3 DEF Events, EventAt
  <1>9. \A w \in Worker : sess[w] \in Fd /\ sess[w] \in R => mask[sess[w]] \in {"in", "out"} /\ ptr[sess[w]] = w
    BY <1>0, <1>5, Session
  <1>10. ASSUME NEW w \in Worker, sess[w] \in Fd,
                mask[sess[w]] = "spent" \/ (mask[sess[w]] = "in" /\ Complete(w))
         PROVE  sess[w] \notin R \/ w \in Left
    BY <1>1, <1>5, <1>10, Silent
  <1>11. evs \subseteq Worker \X {"in", "out"}
    BY <1>2, <1>5
  <1>12. Types'
    <2>1. KernelTypes'
      BY <1>0, <1>3 DEF KernelTypes
    <2>2. EventTypes'
      <3>1. PICK e \in evs :
              /\ batch' = evs \ {e} /\ ew' = [ew EXCEPT ![t] = e[1]]
              /\ efd' = [efd EXCEPT ![t] = sock[e[1]]] /\ epc' = [epc EXCEPT ![t] = e[2]] /\ emutex' = None
        BY <1>4 DEF Pop
      <3>2. e[1] \in Worker /\ e[2] \in {"in", "out"} /\ sock[e[1]] \in Fd \union {None}
        BY <1>0, <1>11 DEF WorkerTypes
      <3> QED
        BY <1>0, <1>11, <3>1, <3>2 DEF EventTypes
    <2> QED
      BY <1>3, <2>1, <2>2, TypeFrame DEF ShellInv, Types
  <1>13. ClientInv' /\ Own' /\ Addresses'
    BY <1>3, ClientFrame, AnswerFrame, AddressFrame DEF ShellInv, clientVars, acceptVars, sessionVars
  <1>14. AcceptInv'
    <2>1. apc = "create" => afd \notin R
      BY <1>0, <1>5, <1>7 DEF AcceptInv
    <2> QED
      BY <1>0, <1>3, <1>6, <2>1 DEF AcceptInv, Unanswered, clientVars, acceptVars
  <1>15. Registered'
    <2>1. \A f \in Fd : mask'[f] # None <=> mask[f] # None
      BY <1>5, <1>6, <1>7
    <2> QED
      BY <1>0, <1>3, <2>1 DEF Registered, acceptVars, workerVars, sessionVars
  <1>20. Left' = Left /\ SomeLeft' = SomeLeft
    BY <1>3, LeftSame DEF clientVars, sessionVars
  <1>16. \A w \in InEvent : w \in Left \/ mask'[sess[w]] = mask[sess[w]]
    <2>1. ASSUME NEW u \in Event, ew[u] # None, ew[u] \notin Left
          PROVE  mask'[sess[ew[u]]] = mask[sess[ew[u]]]
      <3>1. PICK w : w = ew[u]
        OBVIOUS
      <3>2. EventOf(w, epc[u])
        BY <1>0, <2>1, <3>1 DEF Events, EventAt
      <3>3. w \in Worker /\ sess[w] \in Fd /\ sess[w] \notin R
        BY <1>10, <2>1, <3>1, <3>2 DEF EventOf
      <3> QED
        BY <1>6, <3>1, <3>3
    <2> QED
      BY <2>1 DEF InEvent
  <1>17. Events' /\ OnlyThread(t)
    <2>1. ASSUME NEW e \in evs PROVE EventOf(e[1], e[2])'
      <3>1. PICK f \in R : e = <<ptr[f], mask[f]>>
        BY <1>2
      <3>2. PICK w, m : w = ptr[f] /\ m = mask[f]
        OBVIOUS
      <3>3. /\ w \in Worker /\ sess[w] = f /\ f \in Fd /\ m \in {"in", "out"}
            /\ m = "in" => (stat[w] = 0 /\ ~Complete(w)) \/ w \in Left
            /\ m = "out" => answer[w] = peer[f]
        BY <1>5, <3>2
      <3>4. EventOf(w, m)'
        BY <1>3, <1>6, <1>20, <3>3 DEF EventOf, Complete, workerVars, sessionVars
      <3>5. w = e[1] /\ m = e[2]
        BY <3>1, <3>2
      <3> QED
        BY <3>4, <3>5
    <2>2. \A d, e \in evs : d[1] = e[1] => d = e
      BY <1>2, <1>5
    <2>3. \A e \in evs, u \in Event : ew[u] = e[1] => e[1] \in Left'
      <3>1. ASSUME NEW f \in R, NEW u \in Event, ew[u] = ptr[f]
            PROVE  ptr[f] \in Left
        <4>1. PICK w : w = ew[u] /\ w \in Worker /\ w # None /\ sess[w] = f
          BY <1>5, <1>7, <3>1
        <4>2. EventOf(w, epc[u])
          BY <1>0, <4>1 DEF Events, EventAt
        <4>3. sess[w] \notin R \/ w \in Left
          BY <1>10, <4>2 DEF EventOf
        <4> QED
          BY <3>1, <4>1, <4>3
      <3> QED
        BY <1>2, <1>20, <3>1
    <2>4. UNCHANGED <<sess, peer, stat, input, answer, sock>>
      BY <1>3 DEF workerVars, sessionVars
    <2> QED
      BY <1>0, <1>4, <1>8, <1>11, <1>12, <1>15, <1>16, <1>20, <2>1, <2>2, <2>3, <2>4, PopStep
  <1>18. ASSUME NEW w \in Worker PROVE Exchange(w)'
    <2>0. NotClosing(w)' => NotClosing(w)
      BY <1>3, <1>17, ClosingFrame
    <2>1. CASE sess[w] \in Fd /\ sess[w] \in R
      <3>1. PICK f : f = sess[w]
        OBVIOUS
      <3>2. mask'[f] = "spent" /\ f \in Fd
        BY <1>6, <2>1, <3>1
      <3>3. Exchange(w)
        BY DEF ShellInv
      <3> QED
        BY <1>3, <2>0, <2>1, <3>1, <3>2, <3>3
           DEF Exchange, Complete, Unanswered, NotClosing, clientVars, workerVars, sessionVars
    <2>2. CASE ~(sess[w] \in Fd /\ sess[w] \in R)
      BY <1>3, <1>6, <2>0, <2>2, ExchangeFrame DEF ShellInv, clientVars, workerVars, sessionVars
    <2> QED
      BY <2>1, <2>2
  <1>19. Processing'
    <2>1. \A w \in Worker : Pending(w) => Pending(w)'
      <3>1. ASSUME NEW w \in Worker, Pending(w) PROVE Pending(w)'
        <4>1. /\ stat[w] = 1 /\ sess[w] # None
              /\ sess[w] \in Fd => w \in Left \/ mask[sess[w]] = "in"
              /\ sess[w] = Closed => SomeLeft
          BY <3>1 DEF Pending
        <4>2. sess[w] \in Fd => Complete(w)
          <5>1. Exchange(w)
            BY DEF ShellInv
          <5>2. stat[w] # 0
            BY <4>1
          <5> QED
            BY <5>1, <5>2, Zenon DEF Exchange
        <4>3. sess[w] \in Fd => w \in Left \/ (mask[sess[w]] = "in" /\ sess[w] \notin R)
          BY <1>10, <4>1, <4>2
        <4> QED
          BY <1>3, <1>6, <1>20, <4>1, <4>3 DEF Pending, workerVars, sessionVars
      <3> QED
        BY <3>1
    <2> QED
      BY <1>0, <1>3, <2>1, ProcessFrame DEF taskVars, procVars, workerVars, sessionVars
  <1> QED
    BY <1>12, <1>13, <1>14, <1>15, <1>17, <1>18, <1>19 DEF ShellInv

LEMMA ReadKeeps ==
    ASSUME ShellInv, StillLeft, NEW t \in Event, Read(t)
    PROVE  ShellInv'
  <1>0. /\ Types /\ Events /\ Registered /\ ClientInv /\ AcceptInv
        /\ ClientTypes /\ EventTypes /\ WorkerTypes
    BY DEF ShellInv, Types
  <1>1. PICK w, f, c : w = ew[t] /\ f = sess[w] /\ c = peer[f]
    OBVIOUS
  <1>2. epc[t] = "in"
    BY DEF Read
  <1>3. /\ w \in Worker /\ f \in Fd /\ efd[t] = f /\ c \in Client /\ c # None /\ w # None
        /\ EventOf(w, "in") /\ (w \in Left \/ (mask[f] = "spent" /\ w \notin InHand(t)))
    BY <1>0, <1>1, <1>2, EventThread
  <1>4. PICK n, r : n = unread[c] /\ r = input[w] \o [k \in 1..n |-> c]
    OBVIOUS
  <1>5. /\ input' = [input EXCEPT ![w] = r] /\ unread' = [unread EXCEPT ![c] = 0]
        /\ epc' = [epc EXCEPT ![t] = IF link[c] = "gone" THEN "close" ELSE "arm"]
    BY <1>1, <1>3, <1>4 DEF Read
  <1>6. UNCHANGED <<link, sent, pipe, got, kernelVars, sock, stat, answer, sendCnt, sessionVars,
                    taskVars, acceptVars, cpc, batch, emutex, ew, efd, procVars, mainVars>>
    BY DEF Read
  <1>7. n \in Nat /\ input[w] \in Seq(Client)
    BY <1>0, <1>3, <1>4 DEF ClientTypes, WorkerTypes
  <1>8. /\ r \in Seq(Client) /\ Len(r) = Len(input[w]) + n /\ Len(input[w]) \in Nat
        /\ \A k \in 1..Len(r) : r[k] = IF k <= Len(input[w]) THEN input[w][k] ELSE c
    <2>1. PICK s : s = input[w] /\ s \in Seq(Client)
      BY <1>7
    <2>2. s \in Seq(Client) /\ n \in Nat /\ c \in Client /\ r = s \o [k \in 1..n |-> c]
      BY <1>3, <1>4, <1>7, <2>1
    <2>3. /\ r \in Seq(Client) /\ Len(r) = Len(s) + n /\ Len(s) \in Nat
          /\ \A k \in 1..Len(r) : r[k] = IF k <= Len(s) THEN s[k] ELSE c
      BY ONLY <2>2, Filled
    <2> QED
      BY <2>1, <2>3
  <1>9. /\ input'[w] = r /\ \A v \in Worker : v # w => input'[v] = input[v]
        /\ unread'[c] = 0 /\ \A d \in Client : d # c => unread'[d] = unread[d]
        /\ epc'[t] \in {"close", "arm"} /\ OnlyThread(t)
    BY <1>0, <1>3, <1>5, <1>6 DEF WorkerTypes, ClientTypes, EventTypes, OnlyThread
  <1>10. Types'
    <2>1. WorkerTypes'
      BY <1>0, <1>5, <1>6, <1>8 DEF WorkerTypes
    <2>2. EventTypes'
      BY <1>0, <1>5, <1>6 DEF EventTypes
    <2>3. ClientTypes'
      <3>1. \A d \in Client : unread'[d] <= sent[d]
        <4>1. \A d \in Client : sent[d] \in Nat /\ unread[d] <= sent[d]
          BY <1>0 DEF ClientTypes
        <4>2. \A d \in Client : unread'[d] = 0 \/ unread'[d] = unread[d]
          BY <1>9
        <4> QED
          BY <4>1, <4>2
      <3> QED
        BY <1>0, <1>5, <1>6, <3>1 DEF ClientTypes
    <2> QED
      BY <1>6, <2>1, <2>2, <2>3, TypeFrame DEF ShellInv, Types
  <1>11. ClientInv'
    <2>1. \A d \in Client : unread[d] = 0 => unread'[d] = 0
      BY <1>9
    <2> QED
      BY <1>0, <1>6, <2>1 DEF ClientInv, Unanswered, kernelVars
  <1>12. AcceptInv'
    <2>1. apc = "create" => peer[afd] # c /\ peer[afd] \in Client
      BY <1>0, <1>1, <1>3, NotAccepted DEF AcceptInv, Types, KernelTypes
    <2> QED
      BY <1>0, <1>6, <1>9, <2>1 DEF AcceptInv, Unanswered, kernelVars, acceptVars
  <1>13. Addresses' /\ Registered' /\ Own'
    BY <1>6, AddressFrame, RegisterFrame, AnswerFrame
       DEF ShellInv, kernelVars, sessionVars, acceptVars
  <1>14. ASSUME NEW v \in Worker PROVE Exchange(v)'
    <2>0. (NotClosing(v)' => NotClosing(v)) /\ Exchange(v)
      BY <1>2, <1>9, ClosingFrame DEF ShellInv
    <2>1. CASE v = w
      <3>1. /\ \A k \in 1..Len(input[w]) : input[w][k] = c
            /\ Len(input[w]) + n = sent[c]
            /\ answer[w] \in {None, c}
            /\ answer[w] = None \/ mask[f] = "in" => got[c] = <<>> /\ pipe[c] = <<>> /\ sendCnt[w] = 0
            /\ mask[f] = "out" => answer[w] = c
            /\ stat[w] = 0 => answer[w] = None
            /\ stat[w] # 0 => Len(input[w]) >= ReqLen[c]
            /\ NotClosing(w) => Len(got[c]) + Len(pipe[c]) <= sendCnt[w]
        BY <1>1, <1>3, <1>4, <2>0, <2>1 DEF Exchange, Complete, Unanswered, NotClosing
      <3>2. \A k \in 1..Len(r) : r[k] = c
        BY <1>7, <1>8, <3>1
      <3>3. Len(r) + 0 = sent[c]
        BY <1>7, <1>8, <3>1
      <3>4. stat[w] # 0 => Len(r) >= ReqLen[c]
        BY <1>3, <1>7, <1>8, <3>1, HttpAssumption
      <3>5. UNCHANGED <<sess, peer, mask, answer, stat, sendCnt, got, pipe, sent>>
        BY <1>6 DEF kernelVars, sessionVars
      <3>6. /\ sess'[w] = f /\ peer'[f] = c
            /\ \A k \in 1..Len(input'[w]) : input'[w][k] = c
            /\ Len(input'[w]) + unread'[c] = sent'[c]
            /\ answer'[w] \in {None, c}
            /\ answer'[w] = None \/ mask'[f] = "in" => got'[c] = <<>> /\ pipe'[c] = <<>> /\ sendCnt'[w] = 0
            /\ mask'[f] = "out" => answer'[w] = c
            /\ stat'[w] # 0 => Len(input'[w]) >= ReqLen[c]
            /\ stat'[w] = 0 => answer'[w] = None
            /\ NotClosing(w)' => Len(got'[c]) + Len(pipe'[c]) <= sendCnt'[w]
        BY <1>1, <1>9, <2>0, <2>1, <3>1, <3>2, <3>3, <3>4, <3>5
      <3>7. Exchange(w)'
        BY <1>3, <3>6, ExchangeAfter
      <3> QED
        BY <2>1, <3>7
    <2>2. CASE v # w
      <3>1. sess[v] \in Fd => peer[sess[v]] # c /\ peer[sess[v]] \in Client
        BY <1>0, <1>1, <1>3, <2>2, Distinct, Session
      <3> QED
        BY <1>6, <1>9, <2>0, <2>2, <3>1, ExchangeFrame DEF kernelVars, sessionVars
    <2> QED
      BY <2>1, <2>2
  <1>17. Left' = Left
    BY <1>6, LeftSame DEF kernelVars, sessionVars
  <1>18. w \in Left => link[c] = "gone"
    BY <1>1 DEF Left, LeftWaiting
  <1>19. link[c] # "gone" => mask[f] = "spent" /\ w \notin InHand(t) /\ stat[w] = 0
    BY <1>3, <1>18 DEF EventOf
  <1>20. epc'[t] = "arm" => link[c] # "gone"
    BY <1>0, <1>5 DEF EventTypes
  <1>15. Events'
    <2>1. EventAt(t)'
      <3>1. PICK m : m = epc'[t]
        OBVIOUS
      <3>2. m \in {"close", "arm"} /\ ew'[t] = w /\ efd'[t] = sess'[w]
        BY <1>1, <1>3, <1>6, <1>9, <3>1 DEF sessionVars
      <3>3. EventOf(w, m)'
        BY <1>1, <1>3, <1>6, <1>17, <1>19, <1>20, <3>1, <3>2 DEF EventOf, kernelVars, sessionVars
      <3>4. EventOf(ew[t], epc[t])'
        BY <3>1, <3>2, <3>3 DEF EventOf, Complete
      <3> QED
        BY <3>1, <3>2, <3>4 DEF EventAt
    <2>2. Complete(w) => Complete(w)'
      <3>1. Len(input[w]) >= ReqLen[c] => Len(r) >= ReqLen[c]
        BY <1>3, <1>7, <1>8, HttpAssumption
      <3> QED
        BY <1>1, <1>6, <1>9, <3>1 DEF Complete, kernelVars, sessionVars
    <2>3. w \in InHand(t) => w \in Left'
      BY <1>3, <1>17
    <2>4. \A v \in Worker : v \in InHand(t) => Held(v, t)
      BY <1>6, <1>9, <2>2, <2>3 DEF Held, kernelVars, sessionVars
    <2>5. Submits(t)' => ew[t] \notin InHand(t)
      BY <1>1, <1>9, <1>19, <1>20 DEF Submits
    <2> QED
      BY <1>0, <1>1, <1>6, <1>9, <2>1, <2>4, <2>5, EventStep
  <1>16. Processing'
    BY <1>6, QuietProcess DEF ShellInv, kernelVars, sessionVars, taskVars, procVars
  <1> QED
    BY <1>10, <1>11, <1>12, <1>13, <1>14, <1>15, <1>16 DEF ShellInv

\* A session is armed for the events m and its worker stays the same.
LEMMA ArmStep ==
    ASSUME Types, Registered, NEW w \in Worker, NEW f \in Fd, sess[w] = f, NEW m \in {"in", "out"}, Arm(f, w, m)
    PROVE  /\ ptr' = ptr /\ mask'[f] = m /\ mask' \in [Fd -> {None, "in", "out", "spent"}]
           /\ \A g \in Fd : g # f => mask'[g] = mask[g]
           /\ \A g \in Fd : mask'[g] # None <=> mask[g] # None
           /\ \A v \in Worker : v # w /\ sess[v] \in Fd => mask'[sess[v]] = mask[sess[v]]
  <1>1. mask[f] # None /\ ptr[f] = w /\ KernelTypes
    BY Session DEF Types
  <1>2. mask' = [mask EXCEPT ![f] = m] /\ ptr' = [ptr EXCEPT ![f] = w]
    BY <1>1 DEF Arm
  <1>3. ptr' = ptr
    BY <1>1, <1>2 DEF KernelTypes
  <1>4. /\ mask'[f] = m /\ mask' \in [Fd -> {None, "in", "out", "spent"}]
        /\ \A g \in Fd : g # f => mask'[g] = mask[g]
    BY <1>1, <1>2 DEF KernelTypes
  <1>5. m # None
    BY HttpAssumption
  <1>6. \A v \in Worker : v # w /\ sess[v] \in Fd => sess[v] # f
    BY Session
  <1> QED
    BY <1>1, <1>3, <1>4, <1>5, <1>6

\* What arming a session keeps, whoever does it.
LEMMA ArmedKeeps ==
    ASSUME ShellInv, StillLeft, NEW w \in Worker, NEW f \in Fd, sess[w] = f, NEW m \in {"in", "out"}, Arm(f, w, m),
           UNCHANGED <<clientVars, peer, workerVars, sessionVars, acceptVars>>
    PROVE  KernelTypes' /\ ClientInv' /\ Own' /\ Addresses' /\ AcceptInv' /\ Registered'
  <1>0. Types /\ KernelTypes /\ Registered /\ AcceptInv /\ ClientInv
    BY DEF ShellInv, Types
  <1>1. /\ ptr' = ptr /\ mask'[f] = m /\ mask' \in [Fd -> {None, "in", "out", "spent"}]
        /\ \A g \in Fd : g # f => mask'[g] = mask[g]
        /\ \A g \in Fd : mask'[g] # None <=> mask[g] # None
    BY <1>0, ArmStep
  <1>2. KernelTypes'
    BY <1>0, <1>1 DEF KernelTypes
  <1>3. ClientInv' /\ Own' /\ Addresses'
    BY ClientFrame, AnswerFrame, AddressFrame DEF ShellInv, clientVars, acceptVars, sessionVars
  <1>4. AcceptInv'
    BY <1>0, <1>1 DEF AcceptInv, Unanswered, clientVars, acceptVars
  <1>5. Registered'
    BY <1>0, <1>1 DEF Registered, acceptVars, workerVars, sessionVars
  <1> QED
    BY <1>2, <1>3, <1>4, <1>5

LEMMA ArmInputKeeps ==
    ASSUME ShellInv, StillLeft, NEW t \in Event, ArmInput(t)
    PROVE  ShellInv'
  <1>0. /\ Types /\ Events /\ Registered /\ ClientInv /\ AcceptInv /\ Processing
        /\ ClientTypes /\ EventTypes /\ WorkerTypes
    BY DEF ShellInv, Types
  <1>1. PICK w, f, c : w = ew[t] /\ f = sess[w] /\ c = peer[f]
    OBVIOUS
  <1>2. epc[t] = "arm"
    BY DEF ArmInput
  <1>3. /\ w \in Worker /\ f \in Fd /\ efd[t] = f /\ sock[w] = f /\ c \in Client /\ w # None
        /\ EventOf(w, "arm") /\ (w \in Left \/ w \notin InHand(t))
    BY <1>0, <1>1, <1>2, EventThread
  <1>4. stat[w] = 0
    BY <1>3 DEF EventOf
  <1>5. UNCHANGED <<clientVars, peer, workerVars, sessionVars, taskVars, acceptVars,
                   cpc, batch, emutex, procVars, mainVars>>
    BY DEF ArmInput
  <1>6. Arm(f, w, "in")
    BY <1>1, <1>3 DEF ArmInput, Arm
  <1>7. /\ ptr' = ptr /\ mask'[f] = "in"
        /\ \A v \in Worker : v # w /\ sess[v] \in Fd => mask'[sess[v]] = mask[sess[v]]
    BY <1>0, <1>1, <1>3, <1>6, ArmStep
  <1>8. KernelTypes' /\ ClientInv' /\ Own' /\ Addresses' /\ AcceptInv' /\ Registered'
    BY <1>1, <1>3, <1>5, <1>6, ArmedKeeps
  <1>9. Exchange(w)
    BY <1>3 DEF ShellInv
  <1>10. /\ EventTypes' /\ OnlyThread(t) /\ (ew'[t] = ew[t] \/ ew'[t] = None) /\ EventAt(t)'
    <2>1. CASE isRecvOver(w)
      <3>1. epc' = [epc EXCEPT ![t] = "submit"] /\ UNCHANGED <<ew, efd>>
        BY <1>1, <2>1 DEF ArmInput
      <3>2. EventTypes' /\ OnlyThread(t) /\ epc'[t] = "submit" /\ ew'[t] = w /\ efd'[t] = sess'[w]
        BY <1>0, <1>1, <1>3, <1>5, <3>1 DEF EventTypes, OnlyThread, sessionVars
      <3>3. Complete(w)
        <4>1. input[w] \in Seq(Client) /\ input[w] # <<>> /\ Len(input[w]) >= ReqLen[Head(input[w])]
          BY <1>0, <1>3, <2>1 DEF WorkerTypes, isRecvOver
        <4>2. PICK s : s = input[w]
          OBVIOUS
        <4>3. 1 \in 1..Len(s) /\ Head(s) = s[1]
          BY <4>1, <4>2
        <4>4. s[1] = c
          BY <1>1, <1>3, <1>9, <4>2, <4>3 DEF Exchange
        <4> QED
          BY <1>1, <4>1, <4>2, <4>3, <4>4 DEF Complete
      <3>4. EventOf(w, "submit")'
        BY <1>1, <1>3, <1>4, <1>5, <1>7, <3>3 DEF EventOf, Complete, workerVars, sessionVars
      <3>5. EventOf(ew[t], epc[t])'
        BY <3>2, <3>4 DEF EventOf, Complete
      <3>6. EventAt(t)'
        BY <3>2, <3>5 DEF EventAt
      <3> QED
        BY <1>1, <3>2, <3>6
    <2>2. CASE ~isRecvOver(w)
      <3>1. Back(t)
        BY <1>1, <2>2 DEF ArmInput
      <3> QED
        BY <1>0, <1>5, <3>1, BackStep
    <2> QED
      BY <2>1, <2>2
  <1>11. Types'
    BY <1>5, <1>8, <1>10, TypeFrame DEF ShellInv, Types
  <1>12. ASSUME NEW v \in Worker PROVE Exchange(v)'
    <2>0. (NotClosing(v)' => NotClosing(v)) /\ Exchange(v)
      BY <1>2, <1>10, ClosingFrame DEF ShellInv
    <2>1. CASE v = w
      <3>1. answer[w] = None
        BY <1>1, <1>3, <1>4, <1>9 DEF Exchange
      <3>2. UNCHANGED <<sess, peer, input, answer, stat, sendCnt, got, pipe, sent, unread>>
        BY <1>5 DEF clientVars, workerVars, sessionVars
      <3>3. /\ \A k \in 1..Len(input[w]) : input[w][k] = c
            /\ Len(input[w]) + unread[c] = sent[c]
            /\ got[c] = <<>> /\ pipe[c] = <<>> /\ sendCnt[w] = 0
            /\ NotClosing(w) => Len(got[c]) + Len(pipe[c]) <= sendCnt[w]
        BY <1>1, <1>3, <1>9, <3>1 DEF Exchange, Unanswered, NotClosing
      <3>4. /\ sess'[w] = f /\ peer'[f] = c
            /\ \A k \in 1..Len(input'[w]) : input'[w][k] = c
            /\ Len(input'[w]) + unread'[c] = sent'[c]
            /\ answer'[w] = None /\ answer'[w] \in {None, c} /\ stat'[w] = 0 /\ mask'[f] # "out"
            /\ got'[c] = <<>> /\ pipe'[c] = <<>> /\ sendCnt'[w] = 0
            /\ NotClosing(w)' => Len(got'[c]) + Len(pipe'[c]) <= sendCnt'[w]
        BY <1>1, <1>4, <1>7, <2>0, <2>1, <3>1, <3>2, <3>3
      <3>5. Exchange(w)'
        BY <1>3, <3>4, ExchangeAfter
      <3> QED
        BY <2>1, <3>5
    <2>2. CASE v # w
      BY <1>5, <1>7, <2>0, <2>2, ExchangeFrame DEF clientVars, workerVars, sessionVars
    <2> QED
      BY <2>1, <2>2
  <1>15. Left' = Left
    BY <1>5, LeftSame DEF clientVars, sessionVars
  <1>13. Events'
    <2>1. \A v \in Worker : v \in InHand(t) => sess[v] \in Fd
      BY <1>0, EventWorker, HttpAssumption DEF InHand, InBatch, InEvent
    <2>2. \A v \in Worker : v \in InHand(t) => Held(v, t)
      BY <1>3, <1>5, <1>7, <1>15, <2>1 DEF Held, workerVars, sessionVars
    <2>3. Submits(t)
      BY <1>2 DEF Submits
    <2> QED
      BY <1>0, <1>5, <1>10, <2>2, <2>3, EventStep
  <1>14. Processing'
    <2>1. ASSUME NEW v \in Worker, Pending(v)
          PROVE  Pending(v)'
      <3>1. v # w
        BY <1>4, <2>1 DEF Pending
      <3> QED
        BY <1>0, <1>5, <1>7, <2>1, <3>1, PendingFrame DEF workerVars, sessionVars
    <2> QED
      BY <1>0, <1>5, <2>1, ProcessFrame DEF taskVars, procVars, workerVars, sessionVars
  <1> QED
    BY <1>8, <1>11, <1>12, <1>13, <1>14 DEF ShellInv

OnceEach(q) == \A j, k \in 1..Len(q) : q[j] = q[k] => j = k
Entries(q) == {q[j] : j \in 1..Len(q)}

\* A task is put in front of the others.
LEMMA Fronted ==
    ASSUME NEW q \in Seq(Worker), NEW n \in Worker, NEW r, r = <<n>> \o q, OnceEach(q), n \notin Entries(q)
    PROVE  r \in Seq(Worker) /\ OnceEach(r) /\ Entries(r) \subseteq Entries(q) \union {n}
  <1>1. /\ r \in Seq(Worker) /\ Len(r) = Len(q) + 1 /\ Len(q) \in Nat
        /\ \A k \in 1..Len(r) : r[k] = IF k = 1 THEN n ELSE q[k - 1]
    OBVIOUS
  <1>2. \A k \in 1..Len(r) : k # 1 => k - 1 \in 1..Len(q)
    BY <1>1
  <1>3. ASSUME NEW j \in 1..Len(r), NEW k \in 1..Len(r), r[j] = r[k]
        PROVE  j = k
    <2>1. CASE j = 1 \/ k = 1
      BY <1>1, <1>2, <1>3, <2>1 DEF Entries
    <2>2. CASE j # 1 /\ k # 1
      <3>1. q[j - 1] = q[k - 1] /\ j - 1 \in 1..Len(q) /\ k - 1 \in 1..Len(q)
        BY <1>1, <1>2, <1>3, <2>2
      <3>2. j - 1 = k - 1
        BY <3>1 DEF OnceEach
      <3> QED
        BY <1>1, <3>2
    <2> QED
      BY <2>1, <2>2
  <1>4. ASSUME NEW k \in 1..Len(r)
        PROVE  r[k] = n \/ \E j \in 1..Len(q) : r[k] = q[j]
    BY <1>1, <1>2
  <1> QED
    BY <1>1, <1>3, <1>4 DEF OnceEach, Entries

\* The last task is taken away.
Oldest(q) == q[Len(q)]
Others(q) == SubSeq(q, 1, Len(q) - 1)

LEMMA LastTaken ==
    ASSUME NEW q \in Seq(Worker), q # <<>>, OnceEach(q)
    PROVE  /\ Others(q) \in Seq(Worker) /\ Oldest(q) \in Entries(q) /\ OnceEach(Others(q))
           /\ Entries(Others(q)) \subseteq Entries(q) /\ Oldest(q) \notin Entries(Others(q))
  <1> DEFINE n == Oldest(q)
             r == Others(q)
  <1> USE DEF Oldest, Others
  <1>1. /\ Len(q) \in Nat /\ Len(q) > 0
    OBVIOUS
  <1>2. /\ r \in Seq(Worker) /\ Len(r) = Len(q) - 1
        /\ \A k \in 1..Len(r) : r[k] = q[k]
    <2>1. PICK m : m = Len(q) - 1 /\ m \in Nat
      BY <1>1
    <2>2. \A k \in 1..m : q[k] \in Worker
      BY <1>1, <2>1
    <2>3. /\ SubSeq(q, 1, m) \in Seq(Worker)
          /\ Len(SubSeq(q, 1, m)) = IF 1 <= m THEN m - 1 + 1 ELSE 0
          /\ \A k \in 1..(m - 1 + 1) : SubSeq(q, 1, m)[k] = q[1 + k - 1]
      BY <2>1, <2>2, SubSeqProperties
    <2>4. r = SubSeq(q, 1, m)
      BY <2>1
    <2>5. m - 1 + 1 = m /\ (~(1 <= m) => m = 0) /\ \A k \in 1..m : 1 + k - 1 = k
      BY <2>1
    <2>6. r \in Seq(Worker) /\ Len(r) = m /\ \A k \in 1..m : r[k] = q[k]
      BY <2>3, <2>4, <2>5
    <2> QED
      BY <2>1, <2>6
  <1>3. Len(q) \in 1..Len(q) /\ \A k \in 1..Len(r) : k \in 1..Len(q) /\ k # Len(q)
    BY <1>1, <1>2
  <1>4. n \in Worker /\ \E j \in 1..Len(q) : n = q[j]
    BY <1>3
  <1>5. \A j, k \in 1..Len(r) : r[j] = r[k] => j = k
    BY <1>2, <1>3 DEF OnceEach
  <1>6. \A k \in 1..Len(r) : r[k] # n /\ \E j \in 1..Len(q) : r[k] = q[j]
    BY <1>2, <1>3 DEF OnceEach
  <1> QED
    BY <1>2, <1>4, <1>5, <1>6 DEF OnceEach, Entries

LEMMA submitWorkerKeeps ==
    ASSUME ShellInv, StillLeft, NEW t \in Event, submitWorker(t)
    PROVE  ShellInv'
  <1>0. /\ Types /\ Events /\ Registered /\ ClientInv /\ AcceptInv /\ Processing
        /\ ClientTypes /\ EventTypes /\ WorkerTypes /\ TaskTypes
    BY DEF ShellInv, Types
  <1>1. PICK w, f : w = ew[t] /\ f = sess[w]
    OBVIOUS
  <1>2. epc[t] = "submit"
    BY DEF submitWorker
  <1>3. /\ w \in Worker /\ f \in Fd /\ EventOf(w, "submit")
        /\ w \in Left \/ (mask[f] = "in" /\ w \notin InHand(t))
    BY <1>0, <1>1, <1>2, EventThread
  <1>4. stat[w] = 0 /\ Complete(w)
    BY <1>3 DEF EventOf
  <1>5. /\ stat' = [stat EXCEPT ![w] = 1]
        /\ UNCHANGED <<clientVars, kernelVars, sock, input, answer, sendCnt, sessionVars,
                       acceptVars, cpc, batch, emutex, procVars, mainVars>>
    BY <1>1 DEF submitWorker
  <1>6. Back(t)
    BY DEF submitWorker
  <1>7. EventTypes' /\ OnlyThread(t) /\ ew'[t] = None /\ EventAt(t)' /\ ~Submits(t)'
    BY <1>0, <1>5, <1>6, BackStep DEF Submits
  <1>8. stat'[w] = 1 /\ \A v \in Worker : v # w => stat'[v] = stat[v]
    BY <1>0, <1>3, <1>5 DEF WorkerTypes
  <1>9. (queue' = <<w>> \o queue \/ queue' = queue) /\ open' = open
    BY <1>1 DEF submitWorker, Tasks!Put
  <1>10. \A v \in InQueue : v \in Worker /\ Pending(v) /\ v # w
    BY <1>0, <1>4, ProcessWorker DEF Pending
  <1>11. OnceEach(queue)
    BY <1>0 DEF Processing, OnceEach
  <1>12. w \notin Entries(queue)
    BY <1>10 DEF InQueue, Entries
  <1>13. /\ queue' \in Seq(Worker) /\ OnceEach(queue')
         /\ \A v \in InQueue' : v = w \/ v \in InQueue
    <2>1. PICK q, r : q = queue /\ r = queue'
      OBVIOUS
    <2>2. q \in Seq(Worker) /\ (r = <<w>> \o q \/ r = q)
      BY <1>0, <1>9, <2>1 DEF TaskTypes
    <2>3. OnceEach(q) /\ w \notin Entries(q)
      BY <1>11, <1>12, <2>1
    <2>4. r \in Seq(Worker) /\ OnceEach(r) /\ Entries(r) \subseteq Entries(q) \union {w}
      BY <1>3, <2>2, <2>3, Fronted
    <2> QED
      BY <2>1, <2>4 DEF InQueue, Entries
  <1>14. Types'
    <2>1. WorkerTypes'
      <3>1. stat' \in [Worker -> 0..2]
        <4>1. stat \in [Worker -> 0..2] /\ 1 \in 0..2
          BY <1>0 DEF WorkerTypes
        <4> QED
          BY <1>5, <4>1
      <3> QED
        BY <1>0, <1>5, <3>1 DEF WorkerTypes
    <2>2. TaskTypes'
      BY <1>0, <1>9, <1>13 DEF TaskTypes
    <2> QED
      BY <1>5, <1>7, <2>1, <2>2, TypeFrame DEF ShellInv, Types
  <1>15. ClientInv' /\ Own' /\ AcceptInv' /\ Addresses' /\ Registered'
    BY <1>5, ClientFrame, AnswerFrame, AcceptFrame, AddressFrame, RegisterFrame
       DEF ShellInv, clientVars, kernelVars, acceptVars, sessionVars
  <1>16. ASSUME NEW v \in Worker PROVE Exchange(v)'
    <2>0. (NotClosing(v)' => NotClosing(v)) /\ Exchange(v)
      BY <1>2, <1>7, ClosingFrame DEF ShellInv
    <2>1. CASE v = w
      BY <1>1, <1>3, <1>4, <1>5, <1>8, <2>0, <2>1
         DEF Exchange, Complete, Unanswered, NotClosing, clientVars, kernelVars, sessionVars
    <2>2. CASE v # w
      BY <1>5, <1>8, <2>0, <2>2, ExchangeFrame DEF clientVars, kernelVars, sessionVars
    <2> QED
      BY <2>1, <2>2
  <1>19. Left' = Left /\ SomeLeft' = SomeLeft
    BY <1>5, LeftSame DEF clientVars, kernelVars, sessionVars
  <1>20. Closed \notin Fd /\ None \notin Fd
    BY HttpAssumption
  <1>17. Events'
    <2>1. Submits(t)
      BY <1>2 DEF Submits
    <2>2. \A v \in Worker : v \in InHand(t) => Held(v, t)
      BY <1>1, <1>3, <1>5, <1>8, <1>19, <2>1 DEF Held, kernelVars, sessionVars
    <2> QED
      BY <1>0, <1>5, <1>7, <2>2, EventStep
  <1>18. Processing'
    <2>1. \A v \in InQueue' : Pending(v)'
      <3>1. ASSUME NEW v \in InQueue' PROVE Pending(v)'
        <4>1. CASE v = w
          BY <1>1, <1>3, <1>5, <1>8, <1>19, <1>20, <4>1 DEF Pending, kernelVars, sessionVars
        <4>2. CASE v # w
          BY <1>5, <1>8, <1>10, <1>13, <1>19, <4>2 DEF Pending, kernelVars, sessionVars
        <4> QED
          BY <4>1, <4>2
      <3> QED
        BY <3>1
    <2>2. ASSUME NEW p \in Proc PROVE ProcAt(p)' /\ pw'[p] \notin InQueue'
      <3>1. PICK v : v = pw[p]
        OBVIOUS
      <3>2. ProcAt(p) /\ v \notin InQueue
        BY <1>0, <3>1 DEF Processing
      <3>3. v # w
        BY <1>0, <1>3, <1>4, <3>1, ProcessWorker, HttpAssumption
      <3>4. /\ v \in Worker /\ Pending(v) =>
                 /\ Pending(v)' /\ sess'[v] = sess[v]
                 /\ answer'[v] = answer[v] /\ peer'[sess[v]] = peer[sess[v]]
            /\ v \in Worker /\ stat[v] = 1 /\ sess[v] # None => stat'[v] = 1 /\ sess'[v] # None
        BY <1>5, <1>8, <1>19, <3>3 DEF Pending, kernelVars, sessionVars
      <3>5. ppc'[p] = ppc[p] /\ pw'[p] = pw[p]
        BY <1>5 DEF procVars
      <3>6. ProcAt(p)'
        BY <3>1, <3>2, <3>4, <3>5, ProcFrame
      <3> QED
        BY <1>13, <3>1, <3>2, <3>3, <3>5, <3>6
    <2> QED
      BY <1>0, <1>5, <1>13, <2>1, <2>2 DEF Processing, OnceEach, procVars
  <1> QED
    BY <1>14, <1>15, <1>16, <1>17, <1>18 DEF ShellInv

\* The three outcomes of a write: nothing is left to write, or it fails; n
\* parts are written; there is no room.
WriteEnds(t) == epc' = [epc EXCEPT ![t] = "close"] /\ UNCHANGED <<pipe, sendCnt, mask, ptr, ew, efd>>
WriteSome(t, w, c, n) ==
    /\ sendCnt[w] + n <= RespLen[c] /\ link[c] # "gone"
    /\ pipe' = [pipe EXCEPT ![c] = pipe[c] \o [k \in 1..n |-> c]]
    /\ \/ sendCnt' = sendCnt /\ epc' = [epc EXCEPT ![t] = "close"]
       \/ /\ sendCnt' = [sendCnt EXCEPT ![w] = sendCnt[w] + n]
          /\ epc' = [epc EXCEPT ![t] = "out"]
    /\ UNCHANGED <<mask, ptr, ew, efd>>
WriteFull(t, w, f, c) ==
    link[c] # "gone" /\ Arm(f, w, "out") /\ Back(t) /\ UNCHANGED <<pipe, sendCnt>>

LEMMA WriteCases ==
    ASSUME Types, NEW t \in Event, NEW w \in Worker, NEW f, NEW c \in Client, Write(t),
           w = ew[t], f = sock[w], c = peer[f], c # None, answer[w] = c
    PROVE  WriteEnds(t) \/ (\E n \in Nat : WriteSome(t, w, c, n)) \/ WriteFull(t, w, f, c)
  <1> DEFINE space == Room - Len(pipe[c])
             n == IF Rest(w) <= space THEN Rest(w) ELSE space
  <1>0. sendCnt[w] \in Nat /\ RespLen[c] \in Nat /\ sendCnt \in [Worker -> Nat]
    BY HttpAssumption DEF Types, WorkerTypes
  <1>1. Len(pipe[c]) \in Nat /\ Room \in Nat
    <2>1. pipe[c] \in Seq(Client)
      BY DEF Types, ClientTypes
    <2> QED
      BY <2>1, HttpAssumption
  <1>2. Rest(w) = RespLen[c] - sendCnt[w] /\ Rest(w) \in Int
    BY <1>0 DEF Rest
  <1>3. space \in Int
    BY <1>1
  <1>4. \/ /\ epc' = [epc EXCEPT ![t] = "close"]
           /\ UNCHANGED <<pipe, sendCnt, mask, ptr, ew, efd>>
        \/ /\ Rest(w) > 0 /\ ~Cut(c) /\ space > 0
           /\ pipe' = [pipe EXCEPT ![c] = pipe[c] \o [k \in 1..n |-> c]]
           /\ sendCnt' = [sendCnt EXCEPT ![w] = IF n = Rest(w) THEN sendCnt[w] ELSE sendCnt[w] + n]
           /\ epc' = [epc EXCEPT ![t] = IF n = Rest(w) THEN "close" ELSE "out"]
           /\ UNCHANGED <<mask, ptr, ew, efd>>
        \/ ~Cut(c) /\ Arm(f, w, "out") /\ Back(t) /\ UNCHANGED <<pipe, sendCnt>>
    <2>1. Arm(sock[w], w, "out") => Arm(f, w, "out")
      BY DEF Arm
    <2> QED
      BY <2>1 DEF Write
  <1> HIDE DEF space
  <1>5. ASSUME Rest(w) > 0 /\ space > 0
        PROVE  n \in Nat /\ sendCnt[w] + n <= RespLen[c]
    BY <1>0, <1>2, <1>3, <1>5
  <1> HIDE DEF n
  <1>6. ~Cut(c) => link[c] # "gone"
    BY DEF Cut
  <1>7. [sendCnt EXCEPT ![w] = sendCnt[w]] = sendCnt
    BY <1>0
  <1>8. ASSUME Rest(w) > 0 /\ ~Cut(c) /\ space > 0
               /\ pipe' = [pipe EXCEPT ![c] = pipe[c] \o [k \in 1..n |-> c]]
               /\ sendCnt' = [sendCnt EXCEPT ![w] = IF n = Rest(w) THEN sendCnt[w] ELSE sendCnt[w] + n]
               /\ epc' = [epc EXCEPT ![t] = IF n = Rest(w) THEN "close" ELSE "out"]
        PROVE  /\ n \in Nat /\ sendCnt[w] + n <= RespLen[c] /\ link[c] # "gone"
               /\ pipe' = [pipe EXCEPT ![c] = pipe[c] \o [k \in 1..n |-> c]]
               /\ \/ sendCnt' = sendCnt /\ epc' = [epc EXCEPT ![t] = "close"]
                  \/ /\ sendCnt' = [sendCnt EXCEPT ![w] = sendCnt[w] + n]
                     /\ epc' = [epc EXCEPT ![t] = "out"]
    BY <1>5, <1>6, <1>7, <1>8
  <1> QED
    BY <1>4, <1>6, <1>8 DEF WriteEnds, WriteSome, WriteFull

\* An answer grows by the parts that were written.
LEMMA Grown ==
    ASSUME NEW g \in Seq(Client), NEW s \in Seq(Client), NEW c \in Client, NEW n \in Nat, NEW b \in Nat, NEW l \in Nat,
           NEW r, r = s \o [k \in 1..n |-> c],
           Len(g) + Len(s) <= b, b + n <= l, \A k \in 1..Len(g \o s) : (g \o s)[k] = c
    PROVE  /\ r \in Seq(Client) /\ Len(g) + Len(r) <= b + n
           /\ Len(g \o r) <= l /\ \A k \in 1..Len(g \o r) : (g \o r)[k] = c
  <1>1. /\ r \in Seq(Client) /\ Len(r) = Len(s) + n /\ Len(s) \in Nat /\ Len(g) \in Nat
        /\ \A k \in 1..Len(r) : r[k] = IF k <= Len(s) THEN s[k] ELSE c
    <2>1. Len(g) \in Nat
      BY LenProperties
    <2>2. \A x \in Seq(Client), m \in Nat :
            LET y == x \o [k \in 1..m |-> c] IN
            /\ y \in Seq(Client) /\ Len(y) = Len(x) + m /\ Len(x) \in Nat
            /\ \A k \in 1..Len(y) : y[k] = IF k <= Len(x) THEN x[k] ELSE c
      BY Filled
    <2> QED
      BY <2>1, <2>2
  <1>2. /\ Len(g \o r) = Len(g) + Len(r) /\ Len(g \o s) = Len(g) + Len(s)
        /\ \A k \in 1..Len(g \o r) : (g \o r)[k] = IF k <= Len(g) THEN g[k] ELSE r[k - Len(g)]
        /\ \A k \in 1..Len(g \o s) : (g \o s)[k] = IF k <= Len(g) THEN g[k] ELSE s[k - Len(g)]
    BY <1>1
  <1>3. Len(g) + Len(r) <= b + n /\ Len(g \o r) <= l
    BY <1>1, <1>2
  <1>4. ASSUME NEW k \in 1..Len(g \o r)
        PROVE  (g \o r)[k] = c
    <2>1. CASE k <= Len(g) + Len(s)
      <3>1. k \in 1..Len(g \o s) /\ (k > Len(g) => k - Len(g) \in 1..Len(r) /\ k - Len(g) <= Len(s))
        BY <1>1, <1>2, <2>1
      <3>2. (g \o r)[k] = (g \o s)[k]
        BY <1>1, <1>2, <3>1
      <3> QED
        BY <3>1, <3>2
    <2>2. CASE k > Len(g) + Len(s)
      <3>1. ~(k <= Len(g)) /\ k - Len(g) \in 1..Len(r) /\ ~(k - Len(g) <= Len(s))
        BY <1>1, <1>2, <2>2
      <3> QED
        BY <1>1, <1>2, <3>1
    <2> QED
      BY <1>1, <1>2, <2>1, <2>2
  <1> QED
    BY <1>1, <1>3, <1>4

LEMMA WriteKeeps ==
    ASSUME ShellInv, StillLeft, NEW t \in Event, Write(t)
    PROVE  ShellInv'
  <1>0. /\ Types /\ Events /\ Registered /\ ClientInv /\ AcceptInv /\ Processing
        /\ ClientTypes /\ EventTypes /\ WorkerTypes
    BY DEF ShellInv, Types
  <1>1. PICK w, f, c : w = ew[t] /\ f = sess[w] /\ c = peer[f]
    OBVIOUS
  <1>2. epc[t] = "out"
    BY DEF Write
  <1>3. /\ w \in Worker /\ f \in Fd /\ efd[t] = f /\ sock[w] = f /\ c \in Client /\ c # None /\ w # None
        /\ EventOf(w, "out") /\ (w \in Left \/ (mask[f] = "spent" /\ w \notin InHand(t)))
    BY <1>0, <1>1, <1>2, EventThread
  <1>4. answer[w] = c
    BY <1>1, <1>3 DEF EventOf
  <1>5. UNCHANGED <<link, sent, unread, got, peer, sock, stat, input, answer,
                    sessionVars, taskVars, acceptVars, cpc, batch, emutex, procVars, mainVars>>
    BY DEF Write
  <1>6. Exchange(w)
    BY <1>3 DEF ShellInv
  <1>7. /\ \A k \in 1..Len(input[w]) : input[w][k] = c
        /\ Len(input[w]) + unread[c] = sent[c]
        /\ stat[w] # 0 => Len(input[w]) >= ReqLen[c]
        /\ stat[w] # 0
        /\ NotClosing(w) => Len(got[c]) + Len(pipe[c]) <= sendCnt[w]
    BY <1>1, <1>3, <1>4, <1>6 DEF Exchange, Complete, NotClosing
  <1>8. link[c] # "gone" => mask[f] = "spent" /\ w \notin InHand(t) /\ NotClosing(w)
    <2>1. w \in Left => link[c] = "gone"
      BY <1>1 DEF Left, LeftWaiting
    <2>2. w \notin InHand(t) => NotClosing(w)
      BY <1>1, <1>2 DEF InHand, NotClosing
    <2> QED
      BY <1>3, <2>1, <2>2
  <1>14. Left' = Left
    BY <1>5, LeftSame DEF sessionVars
  <1>15. ASSUME UNCHANGED mask, epc'[t] \in {"out", "close"}
         PROVE  ~Submits(t)' /\ \A v \in Worker : v \in InHand(t) => Held(v, t)
    BY <1>5, <1>15 DEF Submits, Held, sessionVars
  <1>9. ASSUME EventTypes', epc'[t] \in {"out", "close"}, UNCHANGED <<mask, ptr, ew, efd>>
        PROVE  EventAt(t)'
    <2>1. PICK m : m = epc'[t]
      OBVIOUS
    <2>2. m \in {"out", "close"} /\ ew'[t] = w /\ efd'[t] = sess'[w]
      BY <1>1, <1>3, <1>5, <1>9, <2>1 DEF sessionVars
    <2>3. EventOf(w, m)'
      BY <1>1, <1>3, <1>4, <1>5, <1>9, <1>14, <2>2 DEF EventOf, sessionVars
    <2>4. EventOf(ew[t], epc[t])'
      BY <2>1, <2>2, <2>3 DEF EventOf, Complete
    <2> QED
      BY <2>1, <2>2, <2>4 DEF EventAt
  <1>10. CASE WriteEnds(t)
    <2>0. epc' = [epc EXCEPT ![t] = "close"] /\ UNCHANGED <<pipe, sendCnt, mask, ptr, ew, efd>>
      BY <1>10 DEF WriteEnds
    <2>1. EventTypes' /\ OnlyThread(t) /\ epc'[t] = "close"
      BY <1>0, <1>5, <2>0 DEF EventTypes, OnlyThread
    <2>2. UNCHANGED <<clientVars, kernelVars, workerVars>>
      BY <1>5, <2>0 DEF clientVars, kernelVars, workerVars
    <2>3. Types'
      BY <1>5, <2>1, <2>2, TypeFrame DEF ShellInv, Types
    <2>4. Events'
      BY <1>0, <1>5, <1>9, <1>15, <2>0, <2>1, EventStep
    <2>5. \A v \in Worker : NotClosing(v)' => NotClosing(v)
      BY <1>2, <2>1, ClosingFrame
    <2> QED
      BY <1>5, <2>2, <2>3, <2>4, <2>5, QuietStep
  <1>11. ASSUME NEW n \in Nat, WriteSome(t, w, c, n)
         PROVE  ShellInv'
    <2>0. /\ sendCnt[w] + n <= RespLen[c] /\ link[c] # "gone"
          /\ pipe' = [pipe EXCEPT ![c] = pipe[c] \o [k \in 1..n |-> c]]
          /\ \/ sendCnt' = sendCnt /\ epc' = [epc EXCEPT ![t] = "close"]
             \/ /\ sendCnt' = [sendCnt EXCEPT ![w] = sendCnt[w] + n]
                /\ epc' = [epc EXCEPT ![t] = "out"]
          /\ UNCHANGED <<mask, ptr, ew, efd>>
      BY <1>11 DEF WriteSome
    <2>1. PICK g, s, r, b, l : /\ g = got[c] /\ s = pipe[c] /\ r = s \o [k \in 1..n |-> c]
                               /\ b = sendCnt[w] /\ l = RespLen[c]
      OBVIOUS
    <2>2. g \in Seq(Client) /\ s \in Seq(Client) /\ b \in Nat /\ l \in Nat
      BY <1>0, <1>3, <2>1, HttpAssumption DEF ClientTypes, WorkerTypes
    <2>3. Len(g) + Len(s) <= b /\ b + n <= l /\ \A k \in 1..Len(g \o s) : (g \o s)[k] = c
      BY <1>3, <1>7, <1>8, <2>0, <2>1 DEF ShellInv, Own
    <2>4. r = s \o [k \in 1..n |-> c]
      BY <2>1
    <2>5. /\ r \in Seq(Client) /\ Len(g) + Len(r) <= b + n
          /\ Len(g \o r) <= l /\ \A k \in 1..Len(g \o r) : (g \o r)[k] = c
      BY <1>3, <2>2, <2>3, <2>4, Grown
    <2>6. pipe' = [pipe EXCEPT ![c] = r]
      BY <2>0, <2>1
    <2>7. pipe'[c] = r /\ \A d \in Client : d # c => pipe'[d] = pipe[d]
      BY <1>0, <1>3, <2>6 DEF ClientTypes
    <2>8. /\ \/ sendCnt'[w] = b /\ epc'[t] = "close"
             \/ sendCnt'[w] = b + n /\ epc'[t] = "out"
          /\ \A v \in Worker : v # w => sendCnt'[v] = sendCnt[v]
      BY <1>0, <1>3, <2>0, <2>1 DEF WorkerTypes, EventTypes
    <2>9. OnlyThread(t) /\ EventTypes'
      BY <1>0, <1>5, <2>0 DEF EventTypes, OnlyThread
    <2>10. UNCHANGED <<kernelVars, sess>>
      BY <1>5, <2>0 DEF kernelVars, sessionVars
    <2>11. Types'
      <3>1. ClientTypes'
        BY <1>0, <1>5, <2>5, <2>6 DEF ClientTypes
      <3>2. WorkerTypes'
        <4>1. b + n \in Nat
          BY <2>2
        <4>2. sendCnt' \in [Worker -> Nat]
          BY <1>0, <2>0, <2>1, <4>1 DEF WorkerTypes
        <4> QED
          BY <1>0, <1>5, <4>2 DEF WorkerTypes
      <3> QED
        BY <1>5, <2>9, <2>10, <3>1, <3>2, TypeFrame DEF ShellInv, Types
    <2>12. ClientInv'
      <3>1. link[c] # "new"
        BY <1>0, <1>1, <1>3 DEF ClientInv
      <3>2. \A d \in Client : link[d] = "new" => pipe'[d] = pipe[d]
        BY <2>7, <3>1
      <3> QED
        BY <1>0, <1>5, <3>2 DEF ClientInv, Unanswered
    <2>13. AcceptInv'
      <3>1. apc = "create" => peer[afd] # c /\ peer[afd] \in Client
        BY <1>0, <1>1, <1>3, NotAccepted DEF AcceptInv, Types, KernelTypes
      <3> QED
        BY <1>0, <1>5, <2>7, <2>10, <3>1 DEF AcceptInv, Unanswered, kernelVars, acceptVars
    <2>14. Addresses' /\ Registered'
      BY <1>5, <2>10, AddressFrame, RegisterFrame DEF ShellInv, kernelVars, sessionVars, acceptVars
    <2>15. Own'
      <3>1. ASSUME NEW d \in Client
            PROVE  LET q == got'[d] \o pipe'[d] IN Len(q) <= RespLen[d] /\ \A k \in 1..Len(q) : q[k] = d
        <4>1. CASE d = c
          BY <1>5, <2>1, <2>5, <2>7, <4>1
        <4>2. CASE d # c
          BY <1>5, <2>7, <4>2 DEF ShellInv, Own
        <4> QED
          BY <4>1, <4>2
      <3> QED
        BY <3>1 DEF Own
    <2>16. ASSUME NEW v \in Worker PROVE Exchange(v)'
      <3>1. CASE v = w
        <4>1. epc'[t] = "close" => ~NotClosing(w)'
          BY <1>1, <2>0 DEF NotClosing
        <4>2. NotClosing(w)' => Len(got'[c]) + Len(pipe'[c]) <= sendCnt'[w]
          BY <1>5, <2>1, <2>5, <2>7, <2>8, <4>1
        <4>3. /\ sess'[w] = f /\ peer'[f] = c /\ mask'[f] = "spent"
              /\ \A k \in 1..Len(input'[w]) : input'[w][k] = c
              /\ Len(input'[w]) + unread'[c] = sent'[c]
              /\ answer'[w] = c /\ stat'[w] # 0 /\ Len(input'[w]) >= ReqLen[c]
          BY <1>1, <1>4, <1>5, <1>7, <1>8, <2>0, <2>10 DEF kernelVars
        <4>4. Exchange(w)'
          BY <1>3, <4>2, <4>3, ExchangeAfter
        <4> QED
          BY <3>1, <4>4
      <3>2. CASE v # w
        <4>1. sess[v] \in Fd => peer[sess[v]] # c /\ peer[sess[v]] \in Client
          BY <1>0, <1>1, <1>3, <3>2, Distinct, Session
        <4>2. (NotClosing(v)' => NotClosing(v)) /\ Exchange(v)
          BY <1>2, <2>9, ClosingFrame DEF ShellInv
        <4> QED
          BY <1>5, <2>7, <2>8, <2>10, <3>2, <4>1, <4>2, ExchangeFrame DEF kernelVars
      <3> QED
        BY <3>1, <3>2
    <2>17. Events'
      BY <1>0, <1>5, <1>9, <1>15, <2>0, <2>8, <2>9, EventStep
    <2>18. Processing'
      BY <1>0, <1>5, <2>10, QuietProcess DEF kernelVars, taskVars, procVars, sessionVars
    <2> QED
      BY <2>11, <2>12, <2>13, <2>14, <2>15, <2>16, <2>17, <2>18 DEF ShellInv
  <1>12. CASE WriteFull(t, w, f, c)
    <2>0. /\ Arm(f, w, "out") /\ Back(t) /\ UNCHANGED <<pipe, sendCnt>>
          /\ mask[f] = "spent" /\ w \notin InHand(t) /\ NotClosing(w)
      BY <1>8, <1>12 DEF WriteFull
    <2>1. UNCHANGED <<clientVars, workerVars>>
      BY <1>5, <2>0 DEF clientVars, workerVars
    <2>2. /\ ptr' = ptr /\ mask'[f] = "out"
          /\ \A v \in Worker : v # w /\ sess[v] \in Fd => mask'[sess[v]] = mask[sess[v]]
      BY <1>0, <1>1, <1>3, <2>0, ArmStep
    <2>3. KernelTypes' /\ ClientInv' /\ Own' /\ Addresses' /\ AcceptInv' /\ Registered'
      BY <1>1, <1>3, <1>5, <2>0, <2>1, ArmedKeeps
    <2>4. EventTypes' /\ OnlyThread(t) /\ ew'[t] = None /\ EventAt(t)' /\ ~Submits(t)'
      BY <1>0, <1>5, <2>0, BackStep DEF Submits
    <2>5. Types'
      BY <1>5, <2>1, <2>3, <2>4, TypeFrame DEF ShellInv, Types
    <2>6. ASSUME NEW v \in Worker PROVE Exchange(v)'
      <3>0. (NotClosing(v)' => NotClosing(v)) /\ Exchange(v)
        BY <1>2, <2>4, ClosingFrame DEF ShellInv
      <3>1. CASE v = w
        <4>1. /\ sess'[w] = f /\ peer'[f] = c
              /\ \A k \in 1..Len(input'[w]) : input'[w][k] = c
              /\ Len(input'[w]) + unread'[c] = sent'[c]
              /\ answer'[w] = c /\ mask'[f] = "out"
              /\ stat'[w] # 0 /\ Len(input'[w]) >= ReqLen[c]
              /\ Len(got'[c]) + Len(pipe'[c]) <= sendCnt'[w]
          BY <1>1, <1>4, <1>5, <1>7, <2>0, <2>1, <2>2 DEF clientVars, workerVars, sessionVars
        <4>2. Exchange(w)'
          BY <1>3, <4>1, ExchangeAfter
        <4> QED
          BY <3>1, <4>2
      <3>2. CASE v # w
        BY <1>5, <2>1, <2>2, <3>0, <3>2, ExchangeFrame DEF clientVars, workerVars, sessionVars
      <3> QED
        BY <3>1, <3>2
    <2>7. Events'
      <3>1. \A v \in Worker : v \in InHand(t) => sess[v] \in Fd /\ v # w
        BY <1>0, <2>0, EventWorker, HttpAssumption DEF InHand, InBatch, InEvent
      <3>2. \A v \in Worker : v \in InHand(t) => Held(v, t)
        BY <1>5, <2>2, <3>1 DEF Held, sessionVars
      <3> QED
        BY <1>0, <1>5, <2>4, <3>2, EventStep
    <2>8. Processing'
      <3>1. ASSUME NEW v \in Worker, Pending(v)
            PROVE  Pending(v)'
        <4>1. w \notin Left
          BY <1>1, <1>12 DEF WriteFull, Left, LeftWaiting
        <4>2. v # w
          BY <1>1, <1>3, <2>0, <3>1, <4>1 DEF Pending
        <4> QED
          BY <1>0, <1>5, <2>2, <3>1, <4>2, PendingFrame DEF sessionVars
      <3> QED
        BY <1>0, <1>5, <3>1, ProcessFrame DEF taskVars, procVars, sessionVars
    <2> QED
      BY <2>3, <2>5, <2>6, <2>7, <2>8 DEF ShellInv
  <1>13. WriteEnds(t) \/ (\E n \in Nat : WriteSome(t, w, c, n)) \/ WriteFull(t, w, f, c)
    <2>1. /\ Types /\ w \in Worker /\ c \in Client /\ Write(t) /\ w = ew[t] /\ f = sock[w] /\ c = peer[f]
          /\ c # None /\ answer[w] = c
      BY <1>0, <1>1, <1>3, <1>4
    <2> QED
      BY <2>1, WriteCases
  <1> QED
    BY <1>10, <1>11, <1>12, <1>13

LEMMA closeSessionKeeps ==
    ASSUME ShellInv, StillLeft, ~race', NEW t \in Event, closeSession(t)
    PROVE  ShellInv'
  <1>0. /\ Types /\ Events /\ Registered /\ ClientInv /\ AcceptInv /\ Processing
        /\ KernelTypes /\ SessionTypes
    BY DEF ShellInv, Types
  <1>1. PICK w, f : w = ew[t] /\ f = sess[w]
    OBVIOUS
  <1>2. epc[t] = "close"
    BY DEF closeSession
  <1>3. /\ w \in Worker /\ f \in Fd /\ efd[t] = f /\ ptr[f] = w /\ w # None
        /\ w \in Left \/ mask[f] = "spent"
    BY <1>0, <1>1, <1>2, EventThread
  <1>4. /\ mask' = [mask EXCEPT ![f] = None] /\ ptr' = [ptr EXCEPT ![f] = None]
        /\ peer' = [peer EXCEPT ![f] = None]
        /\ nowConn' = nowConn - 1 /\ sess' = [sess EXCEPT ![w] = Closed]
        /\ w \notin InHand(t)
    BY <1>1, <1>3 DEF closeSession
  <1>5. UNCHANGED <<clientVars, workerVars, taskVars, acceptVars, cpc, batch, emutex,
                    procVars, mainVars>>
    BY DEF closeSession
  <1>6. EventTypes' /\ OnlyThread(t) /\ ew'[t] = None /\ EventAt(t)' /\ ~Submits(t)'
    <2>1. Back(t)
      BY DEF closeSession
    <2> QED
      BY <1>0, <1>5, <2>1, BackStep DEF Submits
  <1>7. /\ sess'[w] = Closed /\ \A v \in Worker : v # w => sess'[v] = sess[v]
        /\ \A g \in Fd : /\ mask'[g] = IF g = f THEN None ELSE mask[g]
                         /\ ptr'[g] = IF g = f THEN None ELSE ptr[g]
                         /\ peer'[g] = IF g = f THEN None ELSE peer[g]
    BY <1>0, <1>3, <1>4 DEF KernelTypes, SessionTypes
  <1>8. Closed \notin Fd /\ Closed # None /\ None \notin Fd /\ None \notin {"in", "out", "spent"}
    BY HttpAssumption
  <1>9. ASSUME NEW v \in Worker, v # w, sess[v] \in Fd
        PROVE  /\ sess[v] # f /\ mask'[sess[v]] = mask[sess[v]]
               /\ ptr'[sess[v]] = ptr[sess[v]] /\ peer'[sess[v]] = peer[sess[v]]
    BY <1>0, <1>1, <1>3, <1>7, <1>9, Distinct
  <1>10. Types'
    <2>1. KernelTypes'
      BY <1>0, <1>4 DEF KernelTypes
    <2>2. SessionTypes'
      <3>1. sess' \in [Worker -> Fd \union {Closed, None}]
        BY <1>0, <1>4 DEF SessionTypes
      <3>2. nowConn' \in Int
        BY <1>0, <1>4 DEF SessionTypes
      <3> QED
        BY <3>1, <3>2 DEF SessionTypes
    <2> QED
      BY <1>5, <1>6, <2>1, <2>2, TypeFrame DEF ShellInv, Types
  <1>11. ClientInv'
    <2>1. \A g \in Fd : peer'[g] # None => peer'[g] = peer[g]
      BY <1>7
    <2> QED
      BY <1>0, <1>5, <2>1 DEF ClientInv, Unanswered, clientVars
  <1>12. AcceptInv'
    <2>1. apc = "create" => afd \in Fd /\ afd # f
      BY <1>0, <1>1, <1>3, NotAccepted DEF AcceptInv
    <2> QED
      BY <1>0, <1>5, <1>7, <2>1 DEF AcceptInv, Unanswered, clientVars, acceptVars
  <1>13. Addresses'
    <2> DEFINE A == {v \in Worker : sess[v] \in Fd}
               B == {v \in Worker : sess'[v] \in Fd}
    <2>1. B = A \ {w} /\ w \in A /\ A \subseteq Worker
      BY <1>1, <1>3, <1>7, <1>8
    <2>2. {v \in Worker : sess'[v] # None} = {v \in Worker : sess[v] # None}
      BY <1>1, <1>3, <1>7, <1>8
    <2>3. nowConn = Cardinality(A)
      BY DEF ShellInv, Addresses
    <2> HIDE DEF A, B
    <2>4. IsFiniteSet(A) /\ Cardinality(A) \in Nat
      BY <2>1, AddressAssumption, FS_Subset, FS_CardinalityType
    <2>5. Cardinality(B) = Cardinality(A) - 1
      BY <2>1, <2>4, FS_RemoveElement
    <2>6. nowConn' = Cardinality(B)
      BY <1>4, <2>3, <2>5
    <2> QED
      BY <1>5, <2>2, <2>6 DEF ShellInv, Addresses, clientVars, acceptVars, B
  <1>14. Registered'
    <2>1. ASSUME NEW v \in Worker, sess'[v] \in Fd
          PROVE  LET g == sess'[v] IN
                 sock'[v] = g /\ peer'[g] # None /\ mask'[g] # None /\ ptr'[g] = v
      <3>1. v # w
        BY <1>7, <1>8, <2>1
      <3>2. sess'[v] = sess[v] /\ sock'[v] = sock[v]
        BY <1>5, <1>7, <3>1 DEF workerVars
      <3> QED
        BY <1>0, <1>9, <2>1, <3>1, <3>2 DEF Registered
    <2>2. ASSUME NEW g \in Fd
          PROVE  /\ mask'[g] # None => ptr'[g] \in Worker /\ sess'[ptr'[g]] = g
                 /\ peer'[g] # None => mask'[g] # None \/ (apc' = "create" /\ afd' = g)
      <3>1. CASE g = f
        BY <1>7, <3>1
      <3>2. CASE g # f
        <4>1. /\ mask[g] # None => ptr[g] \in Worker /\ sess[ptr[g]] = g
              /\ peer[g] # None => mask[g] # None \/ (apc = "create" /\ afd = g)
          BY <1>0 DEF Registered
        <4>2. mask[g] # None => ptr[g] # w
          BY <1>1, <3>2, <4>1
        <4> QED
          BY <1>5, <1>7, <3>2, <4>1, <4>2 DEF acceptVars
      <3> QED
        BY <3>1, <3>2
    <2> QED
      BY <2>1, <2>2 DEF Registered
  <1>15. Own'
    BY <1>5, AnswerFrame DEF ShellInv, clientVars
  <1>16. ASSUME NEW v \in Worker PROVE Exchange(v)'
    <2>1. CASE v = w
      BY <1>7, <1>8, <2>1 DEF Exchange
    <2>2. CASE v # w
      <3>1. (NotClosing(v)' => NotClosing(v)) /\ Exchange(v)
        BY <1>1, <1>6, <2>2, ClosingFrame DEF ShellInv
      <3> QED
        BY <1>5, <1>7, <1>9, <2>2, <3>1, ExchangeFrame DEF clientVars, workerVars
    <2> QED
      BY <2>1, <2>2
  <1>17. Events'
    <2>1. \A v \in Worker : v \in InHand(t) => sess[v] \in Fd /\ v # w
      BY <1>0, <1>4, EventWorker, HttpAssumption DEF InHand, InBatch, InEvent
    <2>2. \A v \in Worker : v \in InHand(t) => Held(v, t)
      BY <1>5, <1>7, <1>9, <2>1 DEF Held, workerVars
    <2> QED
      BY <1>0, <1>5, <1>6, <2>2, EventStep
  <1>18. Processing'
    <2>1. ASSUME NEW v \in Worker, Pending(v)
          PROVE  /\ Pending(v)'
                 /\ sess'[v] \in Fd => /\ sess'[v] = sess[v] /\ answer'[v] = answer[v]
                                        /\ peer'[sess[v]] = peer[sess[v]]
      <3>1. CASE v = w
        <4>1. w \in Left
          BY <1>1, <1>3, <2>1, <3>1 DEF Pending
        <4>2. SomeLeft'
          <5>1. peer[f] \in Client
            BY <1>0, <1>1, <1>3, Session
          <5>2. SomeLeft
            BY <1>1, <4>1, <5>1 DEF Left, SomeLeft
          <5> QED
            BY <5>2, LeftFrame
        <4>3. stat'[w] = 1
          BY <1>5, <2>1, <3>1 DEF Pending, workerVars
        <4> QED
          BY <1>7, <1>8, <3>1, <4>2, <4>3 DEF Pending
      <3>2. CASE v # w
        <4>1. Pending(v)'
          BY <1>0, <1>5, <1>7, <1>9, <2>1, <3>2, PendingFrame DEF workerVars
        <4> QED
          BY <1>5, <1>7, <1>9, <3>2, <4>1 DEF workerVars
      <3> QED
        BY <3>1, <3>2
    <2>2. \A v \in Worker : sess[v] # None => sess'[v] # None
      BY <1>7, <1>8
    <2> QED
      BY <1>0, <1>5, <2>1, <2>2, ProcessFrame DEF taskVars, procVars, workerVars
  <1> QED
    BY <1>10, <1>11, <1>12, <1>13, <1>14, <1>15, <1>16, <1>17, <1>18 DEF ShellInv

-----------------------------------------------------------------------------
(* The steps of the processors. *)

\* A worker that is with a processor before its answer has no event, unless its
\* client has left while it waited.
LEMMA NoEvent ==
    ASSUME Events, NEW w \in Worker, Pending(w), w \in InBatch \union InEvent
    PROVE  w \in Left
  <1>1. sess[w] \in Fd /\ \E m : EventOf(w, m)
    BY EventWorker
  <1> QED
    BY <1>1 DEF Pending, EventOf

\* What Exchange says of a worker w in process, of the session f of client c.
InProcess(w, f, c) ==
    /\ \A k \in 1..Len(input[w]) : input[w][k] = c
    /\ Len(input[w]) + unread[c] = sent[c]
    /\ mask[f] = "in" => got[c] = <<>> /\ pipe[c] = <<>> /\ sendCnt[w] = 0
    /\ Len(input[w]) >= ReqLen[c]
    /\ NotClosing(w) => Len(got[c]) + Len(pipe[c]) <= sendCnt[w]

\* The exchange of an open session whose request is with a processor.
LEMMA Exchanged ==
    ASSUME NEW w \in Worker, NEW f \in Fd, NEW c, Exchange(w), sess[w] = f, peer[f] = c, stat[w] = 1
    PROVE  InProcess(w, f, c)
  <1>1. stat[w] # 0
    OBVIOUS
  <1> QED
    BY <1>1, Zenon DEF Exchange, Complete, Unanswered, NotClosing, InProcess

\* One processor takes a step; nothing comes into the queue.
LEMMA ProcStep ==
    ASSUME Processing, NEW p \in Proc,
           \A q \in Proc : q # p => ppc'[q] = ppc[q] /\ pw'[q] = pw[q] /\ ProcAt(q)',
           ProcAt(p)', OnceEach(queue'), InQueue' \subseteq InQueue,
           \A v \in InQueue' : Pending(v)',
           pw'[p] # None => pw'[p] \notin InQueue' /\ \A q \in Proc : q # p => pw[q] # pw'[p],
           None \notin InQueue
    PROVE  Processing'
  <1>1. \A q \in Proc : ProcAt(q)'
    <2>1. ASSUME NEW q \in Proc PROVE ProcAt(q)'
      <3>1. CASE q = p
        BY <3>1
      <3>2. CASE q # p
        BY <3>2
      <3> QED
        BY <3>1, <3>2
    <2> QED
      BY <2>1
  <1>2. \A q, x \in Proc : pw'[q] # None /\ pw'[q] = pw'[x] => q = x
    BY DEF Processing
  <1>3. \A q \in Proc : pw'[q] \notin InQueue'
    BY DEF Processing
  <1> QED
    BY <1>1, <1>2, <1>3 DEF Processing, OnceEach

\* A step of a processor that changes no data but the queue.
LEMMA QuietProc ==
    ASSUME ShellInv, StillLeft, Types', Processing',
           UNCHANGED <<clientVars, kernelVars, workerVars, sessionVars, acceptVars, eventVars>>
    PROVE  ShellInv'
  <1>1. ClientInv' /\ Own' /\ AcceptInv' /\ Addresses' /\ Registered'
    BY ClientFrame, AnswerFrame, AcceptFrame, AddressFrame, RegisterFrame
       DEF ShellInv, clientVars, kernelVars, acceptVars, sessionVars, workerVars
  <1>2. ASSUME NEW w \in Worker PROVE Exchange(w)'
    <2>1. NotClosing(w)' => NotClosing(w)
      BY DEF NotClosing, eventVars
    <2> QED
      BY <2>1, ExchangeFrame DEF ShellInv, clientVars, kernelVars, workerVars, sessionVars
  <1>3. Events'
    BY EventsFrame DEF ShellInv, kernelVars, workerVars, sessionVars, eventVars
  <1> QED
    BY <1>1, <1>2, <1>3 DEF ShellInv

LEMMA GetKeeps ==
    ASSUME ShellInv, StillLeft, NEW p \in Proc, Get(p)
    PROVE  ShellInv'
  <1>0. Types /\ Processing /\ TaskTypes /\ ProcTypes
    BY DEF ShellInv, Types
  <1>1. PICK w \in Worker : Tasks!Take(w) /\ pw' = [pw EXCEPT ![p] = w]
    BY DEF Get
  <1>2. /\ ppc[p] = "get" /\ ppc' = [ppc EXCEPT ![p] = "work"]
        /\ UNCHANGED <<clientVars, kernelVars, workerVars, sessionVars, acceptVars, cpc, eventVars, mainVars>>
    BY DEF Get
  <1>3. /\ queue # <<>> /\ w = queue[Len(queue)] /\ queue' = SubSeq(queue, 1, Len(queue) - 1)
        /\ open' = open
    BY <1>1 DEF Tasks!Take
  <1>4. OnceEach(queue) /\ queue \in Seq(Worker) /\ InQueue = Entries(queue)
    BY <1>0 DEF Processing, OnceEach, TaskTypes, InQueue, Entries
  <1>5. /\ queue' \in Seq(Worker) /\ w \in InQueue /\ OnceEach(queue')
        /\ InQueue' \subseteq InQueue /\ w \notin InQueue'
    <2>1. PICK q, r : q = queue /\ r = queue'
      OBVIOUS
    <2>2. q \in Seq(Worker) /\ q # <<>> /\ w = Oldest(q) /\ r = Others(q) /\ OnceEach(q)
      BY <1>3, <1>4, <2>1 DEF Oldest, Others
    <2>3. /\ r \in Seq(Worker) /\ w \in Entries(q) /\ OnceEach(r)
          /\ Entries(r) \subseteq Entries(q) /\ w \notin Entries(r)
      BY <2>2, LastTaken
    <2>4. InQueue' = Entries(r)
      BY <2>1 DEF InQueue, Entries
    <2> QED
      BY <1>4, <2>1, <2>3, <2>4
  <1>6. Pending(w) /\ \A v \in InQueue : v \in Worker /\ Pending(v)
    BY <1>0, <1>5, ProcessWorker
  <1>13. Left' = Left /\ SomeLeft' = SomeLeft
    BY <1>2, LeftSame DEF clientVars, kernelVars, sessionVars
  <1>7. \A v \in Worker : Pending(v) => Pending(v)'
    BY <1>2, <1>13 DEF Pending, kernelVars, workerVars, sessionVars
  <1>8. ppc'[p] = "work" /\ pw'[p] = w /\ \A q \in Proc : q # p => ppc'[q] = ppc[q] /\ pw'[q] = pw[q]
    BY <1>0, <1>1, <1>2 DEF ProcTypes
  <1>9. ProcAt(p)'
    <2>1. stat'[w] = 1 /\ sess'[w] # None /\ Pending(w)'
      BY <1>2, <1>6, <1>7, HttpAssumption DEF Pending, workerVars, sessionVars
    <2>2. Pending(pw[p])'
      BY <1>8, <2>1 DEF Pending
    <2> QED
      BY <1>8, <2>1, <2>2 DEF ProcAt
  <1>10. Types'
    <2>1. TaskTypes'
      <3>1. open' = open
        BY <1>3
      <3> QED
        BY <1>0, <1>5, <3>1 DEF TaskTypes
    <2>2. ProcTypes'
      BY <1>0, <1>1, <1>2 DEF ProcTypes
    <2> QED
      BY <1>2, <2>1, <2>2, TypeFrame DEF ShellInv, Types
  <1>11. ASSUME NEW q \in Proc, q # p PROVE ProcAt(q)'
    <2>1. ProcAt(q) /\ ppc'[q] = ppc[q] /\ pw'[q] = pw[q]
      BY <1>0, <1>8, <1>11 DEF Processing
    <2>2. UNCHANGED <<sess, mask, stat, answer, peer>>
      BY <1>2 DEF kernelVars, workerVars, sessionVars
    <2> QED
      BY <1>7, <2>1, <2>2, ProcFrame
  <1>12. Processing'
    <2>1. None \notin InQueue
      BY <1>6, HttpAssumption
    <2>2. \A q \in Proc : pw[q] # w
      BY <1>0, <1>5 DEF Processing
    <2> QED
      BY <1>0, <1>5, <1>6, <1>7, <1>8, <1>9, <1>11, <2>1, <2>2, ProcStep
  <1> QED
    BY <1>2, <1>10, <1>12, QuietProc

LEMMA ExitKeeps ==
    ASSUME ShellInv, StillLeft, NEW p \in Proc, Exit(p)
    PROVE  ShellInv'
  <1>0. Types /\ Processing /\ ProcTypes
    BY DEF ShellInv, Types
  <1>1. /\ ppc[p] = "get" /\ ppc' = [ppc EXCEPT ![p] = "exit"] /\ pw' = pw
        /\ UNCHANGED <<clientVars, kernelVars, workerVars, sessionVars, taskVars, acceptVars, cpc,
                       eventVars, mainVars>>
    BY DEF Exit
  <1>2. ppc'[p] = "exit" /\ \A q \in Proc : q # p => ppc'[q] = ppc[q]
    BY <1>0, <1>1 DEF ProcTypes
  <1>3. Types'
    <2>1. ProcTypes'
      BY <1>0, <1>1 DEF ProcTypes
    <2> QED
      BY <1>1, <2>1, TypeFrame DEF ShellInv, Types
  <1>4. UNCHANGED <<sess, mask, stat, answer, peer, queue>>
    BY <1>1 DEF kernelVars, workerVars, sessionVars, taskVars
  <1>9. Left' = Left /\ SomeLeft' = SomeLeft
    BY <1>1, LeftSame DEF clientVars, kernelVars, sessionVars
  <1>5. \A v \in Worker : Pending(v) => Pending(v)'
    BY <1>4, <1>9 DEF Pending
  <1>6. ASSUME NEW q \in Proc PROVE ProcAt(q)'
    <2>0. ProcAt(q)
      BY <1>0 DEF Processing
    <2>1. CASE q = p
      BY <1>1, <1>2, <2>0, <2>1 DEF ProcAt
    <2>2. CASE q # p
      BY <1>1, <1>2, <1>4, <1>5, <2>0, <2>2, ProcFrame
    <2> QED
      BY <2>1, <2>2
  <1>7. InQueue' = InQueue /\ \A v \in InQueue : Pending(v)'
    BY <1>0, <1>4, <1>5, ProcessWorker DEF InQueue
  <1>8. Processing'
    BY <1>0, <1>1, <1>4, <1>6, <1>7 DEF Processing
  <1> QED
    BY <1>1, <1>3, <1>8, QuietProc

LEMMA doWorkKeeps ==
    ASSUME ShellInv, StillLeft, NEW p \in Proc, doWork(p)
    PROVE  ShellInv'
  <1>0. Types /\ Processing /\ Events /\ Registered /\ ProcTypes /\ WorkerTypes
    BY DEF ShellInv, Types
  <1>1. PICK w, f, c : w = pw[p] /\ f = sess[w] /\ c = peer[f]
    OBVIOUS
  <1>2. ppc[p] = "work" /\ ProcAt(p)
    BY <1>0 DEF doWork, Processing
  <1>3. w \in Worker /\ Pending(w) /\ stat[w] = 1 /\ sess[w] # None
    BY <1>1, <1>2 DEF ProcAt
  <1>4. /\ Exchange(w) /\ input[w] \in Seq(Client)
        /\ f \in Fd => c \in Client /\ ReqLen[c] \in Nat \ {0}
    BY <1>0, <1>1, <1>3, Session, HttpAssumption DEF ShellInv, WorkerTypes
  <1>5. f \in Fd =>
            /\ \A k \in 1..Len(input[w]) : input[w][k] = c
            /\ Len(input[w]) + unread[c] = sent[c]
            /\ mask[f] = "in" => got[c] = <<>> /\ pipe[c] = <<>> /\ sendCnt[w] = 0
            /\ Len(input[w]) >= ReqLen[c]
            /\ NotClosing(w) => Len(got[c]) + Len(pipe[c]) <= sendCnt[w]
    <2>1. ASSUME f \in Fd PROVE InProcess(w, f, c)
      <3>1. w \in Worker /\ Exchange(w) /\ sess[w] = f /\ peer[f] = c /\ stat[w] = 1
        BY <1>1, <1>3, <1>4
      <3> QED
        BY <2>1, <3>1, Exchanged
    <2> QED
      BY <2>1 DEF InProcess
  <1>6. /\ ppc' = [ppc EXCEPT ![p] = "respond"]
        /\ UNCHANGED <<clientVars, kernelVars, sock, stat, input, sendCnt, sessionVars, taskVars,
                       acceptVars, cpc, eventVars, pw, mainVars>>
    BY DEF doWork
  <1>7. PICK a \in Client \union {None} : answer' = [answer EXCEPT ![w] = a] /\ (f \in Fd => a = c)
    <2>1. PICK s, a : s = input[w] /\ a = IF s = <<>> THEN None ELSE Head(s)
      OBVIOUS
    <2>2. s \in Seq(Client) /\ answer' = [answer EXCEPT ![w] = a]
      BY <1>1, <1>4, <2>1 DEF doWork
    <2>3. a \in Client \union {None}
      BY <2>1, <2>2
    <2>4. ASSUME f \in Fd
          PROVE  a = c
      <3>1. Len(s) >= ReqLen[c] /\ \A k \in 1..Len(s) : s[k] = c
        BY <1>5, <2>1, <2>4
      <3>2. s # <<>> /\ 1 \in 1..Len(s) /\ Head(s) = s[1]
        BY <1>4, <2>2, <2>4, <3>1
      <3> QED
        BY <2>1, <3>1, <3>2
    <2> QED
      BY <2>2, <2>3, <2>4
  <1>8. /\ answer'[w] = a /\ (f \in Fd => answer'[w] = c)
        /\ \A v \in Worker : v # w => answer'[v] = answer[v]
    BY <1>0, <1>3, <1>7 DEF WorkerTypes
  <1>9. ppc'[p] = "respond" /\ \A q \in Proc : q # p => ppc'[q] = ppc[q]
    BY <1>0, <1>6 DEF ProcTypes
  <1>10. Types'
    <2>1. WorkerTypes'
      BY <1>0, <1>6, <1>7 DEF WorkerTypes
    <2>2. ProcTypes'
      BY <1>0, <1>6 DEF ProcTypes
    <2> QED
      BY <1>6, <2>1, <2>2, TypeFrame DEF ShellInv, Types
  <1>11. ClientInv' /\ Own' /\ AcceptInv' /\ Addresses' /\ Registered'
    BY <1>6, ClientFrame, AnswerFrame, AcceptFrame, AddressFrame, RegisterFrame
       DEF ShellInv, clientVars, kernelVars, acceptVars, sessionVars
  <1>12. ASSUME NEW v \in Worker PROVE Exchange(v)'
    <2>0. (NotClosing(v)' => NotClosing(v)) /\ Exchange(v)
      BY <1>6 DEF ShellInv, NotClosing, eventVars
    <2>1. CASE v = w /\ f \in Fd
      <3>1. c # None
        BY <1>4, <2>1, HttpAssumption
      <3>2. /\ sess'[w] = f /\ peer'[f] = c
            /\ \A k \in 1..Len(input'[w]) : input'[w][k] = c
            /\ Len(input'[w]) + unread'[c] = sent'[c]
            /\ answer'[w] = c /\ stat'[w] # 0 /\ Len(input'[w]) >= ReqLen[c]
            /\ mask'[f] = "in" => got'[c] = <<>> /\ pipe'[c] = <<>> /\ sendCnt'[w] = 0
            /\ NotClosing(w)' => Len(got'[c]) + Len(pipe'[c]) <= sendCnt'[w]
        <4>1. UNCHANGED <<sess, peer, mask, input, stat, sendCnt, got, pipe, sent, unread>> /\ stat[w] # 0
          BY <1>3, <1>6 DEF clientVars, kernelVars, sessionVars
        <4> QED
          BY <1>1, <1>5, <1>8, <2>0, <2>1, <4>1
      <3>3. Exchange(w)'
        BY <1>3, <1>4, <2>1, <3>1, <3>2, ExchangeAfter
      <3> QED
        BY <2>1, <3>3
    <2>3. CASE v = w /\ f \notin Fd
      BY <1>1, <1>6, <2>3 DEF Exchange, sessionVars
    <2>2. CASE v # w
      BY <1>6, <1>8, <2>0, <2>2, ExchangeFrame DEF clientVars, kernelVars, sessionVars
    <2> QED
      BY <2>1, <2>2, <2>3
  <1>13. Events'
    <2>1. \A v \in InBatch \union InEvent : v \in Worker /\ sess[v] \in Fd
      BY <1>0, EventWorker
    <2>2. \A v \in InBatch \union InEvent : answer'[v] \in {answer[v], peer[sess[v]]}
      BY <1>1, <1>8, <2>1
    <2> QED
      BY <1>0, <1>6, <2>2, EventsFrame DEF kernelVars, sessionVars, eventVars
  <1>14. Processing'
    <2>1. UNCHANGED <<sess, mask, stat, peer, queue, pw>>
      BY <1>6 DEF kernelVars, sessionVars, taskVars
    <2>6. Left' = Left /\ SomeLeft' = SomeLeft
      BY <1>6, LeftSame DEF clientVars, kernelVars, sessionVars
    <2>2. \A v \in Worker : Pending(v) => Pending(v)'
      BY <2>1, <2>6 DEF Pending
    <2>3. w # None /\ \A q \in Proc : q # p => pw[q] # w
      BY <1>0, <1>1, <1>3, HttpAssumption DEF Processing
    <2>4. ASSUME NEW q \in Proc PROVE ProcAt(q)'
      <3>0. ProcAt(q)
        BY <1>0 DEF Processing
      <3>1. CASE q = p
        <4>1. /\ pw'[p] = w /\ stat'[w] = 1 /\ sess'[w] # None /\ Pending(w)'
              /\ sess'[w] \in Fd => answer'[w] = peer'[sess'[w]]
          BY <1>1, <1>3, <1>8, <2>1, <2>2, HttpAssumption
        <4>2. Pending(pw[p])'
          BY <4>1 DEF Pending
        <4>3. ProcAt(p)'
          BY <1>3, <1>9, <4>1, <4>2 DEF ProcAt
        <4> QED
          BY <3>1, <4>3
      <3>2. CASE q # p
        <4>1. PICK v : v = pw[q]
          OBVIOUS
        <4>2. v # w
          BY <2>3, <3>2, <4>1
        <4> QED
          BY <1>8, <1>9, <2>1, <2>2, <3>0, <3>2, <4>1, <4>2, ProcFrame
      <3> QED
        BY <3>1, <3>2
    <2>5. InQueue' = InQueue /\ \A v \in InQueue : Pending(v)'
      BY <1>0, <2>1, <2>2, ProcessWorker DEF InQueue
    <2> QED
      BY <1>0, <2>1, <2>4, <2>5 DEF Processing
  <1> QED
    BY <1>10, <1>11, <1>12, <1>13, <1>14 DEF ShellInv

LEMMA writeResponseKeeps ==
    ASSUME ShellInv, StillLeft, ~race', NEW p \in Proc, writeResponse(p)
    PROVE  ShellInv'
  <1>0. Types /\ Processing /\ Events /\ Registered /\ ProcTypes
    BY DEF ShellInv, Types
  <1>1. PICK w, f, c : w = pw[p] /\ f = sess[w] /\ c = peer[f]
    OBVIOUS
  <1>2. ppc[p] = "respond" /\ ProcAt(p)
    BY <1>0 DEF writeResponse, Processing
  <1>3. /\ w \in Worker /\ Pending(w) /\ stat[w] = 1 /\ sess[w] # None
        /\ f \in Fd => answer[w] = c
    BY <1>1, <1>2 DEF ProcAt
  <1>4. f \in Fd => c \in Client /\ sock[w] = f /\ f # Closed /\ c # None
    BY <1>0, <1>1, <1>3, Session, HttpAssumption
  <1>15. f \in Fd \/ f = Closed
    BY <1>0, <1>1, <1>3 DEF Types, SessionTypes
  <1>6. /\ ppc' = [ppc EXCEPT ![p] = "done"]
        /\ UNCHANGED <<clientVars, peer, workerVars, sessionVars, taskVars, acceptVars,
                       cpc, eventVars, pw, mainVars>>
    BY DEF writeResponse
  <1>7. /\ f \in Fd => Arm(f, w, "out")
        /\ f = Closed => UNCHANGED <<mask, ptr>>
    <2>1. f \in Fd => Arm(f, w, "out")
      BY <1>1, <1>4 DEF writeResponse, Arm
    <2>2. ASSUME f = Closed
          PROVE  UNCHANGED <<mask, ptr>>
      <3>1. mask[sock[w]] = None
        BY <1>1, <2>2 DEF writeResponse
      <3> QED
        BY <1>1, <3>1 DEF writeResponse, Arm
    <2> QED
      BY <2>1, <2>2
  <1>8. /\ f \in Fd => mask'[f] = "out"
        /\ \A v \in Worker : v # w /\ sess[v] \in Fd => mask'[sess[v]] = mask[sess[v]]
    <2>1. CASE f \in Fd
      BY <1>0, <1>1, <1>3, <1>7, <2>1, ArmStep
    <2>2. CASE f = Closed
      BY <1>7, <2>2, HttpAssumption
    <2> QED
      BY <1>15, <2>1, <2>2
  <1>9. KernelTypes' /\ ClientInv' /\ Own' /\ Addresses' /\ AcceptInv' /\ Registered'
    <2>1. CASE f \in Fd
      BY <1>1, <1>3, <1>6, <1>7, <2>1, ArmedKeeps
    <2>2. CASE f = Closed
      <3>1. UNCHANGED <<clientVars, kernelVars, workerVars, sessionVars, acceptVars>>
        BY <1>6, <1>7, <2>2 DEF kernelVars
      <3> QED
        BY <3>1, TypeFrame, ClientFrame, AnswerFrame, AcceptFrame, AddressFrame, RegisterFrame
           DEF ShellInv, Types, clientVars, kernelVars, acceptVars, sessionVars, workerVars
    <2> QED
      BY <1>15, <2>1, <2>2
  <1>10. ppc'[p] = "done" /\ \A q \in Proc : q # p => ppc'[q] = ppc[q]
    BY <1>0, <1>6 DEF ProcTypes
  <1>11. Types'
    <2>1. ProcTypes'
      BY <1>0, <1>6 DEF ProcTypes
    <2> QED
      BY <1>6, <1>9, <2>1, TypeFrame DEF ShellInv, Types
  <1>12. ASSUME NEW v \in Worker PROVE Exchange(v)'
    <2>0. (NotClosing(v)' => NotClosing(v)) /\ Exchange(v)
      BY <1>6 DEF ShellInv, NotClosing, eventVars
    <2>1. CASE v = w /\ f \in Fd
      <3>1. /\ \A k \in 1..Len(input[w]) : input[w][k] = c
            /\ Len(input[w]) + unread[c] = sent[c] /\ Len(input[w]) >= ReqLen[c]
            /\ NotClosing(w) => Len(got[c]) + Len(pipe[c]) <= sendCnt[w]
        <4>1. /\ w \in Worker /\ f \in Fd /\ Exchange(w)
              /\ sess[w] = f /\ peer[f] = c /\ stat[w] = 1
          BY <1>1, <1>3, <2>0, <2>1
        <4>2. InProcess(w, f, c)
          BY <4>1, Exchanged
        <4> QED
          BY <4>2 DEF InProcess
      <3>2. /\ sess'[w] = f /\ peer'[f] = c /\ mask'[f] = "out"
            /\ \A k \in 1..Len(input'[w]) : input'[w][k] = c
            /\ Len(input'[w]) + unread'[c] = sent'[c]
            /\ answer'[w] = c /\ stat'[w] # 0 /\ Len(input'[w]) >= ReqLen[c]
            /\ NotClosing(w)' => Len(got'[c]) + Len(pipe'[c]) <= sendCnt'[w]
        <4>1. UNCHANGED <<sess, peer, input, answer, stat, sendCnt, got, pipe, sent, unread>> /\ stat[w] # 0
          BY <1>3, <1>6 DEF clientVars, workerVars, sessionVars
        <4> QED
          BY <1>1, <1>3, <1>8, <2>0, <2>1, <3>1, <4>1
      <3>3. Exchange(w)'
        BY <1>3, <1>4, <2>1, <3>2, ExchangeAfter
      <3> QED
        BY <2>1, <3>3
    <2>3. CASE v = w /\ f \notin Fd
      BY <1>1, <1>6, <2>3 DEF Exchange, sessionVars
    <2>2. CASE v # w
      BY <1>6, <1>8, <2>0, <2>2, ExchangeFrame DEF clientVars, workerVars, sessionVars
    <2> QED
      BY <2>1, <2>2, <2>3
  <1>16. Left' = Left /\ SomeLeft' = SomeLeft
    BY <1>6, LeftSame DEF clientVars, sessionVars
  <1>13. Events'
    <2>1. \A v \in InBatch \union InEvent : v \in Worker /\ sess[v] \in Fd /\ (v = w => v \in Left')
      BY <1>0, <1>3, <1>16, NoEvent, EventWorker
    <2> QED
      BY <1>0, <1>6, <1>8, <2>1, EventsFrame DEF workerVars, sessionVars, eventVars
  <1>14. Processing'
    <2>1. UNCHANGED <<sess, stat, peer, queue, pw, answer>>
      BY <1>6 DEF workerVars, sessionVars, taskVars
    <2>2. \A v \in Worker : v # w /\ Pending(v) => Pending(v)'
      BY <1>8, <1>16, <2>1 DEF Pending
    <2>3. w # None /\ w \notin InQueue /\ \A q \in Proc : q # p => pw[q] # w
      BY <1>0, <1>1, <1>3, HttpAssumption DEF Processing
    <2>4. ASSUME NEW q \in Proc PROVE ProcAt(q)'
      <3>0. ProcAt(q)
        BY <1>0 DEF Processing
      <3>1. CASE q = p
        <4>1. pw'[p] = w /\ stat'[w] = 1 /\ sess'[w] # None
          BY <1>1, <1>3, <2>1, HttpAssumption
        <4>2. ProcAt(p)'
          BY <1>3, <1>10, <4>1 DEF ProcAt
        <4> QED
          BY <3>1, <4>2
      <3>2. CASE q # p
        <4>1. PICK v : v = pw[q]
          OBVIOUS
        <4>2. v # w
          BY <2>3, <3>2, <4>1
        <4> QED
          BY <1>10, <2>1, <2>2, <3>0, <3>2, <4>1, <4>2, ProcFrame
      <3> QED
        BY <3>1, <3>2
    <2>5. InQueue' = InQueue /\ \A v \in InQueue : Pending(v)'
      BY <1>0, <2>1, <2>2, <2>3, ProcessWorker DEF InQueue
    <2> QED
      BY <1>0, <2>1, <2>4, <2>5 DEF Processing
  <1> QED
    BY <1>9, <1>11, <1>12, <1>13, <1>14 DEF ShellInv

LEMMA DoneKeeps ==
    ASSUME ShellInv, StillLeft, NEW p \in Proc, Done(p)
    PROVE  ShellInv'
  <1>0. Types /\ Processing /\ Events /\ Registered /\ ProcTypes /\ WorkerTypes
    BY DEF ShellInv, Types
  <1>1. PICK w : w = pw[p]
    OBVIOUS
  <1>2. ppc[p] = "done" /\ ProcAt(p)
    BY <1>0 DEF Done, Processing
  <1>3. w \in Worker /\ stat[w] = 1
    BY <1>1, <1>2 DEF ProcAt
  <1>4. /\ stat' = [stat EXCEPT ![w] = 2]
        /\ ppc' = [ppc EXCEPT ![p] = "get"] /\ pw' = [pw EXCEPT ![p] = None]
        /\ UNCHANGED <<clientVars, kernelVars, sock, input, answer, sendCnt, sessionVars, taskVars,
                       acceptVars, cpc, eventVars, mainVars>>
    BY <1>1 DEF Done
  <1>5. stat'[w] = 2 /\ \A v \in Worker : v # w => stat'[v] = stat[v]
    BY <1>0, <1>3, <1>4 DEF WorkerTypes
  <1>6. ppc'[p] = "get" /\ pw'[p] = None /\ \A q \in Proc : q # p => ppc'[q] = ppc[q] /\ pw'[q] = pw[q]
    BY <1>0, <1>4 DEF ProcTypes
  <1>7. Types'
    <2>1. stat' \in [Worker -> 0..2]
      <3>1. stat \in [Worker -> 0..2] /\ 2 \in 0..2
        BY <1>0 DEF WorkerTypes
      <3> QED
        BY <1>4, <3>1
    <2>2. WorkerTypes'
      BY <1>0, <1>4, <2>1 DEF WorkerTypes
    <2>3. ProcTypes'
      BY <1>0, <1>4 DEF ProcTypes
    <2> QED
      BY <1>4, <2>2, <2>3, TypeFrame DEF ShellInv, Types
  <1>8. ClientInv' /\ Own' /\ AcceptInv' /\ Addresses' /\ Registered'
    BY <1>4, ClientFrame, AnswerFrame, AcceptFrame, AddressFrame, RegisterFrame
       DEF ShellInv, clientVars, kernelVars, acceptVars, sessionVars
  <1>9. ASSUME NEW v \in Worker PROVE Exchange(v)'
    <2>0. (NotClosing(v)' => NotClosing(v)) /\ Exchange(v)
      BY <1>4 DEF ShellInv, NotClosing, eventVars
    <2>1. CASE v = w
      <3>1. UNCHANGED <<sess, peer, mask, input, answer, sendCnt, got, pipe, sent, unread>>
        BY <1>4 DEF clientVars, kernelVars, sessionVars
      <3>2. stat[w] # 0 /\ stat'[w] # 0
        BY <1>3, <1>5
      <3> QED
        BY <2>0, <2>1, <3>1, <3>2 DEF Exchange, Complete, Unanswered, NotClosing
    <2>2. CASE v # w
      BY <1>4, <1>5, <2>0, <2>2, ExchangeFrame DEF clientVars, kernelVars, sessionVars
    <2> QED
      BY <2>1, <2>2
  <1>10. Events'
    <2>1. \A v \in InBatch \union InEvent : v \in Worker /\ (stat[v] = 0 => stat'[v] = 0)
      BY <1>0, <1>3, <1>5, EventWorker
    <2> QED
      BY <1>0, <1>4, <2>1, EventsFrame DEF kernelVars, sessionVars, eventVars
  <1>11. Processing'
    <2>1. UNCHANGED <<sess, mask, peer, queue, answer>>
      BY <1>4 DEF kernelVars, sessionVars, taskVars
    <2>7. Left' = Left /\ SomeLeft' = SomeLeft
      BY <1>4, LeftSame DEF clientVars, kernelVars, sessionVars
    <2>2. \A v \in Worker : v # w /\ Pending(v) => Pending(v)'
      BY <1>5, <2>1, <2>7 DEF Pending
    <2>3. w # None /\ w \notin InQueue /\ \A q \in Proc : q # p => pw[q] # w
      BY <1>0, <1>1, <1>3, HttpAssumption DEF Processing
    <2>4. ASSUME NEW q \in Proc PROVE ProcAt(q)'
      <3>0. ProcAt(q)
        BY <1>0 DEF Processing
      <3>1. CASE q = p
        BY <1>6, <3>1 DEF ProcAt
      <3>2. CASE q # p
        <4>1. PICK v : v = pw[q]
          OBVIOUS
        <4>2. v # w
          BY <2>3, <3>2, <4>1
        <4> QED
          BY <1>5, <1>6, <2>1, <2>2, <3>0, <3>2, <4>1, <4>2, ProcFrame
      <3> QED
        BY <3>1, <3>2
    <2>5. InQueue' = InQueue /\ None \notin InQueue /\ \A v \in InQueue : Pending(v)'
      BY <1>0, <2>1, <2>2, <2>3, ProcessWorker, HttpAssumption DEF InQueue
    <2>6. OnceEach(queue')
      BY <1>0, <2>1 DEF Processing, OnceEach
    <2> QED
      BY <1>0, <1>6, <2>4, <2>5, <2>6, ProcStep
  <1> QED
    BY <1>7, <1>8, <1>9, <1>10, <1>11 DEF ShellInv

-----------------------------------------------------------------------------
(* The stop. *)

LEMMA StopProcessorsKeeps ==
    ASSUME ShellInv, StillLeft, StopProcessors
    PROVE  ShellInv'
  <1>1. /\ mpc = -1 /\ mpc' = 0 /\ stopTask' = stopTask /\ open' = FALSE /\ queue' = queue
        /\ UNCHANGED <<clientVars, kernelVars, workerVars, sessionVars, acceptVars, cpc, eventVars, procVars>>
    BY DEF StopProcessors, Tasks!Close
  <1>2. Types'
    <2>1. TaskTypes'
      BY <1>1 DEF ShellInv, Types, TaskTypes
    <2>2. Len(Threads) \in Nat
      BY AddressAssumption
    <2>3. MainTypes'
      BY <1>1, <2>2 DEF ShellInv, Types, MainTypes
    <2> QED
      BY <1>1, <2>1, <2>3, TypeFrame DEF ShellInv, Types
  <1>3. Processing'
    BY <1>1, QuietProcess DEF ShellInv, kernelVars, workerVars, sessionVars, procVars
  <1> QED
    BY <1>1, <1>2, <1>3, QuietProc

LEMMA JoinKeeps ==
    ASSUME ShellInv, StillLeft, Join
    PROVE  ShellInv'
  <1>0. Types /\ Events /\ Registered /\ EventTypes /\ MainTypes /\ AcceptTypes
    BY DEF ShellInv, Types
  <1>1. /\ mpc = 0 \/ mpc \in DOMAIN Threads
        /\ mpc' = mpc + 1 /\ stopTask' = TRUE
        /\ UNCHANGED <<clientVars, kernelVars, workerVars, sessionVars, taskVars, afd, cpc, batch,
                       ew, efd, procVars>>
    BY DEF Join
  <1>2. apc' = apc \/ (apc = "accept" /\ apc' = "exit")
    BY DEF Join, Signal
  <1>3. \/ epc' = epc /\ emutex' = emutex
        \/ \E t \in Event : epc[t] = "wait" /\ epc' = [epc EXCEPT ![t] = "exit"] /\ emutex' = None
    BY DEF Join, Signal
  <1>4. /\ EventTypes' /\ Events'
        /\ \A w \in Worker : NotClosing(w)' => NotClosing(w)
    <2>0. UNCHANGED <<batch, ew, efd, sess, mask, peer, stat, input, answer>>
      BY <1>1 DEF kernelVars, workerVars, sessionVars
    <2>1. CASE epc' = epc /\ emutex' = emutex
      <3>1. EventTypes' /\ \A w \in Worker : NotClosing(w)' => NotClosing(w)
        BY <1>0, <2>0, <2>1 DEF EventTypes, NotClosing
      <3>2. Events'
        BY <1>0, <2>0, <2>1, EventsFrame
      <3> QED
        BY <3>1, <3>2
    <2>2. ASSUME NEW t \in Event, epc[t] = "wait", epc' = [epc EXCEPT ![t] = "exit"], emutex' = None
          PROVE  /\ EventTypes' /\ Events'
                 /\ \A w \in Worker : NotClosing(w)' => NotClosing(w)
      <3>1. EventTypes' /\ OnlyThread(t) /\ epc'[t] = "exit"
        BY <1>0, <2>0, <2>2 DEF EventTypes, OnlyThread
      <3>2. ew[t] = None
        BY <1>0, <2>2 DEF Events, EventAt
      <3>3. EventAt(t)' /\ ~Submits(t)'
        BY <2>0, <3>1, <3>2 DEF EventAt, Submits
      <3>6. \A v \in Worker : v \in InHand(t) => Held(v, t)
        BY <2>0 DEF Held
      <3>4. Events'
        BY <1>0, <2>0, <3>1, <3>3, <3>6, EventStep
      <3>5. \A w \in Worker : NotClosing(w)' => NotClosing(w)
        BY <2>2, <3>1, ClosingFrame
      <3> QED
        BY <3>1, <3>4, <3>5
    <2> QED
      BY <1>3, <2>1, <2>2
  <1>5. Types'
    <2>1. Len(Threads) \in Nat /\ DOMAIN Threads = 1..Len(Threads)
      BY AddressAssumption
    <2>2. MainTypes'
      BY <1>0, <1>1, <2>1 DEF MainTypes
    <2>3. AcceptTypes'
      BY <1>0, <1>1, <1>2 DEF AcceptTypes
    <2> QED
      BY <1>1, <1>4, <2>2, <2>3, TypeFrame DEF ShellInv, Types
  <1>6. ClientInv' /\ Own'
    BY <1>1, ClientFrame, AnswerFrame DEF ShellInv, clientVars, kernelVars
  <1>7. AcceptInv' /\ Addresses' /\ Registered'
    BY <1>1, <1>2 DEF ShellInv, AcceptInv, Unanswered, Addresses, Registered, clientVars, kernelVars,
                      workerVars, sessionVars
  <1>8. ASSUME NEW w \in Worker PROVE Exchange(w)'
    BY <1>1, <1>4, ExchangeFrame DEF ShellInv, clientVars, kernelVars, workerVars, sessionVars
  <1>9. Processing'
    BY <1>1, QuietProcess DEF ShellInv, kernelVars, workerVars, sessionVars, taskVars, procVars
  <1> QED
    BY <1>4, <1>5, <1>6, <1>7, <1>8, <1>9 DEF ShellInv

LEMMA StutterKeeps ==
    ASSUME ShellInv, StillLeft, UNCHANGED vars
    PROVE  ShellInv'
  <1>1. UNCHANGED <<clientVars, kernelVars, workerVars, sessionVars, taskVars, acceptVars, cpc,
                    eventVars, procVars, mainVars>>
    BY DEF vars
  <1>2. Types'
    BY <1>1, TypeFrame DEF ShellInv, Types
  <1>3. Processing'
    BY <1>1, QuietProcess DEF ShellInv, kernelVars, workerVars, sessionVars, taskVars, procVars
  <1> QED
    BY <1>1, <1>2, <1>3, QuietProc

-----------------------------------------------------------------------------
(* The invariant and what follows from it. *)

LEMMA InitShell ==
    ASSUME Init
    PROVE  ShellInv
  <1>1. Types
    <2>1. Len(Threads) \in Nat
      BY AddressAssumption
    <2>2. ClientTypes /\ KernelTypes
      BY HttpAssumption DEF Init, ClientTypes, KernelTypes
    <2>3. WorkerTypes /\ SessionTypes /\ TaskTypes /\ AcceptTypes
      BY DEF Init, WorkerTypes, SessionTypes, TaskTypes, AcceptTypes
    <2>4. EventTypes /\ ProcTypes
      BY DEF Init, EventTypes, ProcTypes
    <2>5. MainTypes /\ cpc \in {"run", "exit"}
      <3>1. stopTask = FALSE /\ mpc = -1 /\ cpc = "run"
        BY DEF Init
      <3>2. -1 \in -1..(Len(Threads) + 1)
        BY <2>1
      <3> QED
        BY <3>1, <3>2 DEF MainTypes
    <2> QED
      BY <2>2, <2>3, <2>4, <2>5 DEF Types
  <1>2. ClientInv /\ AcceptInv
    BY DEF Init, ClientInv, AcceptInv, Unanswered
  <1>3. Addresses
    <2>1. /\ {w \in Worker : sess[w] \in Fd} = {} /\ {w \in Worker : sess[w] # None} = {}
          /\ {c \in Client : link[c] # "new"} = {}
      BY HttpAssumption DEF Init
    <2>2. Cardinality({}) = 0
      BY FS_EmptySet
    <2>3. nowConn = 0 /\ apc # "create"
      BY DEF Init
    <2>4. 0 + 0 <= 0
      OBVIOUS
    <2> QED
      BY <2>1, <2>2, <2>3, <2>4 DEF Addresses
  <1>4. Registered /\ \A w \in Worker : Exchange(w)
    <2>1. None \notin Fd /\ \A w \in Worker : sess[w] = None
      BY HttpAssumption DEF Init
    <2>2. \A f \in Fd : mask[f] = None /\ peer[f] = None
      BY DEF Init
    <2>3. apc # "create"
      BY DEF Init
    <2>4. Registered
      BY <2>1, <2>2, <2>3 DEF Registered
    <2>5. ASSUME NEW w \in Worker PROVE Exchange(w)
      <3>1. sess[w] \notin Fd
        BY <2>1
      <3> QED
        BY <3>1, Zenon DEF Exchange
    <2> QED
      BY <2>4, <2>5
  <1>5. Events
    <2>1. batch = {} /\ \A t \in Event : epc[t] = "lock" /\ ew[t] = None
      BY DEF Init
    <2>2. \A t \in Event : EventAt(t) /\ ~Submits(t)
      BY <2>1 DEF EventAt, Submits
    <2> QED
      BY <2>1, <2>2 DEF Events
  <1>6. Processing
    <2>1. InQueue = {} /\ Len(queue) = 0
      BY DEF Init, InQueue
    <2>2. \A p \in Proc : ProcAt(p)
      BY DEF Init, ProcAt
    <2>3. \A p \in Proc : pw[p] = None
      BY DEF Init
    <2> QED
      BY <2>1, <2>2, <2>3 DEF Processing
  <1>7. Own
    <2>1. \A c \in Client : got[c] \o pipe[c] = <<>> /\ RespLen[c] \in Nat
      BY HttpAssumption DEF Init
    <2>2. Len(<<>>) = 0 /\ 1..0 = {}
      OBVIOUS
    <2>3. ASSUME NEW c \in Client
          PROVE  LET s == got[c] \o pipe[c] IN Len(s) <= RespLen[c] /\ \A i \in 1..Len(s) : s[i] = c
      <3>1. got[c] \o pipe[c] = <<>>
        BY <2>1
      <3>2. 0 <= RespLen[c]
        BY <2>1
      <3> QED
        BY <2>2, <3>1, <3>2
    <2> QED
      BY <2>3 DEF Own
  <1> QED
    BY <1>1, <1>2, <1>3, <1>4, <1>5, <1>6, <1>7 DEF ShellInv

LEMMA NextShell ==
    ASSUME ShellInv, StillLeft, ~race', [Next]_vars
    PROVE  ShellInv'
  <1>1. ASSUME NEW c \in Client, Send(c) \/ Receive(c) \/ Leave(c) \/ Accept(c)
        PROVE  ShellInv'
    BY <1>1, SendKeeps, ReceiveKeeps, LeaveKeeps, AcceptKeeps
  <1>2. ASSUME AcceptFails \/ createSession \/ CleanSvc
        PROVE  ShellInv'
    BY <1>2, AcceptFailsKeeps, createSessionKeeps, checkUnreleaseWorkerKeeps, CleanerEndsKeeps DEF CleanSvc
  <1>3. ASSUME NEW t \in Event, EventSvc(t)
        PROVE  ShellInv'
    BY <1>3, LockKeeps, WaitKeeps, ReadKeeps, ArmInputKeeps, submitWorkerKeeps, WriteKeeps, closeSessionKeeps
       DEF EventSvc
  <1>4. ASSUME NEW p \in Proc, ProcSvc(p)
        PROVE  ShellInv'
    BY <1>4, GetKeeps, ExitKeeps, doWorkKeeps, writeResponseKeeps, DoneKeeps DEF ProcSvc
  <1>5. ASSUME Join \/ StopProcessors
        PROVE  ShellInv'
    BY <1>5, JoinKeeps, StopProcessorsKeeps
  <1>6. ASSUME UNCHANGED vars
        PROVE  ShellInv'
    BY <1>6, StutterKeeps
  <1> QED
    BY <1>1, <1>2, <1>3, <1>4, <1>5, <1>6 DEF Next, Server

\* What a client has done is not undone, whatever the server does.
Maps ==
    /\ link = [c \in Client |-> link[c]] /\ sent = [c \in Client |-> sent[c]]
    /\ got = [c \in Client |-> got[c]]

LEMMA Stays ==
    ASSUME Maps, [Next]_vars
    PROVE  Maps' /\ StillLeft
  <1>1. ASSUME UNCHANGED <<link, sent, got>>
        PROVE  Maps' /\ StillLeft
    BY <1>1 DEF Maps, StillLeft, LeftWaiting, Phase
  <1>2. ASSUME NEW c \in Client, Send(c)
        PROVE  Maps' /\ StillLeft
    <2>1. /\ link[c] = "up" /\ UNCHANGED <<link, got>>
          /\ sent' = [sent EXCEPT ![c] = sent[c] + 1]
      BY <1>2 DEF Send
    <2>2. sent' = [d \in Client |-> sent'[d]] /\ \A d \in Client : d # c => sent'[d] = sent[d]
      BY <2>1 DEF Maps
    <2> QED
      BY <2>1, <2>2 DEF Maps, StillLeft, LeftWaiting, Phase
  <1>3. ASSUME NEW c \in Client, Receive(c)
        PROVE  Maps' /\ StillLeft
    <2>1. /\ link[c] = "up" /\ UNCHANGED <<link, sent>>
          /\ got' = [got EXCEPT ![c] = Append(got[c], Head(pipe[c]))]
      BY <1>3 DEF Receive
    <2>2. got' = [d \in Client |-> got'[d]] /\ \A d \in Client : d # c => got'[d] = got[d]
      BY <2>1 DEF Maps
    <2> QED
      BY <2>1, <2>2 DEF Maps, StillLeft, LeftWaiting, Phase
  <1>4. ASSUME NEW c \in Client, Leave(c) \/ Accept(c)
        PROVE  Maps' /\ StillLeft
    <2>1. PICK x : link' = [link EXCEPT ![c] = x] /\ link[c] # "gone" /\ UNCHANGED <<sent, got>>
      BY <1>4 DEF Leave, Accept
    <2>2. link' = [d \in Client |-> link'[d]] /\ \A d \in Client : d # c => link'[d] = link[d]
      BY <2>1 DEF Maps
    <2> QED
      BY <2>1, <2>2 DEF Maps, StillLeft, LeftWaiting, Phase
  <1>5. AcceptFails \/ createSession \/ CleanSvc \/ Join \/ StopProcessors => UNCHANGED <<link, sent, got>>
    BY DEF AcceptFails, createSession, CleanSvc, checkUnreleaseWorker, CleanerEnds, Join, StopProcessors,
           clientVars
  <1>6. ASSUME NEW t \in Event, EventSvc(t)
        PROVE  UNCHANGED <<link, sent, got>>
    BY <1>6 DEF EventSvc, Lock, Wait, Read, ArmInput, submitWorker, Write, closeSession, clientVars
  <1>7. ASSUME NEW p \in Proc, ProcSvc(p)
        PROVE  UNCHANGED <<link, sent, got>>
    BY <1>7 DEF ProcSvc, Get, Exit, doWork, writeResponse, Done, clientVars
  <1>8. UNCHANGED vars => UNCHANGED <<link, sent, got>>
    BY DEF vars, clientVars
  <1> QED
    BY <1>1, <1>2, <1>3, <1>4, <1>5, <1>6, <1>7, <1>8 DEF Next, Server

\* The two steps that record race, and what they show of a client.
LEMMA RaceStep ==
    ASSUME ShellInv, [Next]_vars, ~race, race \in BOOLEAN
    PROVE  race' \in BOOLEAN /\ (race' => SomeLeft)
  <1>1. ASSUME NEW t \in Event, closeSession(t)
        PROVE  race' \in BOOLEAN /\ (race' => SomeLeft)
    <2>1. race' \in BOOLEAN /\ (race' => ew[t] \in InHand(t))
      BY <1>1 DEF closeSession
    <2>2. ASSUME ew[t] \in InHand(t)
          PROVE  ew[t] \in Left
      <3>1. ew[t] # None
        BY <1>1, HttpAssumption DEF ShellInv, Events, EventAt, EventOf, closeSession
      <3> QED
        BY <2>2, <3>1 DEF ShellInv, Events, InHand
    <2>3. ew[t] \in Left => SomeLeft
      BY HttpAssumption DEF ShellInv, Types, KernelTypes, Registered, Left, SomeLeft
    <2> QED
      BY <2>1, <2>2, <2>3
  <1>2. ASSUME NEW p \in Proc, writeResponse(p)
        PROVE  race' \in BOOLEAN /\ (race' => SomeLeft)
    <2>1. race' \in BOOLEAN /\ (race' => sess[pw[p]] = Closed) /\ ppc[p] = "respond"
      BY <1>2 DEF writeResponse
    <2> QED
      BY <2>1 DEF ShellInv, Processing, ProcAt, Pending
  <1>3. ASSUME NEW c \in Client, Send(c) \/ Receive(c) \/ Leave(c) \/ Accept(c)
        PROVE  UNCHANGED race
    BY <1>3 DEF Send, Receive, Leave, Accept
  <1>4. AcceptFails \/ createSession \/ CleanSvc \/ Join \/ StopProcessors \/ UNCHANGED vars => UNCHANGED race
    BY DEF AcceptFails, createSession, CleanSvc, checkUnreleaseWorker, CleanerEnds, Join, StopProcessors, vars
  <1>5. ASSUME NEW t \in Event, EventSvc(t)
        PROVE  closeSession(t) \/ UNCHANGED race
    BY <1>5 DEF EventSvc, Lock, Wait, Read, ArmInput, submitWorker, Write
  <1>6. ASSUME NEW p \in Proc, ProcSvc(p)
        PROVE  writeResponse(p) \/ UNCHANGED race
    BY <1>6 DEF ProcSvc, Get, Exit, doWork, Done
  <1>7. UNCHANGED race => race' \in BOOLEAN /\ (race' => SomeLeft)
    OBVIOUS
  <1> QED
    BY <1>1, <1>2, <1>3, <1>4, <1>5, <1>6, <1>7 DEF Next, Server

LEMMA RaceStays ==
    ASSUME [Next]_vars, race \in BOOLEAN
    PROVE  race' \in BOOLEAN /\ (race => race')
  <1>1. ASSUME NEW c \in Client, Send(c) \/ Receive(c) \/ Leave(c) \/ Accept(c)
        PROVE  UNCHANGED race
    BY <1>1 DEF Send, Receive, Leave, Accept
  <1>2. AcceptFails \/ createSession \/ CleanSvc \/ Join \/ StopProcessors \/ UNCHANGED vars => UNCHANGED race
    BY DEF AcceptFails, createSession, CleanSvc, checkUnreleaseWorker, CleanerEnds, Join, StopProcessors, vars
  <1>3. ASSUME NEW t \in Event, EventSvc(t)
        PROVE  race' \in BOOLEAN /\ (race => race')
    BY <1>3 DEF EventSvc, Lock, Wait, Read, ArmInput, submitWorker, Write, closeSession
  <1>4. ASSUME NEW p \in Proc, ProcSvc(p)
        PROVE  race' \in BOOLEAN /\ (race => race')
    BY <1>4 DEF ProcSvc, Get, Exit, doWork, writeResponse, Done
  <1> QED
    BY <1>1, <1>2, <1>3, <1>4 DEF Next, Server

\* The inductive invariant: until race is recorded, the exchange of every open
\* session, the events of its worker and the processing of its request fit
\* together; and race is not recorded before a client has left while it waited.
FrontInv ==
    /\ Maps /\ race \in BOOLEAN
    /\ race => SomeLeft
    /\ ~race => ShellInv

\* No assumption is made of when the clients leave.
THEOREM ShellInvariant == Spec => []FrontInv
  <1>1. Init => FrontInv
    <2> SUFFICES ASSUME Init PROVE FrontInv
      OBVIOUS
    <2>1. Maps /\ race = FALSE
      BY DEF Init, Maps
    <2> QED
      BY <2>1, InitShell DEF FrontInv
  <1>2. FrontInv /\ [Next]_vars => FrontInv'
    <2> SUFFICES ASSUME FrontInv, [Next]_vars PROVE FrontInv'
      OBVIOUS
    <2>1. Maps' /\ StillLeft
      BY Stays DEF FrontInv
    <2>2. race' \in BOOLEAN /\ (race => race')
      BY RaceStays DEF FrontInv
    <2>3. SomeLeft => SomeLeft'
      BY <2>1, LeftFrame
    <2>4. race' => SomeLeft'
      BY <2>3, RaceStep DEF FrontInv
    <2>5. ~race' => ShellInv'
      BY <2>1, <2>2, NextShell DEF FrontInv
    <2> QED
      BY <2>1, <2>2, <2>4, <2>5 DEF FrontInv
  <1> QED
    BY <1>1, <1>2, PTL DEF Spec

\* What race records is the work of clients that leave between the end of their
\* request and the first part of the answer: if none does, no session is closed
\* under another event, and no answer is armed on a foreign connection.
THEOREM RaceNeedsLeaving == Spec => [](race => SomeLeft)
  <1>1. FrontInv => (race => SomeLeft)
    BY DEF FrontInv
  <1> QED
    BY <1>1, ShellInvariant, PTL

\* The sessions, the descriptors and the registrations with epoll agree, and
\* _now_connections counts the sessions: what createSession, closeSession and
\* checkUnreleaseWorker keep, with the types.
THEOREM SessionsAgree == Spec => []HttpInv
  <1>1. FrontInv => HttpInv
    <2> SUFFICES ASSUME FrontInv, ~race PROVE TypeOK /\ Sessions
      BY DEF HttpInv
    <2>1. TypeOK
      BY TypeParts DEF FrontInv, ShellInv
    <2>2. Sessions
      BY DEF FrontInv, ShellInv, Addresses, Registered, Sessions
    <2> QED
      BY <2>1, <2>2
  <1> QED
    BY <1>1, ShellInvariant, PTL

\* Until race is recorded, checkUnreleaseWorker deletes no worker that a
\* thread, the task queue or the array of events still refers to, although
\* sessions are closed while their requests wait or are processed.
THEOREM NoDangling == Spec => []NoUseAfterFree
  <1>1. FrontInv => NoUseAfterFree
    <2> SUFFICES ASSUME FrontInv, ~race PROVE NoUseAfterFree
      BY DEF NoUseAfterFree
    <2>1. Types /\ Events /\ Processing /\ None \notin Fd
      BY HttpAssumption DEF FrontInv, ShellInv
    <2>2. \A w \in InBatch \union InEvent : sess[w] # None
      BY <2>1, EventWorker
    <2>3. \A w \in InQueue : sess[w] # None
      BY <2>1, ProcessWorker DEF Pending
    <2>4. \A w \in InProc : sess[w] # None
      BY <2>1, ProcessWorker DEF InProc
    <2> QED
      BY <2>2, <2>3, <2>4 DEF NoUseAfterFree
  <1> QED
    BY <1>1, ShellInvariant, PTL

\* A worker is submitted once and processed by one processor, and an event
\* thread has it to itself unless its client has left while it waited:
\* EPOLLONESHOT and the order of mod_input_fd, mod_output_fd and the answer are
\* enough, without a lock in HttpWorker.
THEOREM OneThread == Spec => []Alone
  <1>1. FrontInv => Alone
    <2> SUFFICES ASSUME FrontInv, ~race PROVE Alone
      BY DEF Alone
    <2>1. Types /\ Events /\ Processing
      BY DEF FrontInv, ShellInv
    <2>2. \A t, u \in Event : ew[t] # None /\ ew[t] = ew[u] => t = u \/ ew[t] \in Left
      BY <2>1 DEF Events
    <2>3. InBatch \intersect InEvent \subseteq Left
      BY <2>1 DEF Events, InBatch, InEvent
    <2>4. \A w \in InQueue : w \in Worker /\ Pending(w) /\ (w \in InEvent \union InBatch => w \in Left)
      BY <2>1, ProcessWorker, NoEvent
    <2>5. InQueue \intersect InProc = {}
      BY <2>1 DEF Processing, InProc
    <2>6. ASSUME NEW p \in Proc, ppc[p] \in {"work", "respond"}, pw[p] \in InEvent \union InBatch
          PROVE  pw[p] \in Left
      <3>1. PICK w : w = pw[p]
        OBVIOUS
      <3>2. ProcAt(p)
        BY <2>1 DEF Processing
      <3>3. w \in Worker /\ Pending(w)
        BY <2>6, <3>1, <3>2 DEF ProcAt
      <3> QED
        BY <2>1, <2>6, <3>1, <3>3, NoEvent
    <2>7. /\ \A i, j \in 1..Len(queue) : queue[i] = queue[j] => i = j
          /\ \A p, q \in Proc : pw[p] # None /\ pw[p] = pw[q] => p = q
      BY <2>1 DEF Processing
    <2> QED
      BY <2>2, <2>3, <2>4, <2>5, <2>6, <2>7 DEF Alone
  <1> QED
    BY <1>1, ShellInvariant, PTL

\* A client receives nothing but the answer to its own request, and no part of
\* it twice, although descriptors and workers are used again, an answer may be
\* written in any number of pieces, and other clients leave at any moment;
\* until race records that an answer is armed on a foreign connection.
THEOREM AnswerIsOwn == Spec => []OwnAnswer
  <1>1. FrontInv => OwnAnswer
    BY DEF FrontInv, ShellInv, Own, OwnAnswer
  <1> QED
    BY <1>1, ShellInvariant, PTL

=============================================================================
