--------------------------- MODULE MQServerProofs ---------------------------
(***************************************************************************)
(* The message queue server for any number of requests, processors, breaks *)
(* and restarts: its backlog is bounded, no request vanishes, and none is  *)
(* answered twice unless the broker has delivered it twice.                *)
(***************************************************************************)
EXTENDS MQServer, FiniteSetTheorems, TLAPS

Elems(s) == {s[i] : i \in 1..Len(s)}
Once(s, x) == \A i, j \in 1..Len(s) : s[i] = x /\ s[j] = x => i = j

Busy == {"work", "lock", "publish", "republish", "unlock"}

\* How far the start, the consumer and the processors are, and what they hold
\* there.  The queue is closed only when the consumer has ended, so that it
\* never loses a task; the consumer is the only one that puts, so that what it
\* saw in IsReady still bounds the queue when it submits.
Stages ==
    /\ mpc = "init" =>
        /\ cpc = "off" /\ \A p \in Proc : ppc[p] \in {"off", "barrier"}
        /\ ids = Cardinality({p \in Proc : ppc[p] # "off"})
    /\ \A p \in Proc : ppc[p] \in Busy <=> task[p] # None
    /\ cpc \in {"ack", "submit"} <=> cmsg # None
    /\ cpc = "ack" => broker # <<>> /\ cmsg = Head(broker)
    /\ ~open => cpc = "exit"
    /\ cpc \in {"consume", "ack", "submit"} => Len(queue) <= Cardinality(Proc) * Factor

\* A processor is done with a request when its answer is out or given up.
Settled ==
    \A p \in Proc :
        ppc[p] = "unlock" => answers[task[p]] > 0 \/ task[p] \in dropped

\* The places a request goes through: before the delivery, on the way to the
\* queue, in it, with a processor that has not answered yet, and answered.
Submitting == IF cpc = "submit" THEN {cmsg} ELSE {}
Working(p) == ppc[p] \in Busy \ {"unlock"}
InWork == {task[p] : p \in {q \in Proc : Working(q)}}

\* A request that was not delivered again is in one of these places, once.
OneCopy ==
    \A r \in Request \ again :
        /\ Once(broker, r) /\ Once(queue, r)
        /\ \A p, q \in Proc : Working(p) /\ Working(q) /\ task[p] = r /\ task[q] = r => p = q
        /\ r \in unsent => r \notin InBroker \union Submitting \union Elems(queue) \union InWork
        /\ r \in InBroker => r \notin Submitting \union Elems(queue) \union InWork
        /\ r \in Submitting => r \notin Elems(queue) \union InWork
        /\ r \in Elems(queue) => r \notin InWork
        /\ answers[r] <= 1
        /\ answers[r] > 0 =>
            r \notin unsent \union InBroker \union Submitting \union Elems(queue) \union InWork

\* The connection on which the answers are published belongs to one thread.
PublishAlone ==
    \A p \in Proc : ppc[p] \in {"publish", "republish", "unlock"} <=> pmutex = p

ServerInv == TypeOK /\ BacklogBounded /\ Stages /\ Settled /\ NothingVanishes /\ OneCopy
             /\ PublishAlone

-----------------------------------------------------------------------------
(* The operations on the sequences. *)

LEMMA Appended ==
    ASSUME NEW s \in Seq(Request), NEW r \in Request, NEW t, t = Append(s, r)
    PROVE  /\ t \in Seq(Request) /\ t # <<>>
           /\ s # <<>> => Head(t) = Head(s)
           /\ Elems(t) = Elems(s) \union {r}
           /\ \A x : Once(s, x) /\ (x # r \/ x \notin Elems(s)) => Once(t, x)
  <1>1. /\ t \in Seq(Request) /\ Len(t) = Len(s) + 1 /\ Len(s) \in Nat
        /\ \A i \in 1..Len(t) : t[i] = IF i <= Len(s) THEN s[i] ELSE r
    OBVIOUS
  <1>2. s # <<>> => Head(t) = Head(s)
    OBVIOUS
  <1>3. Elems(t) = Elems(s) \union {r}
    BY <1>1 DEF Elems
  <1>4. \A x : Once(s, x) /\ (x # r \/ x \notin Elems(s)) => Once(t, x)
    BY <1>1 DEF Elems, Once
  <1> QED
    BY <1>1, <1>2, <1>3, <1>4

LEMMA Tailed ==
    ASSUME NEW s \in Seq(Request), s # <<>>, NEW t, t = Tail(s)
    PROVE  /\ t \in Seq(Request) /\ Head(s) \in Elems(s)
           /\ Elems(s) = Elems(t) \union {Head(s)}
           /\ \A x : Once(s, x) => Once(t, x) /\ (x = Head(s) => x \notin Elems(t))
  <1>1. /\ t \in Seq(Request) /\ Len(s) = Len(t) + 1 /\ Len(t) \in Nat
        /\ \A i \in 1..Len(t) : t[i] = s[i + 1] /\ i + 1 \in 1..Len(s)
        /\ \A i \in 2..Len(s) : s[i] = t[i - 1] /\ i - 1 \in 1..Len(t)
        /\ Head(s) = s[1] /\ 1 \in 1..Len(s)
    OBVIOUS
  <1>2. Elems(s) = Elems(t) \union {Head(s)}
    BY <1>1 DEF Elems
  <1>3. \A x : Once(s, x) => Once(t, x) /\ (x = Head(s) => x \notin Elems(t))
    BY <1>1 DEF Elems, Once
  <1> QED
    BY <1>1, <1>2, <1>3 DEF Elems

LEMMA PutFirst ==
    ASSUME NEW s \in Seq(Request), NEW r \in Request, NEW t, t = <<r>> \o s
    PROVE  /\ t \in Seq(Request) /\ Len(t) = Len(s) + 1
           /\ Elems(t) = Elems(s) \union {r}
           /\ \A x : Once(s, x) /\ (x # r \/ x \notin Elems(s)) => Once(t, x)
  <1>1. /\ t \in Seq(Request) /\ Len(t) = Len(s) + 1 /\ Len(s) \in Nat
        /\ \A i \in 1..Len(t) : t[i] = IF i = 1 THEN r ELSE s[i - 1]
        /\ \A i \in 1..Len(s) : s[i] = t[i + 1] /\ i + 1 \in 1..Len(t)
        /\ t[1] = r /\ 1 \in 1..Len(t)
    OBVIOUS
  <1>2. Elems(t) = Elems(s) \union {r}
    BY <1>1 DEF Elems
  <1>3. \A x : Once(s, x) /\ (x # r \/ x \notin Elems(s)) => Once(t, x)
    BY <1>1 DEF Elems, Once
  <1> QED
    BY <1>1, <1>2, <1>3

LEMMA FunctionIsSeq ==
    ASSUME NEW n \in Nat, NEW t \in [1..n -> Request]
    PROVE  t \in Seq(Request) /\ Len(t) = n
  OBVIOUS

\* The oldest task leaves the queue.
LEMMA Taken ==
    ASSUME TypeOK, NEW r \in Request, Tasks!Take(r)
    PROVE  /\ queue' \in Seq(Request) /\ Len(queue') = Len(queue) - 1 /\ open' = open
           /\ r \in Elems(queue) /\ Elems(queue) = Elems(queue') \union {r}
           /\ \A x : Once(queue, x) => Once(queue', x) /\ (x = r => x \notin Elems(queue'))
  <1>1. /\ queue \in Seq(Request) /\ queue # <<>> /\ r = queue[Len(queue)]
        /\ queue' = SubSeq(queue, 1, Len(queue) - 1) /\ open' = open
    BY DEF Tasks!Take, TypeOK
  <1>2. /\ Len(queue) \in Nat /\ Len(queue) > 0 /\ Len(queue) - 1 \in Nat
        /\ \A i \in 1..Len(queue) - 1 : queue[i] \in Request
    BY <1>1
  <1>3. queue' = [i \in 1..Len(queue) - 1 |-> queue[i]]
    BY <1>1, <1>2
  <1>4. queue' \in Seq(Request) /\ Len(queue') = Len(queue) - 1
    BY <1>2, <1>3, FunctionIsSeq
  <1>5. /\ \A i \in 1..Len(queue') : queue'[i] = queue[i] /\ i \in 1..Len(queue)
        /\ \A i \in 1..Len(queue) : i # Len(queue) => i \in 1..Len(queue')
        /\ Len(queue) \in 1..Len(queue) /\ queue[Len(queue)] = r
    BY <1>1, <1>2, <1>3, <1>4
  <1>6. r \in Elems(queue) /\ Elems(queue) = Elems(queue') \union {r}
    BY <1>5 DEF Elems
  <1>7. \A x : Once(queue, x) => Once(queue', x) /\ (x = r => x \notin Elems(queue'))
    BY <1>2, <1>4, <1>5 DEF Elems, Once
  <1> QED
    BY <1>1, <1>4, <1>6, <1>7

-----------------------------------------------------------------------------
(* The types, the stages and the backlog. *)

\* What IsReady allows with the threads that have their number is no more than
\* what it allows with all of them.
LEMMA Allowed ==
    ASSUME NEW n \in Nat, NEW m \in Nat, m <= n, NEW k \in Nat
    PROVE  m * k <= n * k /\ m * k \in Nat /\ n * k \in Nat
  OBVIOUS

\* Processors that take their numbers are counted.
LEMMA Counted ==
    ASSUME NEW S \in SUBSET Proc, NEW p \in Proc, p \notin S
    PROVE  /\ Cardinality(S) \in Nat /\ Cardinality(Proc) \in Nat
           /\ Cardinality(S \union {p}) = Cardinality(S) + 1
           /\ Cardinality(S \union {p}) <= Cardinality(Proc)
  <1>1. IsFiniteSet(S) /\ IsFiniteSet(S \union {p}) /\ IsFiniteSet(Proc)
    BY ServerAssumption, FS_Subset, FS_AddElement
  <1> QED
    BY <1>1, FS_AddElement, FS_CardinalityType, FS_Subset

LEMMA NoneCounted == Cardinality({}) = 0 /\ Cardinality(Proc) \in Nat
  BY ServerAssumption, FS_EmptySet, FS_CardinalityType

LEMMA TypesKept ==
    ASSUME TypeOK, Stages, [Next]_vars
    PROVE  TypeOK'
  <1> USE ServerAssumption
  <1>0. Cardinality(Proc) \in Nat
    BY NoneCounted
  <1>1. CASE \E r \in Request : Send(r)
    BY <1>1, Appended DEF Send, TypeOK, taskVars, consumerVars, procVars, producerVars,
          mainVars, faultVars, auxVars
  <1>2. CASE Break
    <2>1. breaks' \in 0..MaxBreak
      BY <1>2 DEF Break, TypeOK
    <2>2. cconn' \in BOOLEAN /\ pconn' \in BOOLEAN
      BY <1>2 DEF Break, TypeOK
    <2> QED
      BY <1>2, <2>1, <2>2 DEF Break, TypeOK, taskVars, procVars, mainVars, auxVars
  <1>3. CASE Kill
    <2>1. kills' \in 0..MaxKill
      BY <1>3 DEF Kill, TypeOK
    <2>2. again' \subseteq Request /\ dropped' \subseteq Request
      BY <1>3 DEF Kill, InProcess, TypeOK, Stages
    <2>3. ids' \in 0..Cardinality(Proc)
      BY <1>0, <1>3 DEF Kill, Boot
    <2> QED
      BY <1>3, <2>1, <2>2, <2>3 DEF Kill, Boot, TypeOK
  <1>4. ASSUME NEW p \in Proc, TakeId(p)
        PROVE  TypeOK'
    <2> DEFINE S == {q \in Proc : ppc[q] # "off"}
    <2>1. ids = Cardinality(S) /\ p \notin S /\ S \subseteq Proc
      BY <1>4, Zenon DEF TakeId, Stages
    <2> HIDE DEF S
    <2>2. /\ Cardinality(S) \in Nat /\ Cardinality(Proc) \in Nat
          /\ Cardinality(S) + 1 <= Cardinality(Proc)
      BY <2>1, Counted
    <2>3. ids + 1 \in 0..Cardinality(Proc)
      BY <2>1, <2>2
    <2> QED
      BY <1>4, <2>3 DEF TakeId, TypeOK, taskVars, consumerVars, producerVars, mainVars,
          faultVars, auxVars
  <1>5. ASSUME NEW p \in Proc, Get(p)
        PROVE  TypeOK'
    <2>1. PICK r \in Request : Tasks!Take(r) /\ task' = [task EXCEPT ![p] = r]
      BY <1>5 DEF Get
    <2>2. queue' \in Seq(Request) /\ open' = open
      BY <2>1, Taken
    <2> QED
      BY <1>5, <2>1, <2>2 DEF Get, TypeOK, consumerVars, producerVars, mainVars, faultVars, auxVars
  <1>6. ASSUME NEW p \in Proc, Exit(p) \/ Work(p) \/ Lock(p) \/ Republish(p) \/ Unlock(p)
        PROVE  TypeOK'
    <2>1. CASE Exit(p) \/ Work(p)
      BY <2>1 DEF Exit, Work, TypeOK, taskVars, consumerVars, producerVars, mainVars, faultVars,
            auxVars
    <2>2. CASE Lock(p) \/ Republish(p)
      BY <2>2 DEF Lock, Republish, TypeOK, taskVars, consumerVars, mainVars, faultVars, auxVars
    <2>3. CASE Unlock(p)
      BY <2>3 DEF Unlock, TypeOK, taskVars, consumerVars, mainVars, faultVars, auxVars
    <2> QED
      BY <1>6, <2>1, <2>2, <2>3
  <1>7. ASSUME NEW p \in Proc, Publish(p) \/ PublishFailed(p)
        PROVE  TypeOK'
    <2>1. task[p] \in Request
      BY <1>7 DEF Publish, PublishFailed, TypeOK, Stages, Busy
    <2>2. CASE Publish(p)
      BY <2>1, <2>2 DEF Publish, TypeOK, taskVars, consumerVars, producerVars, mainVars, faultVars
    <2>3. CASE PublishFailed(p)
      BY <2>1, <2>3 DEF PublishFailed, TypeOK, taskVars, consumerVars, producerVars, mainVars, faultVars
    <2> QED
      BY <1>7, <2>2, <2>3
  <1>8. CASE Started \/ stop \/ Flush
    BY <1>8 DEF Started, stop, Flush, Tasks!Close, TypeOK, taskVars, consumerVars, procVars,
          producerVars, faultVars, auxVars
  <1>9. CASE Ended
    BY <1>9 DEF Ended, InProcess, TypeOK, taskVars, consumerVars, procVars, producerVars, faultVars
  <1>10. CASE Check \/ Reconnect
    BY <1>10 DEF Check, Reconnect, TypeOK, taskVars, procVars, producerVars, mainVars,
          faultVars, auxVars
  <1>11. CASE Deliver
    BY <1>11, Tailed DEF Deliver, TypeOK, taskVars, procVars, producerVars, mainVars,
          faultVars, auxVars
  <1>12. CASE Ack
    <2>1. broker' \in Seq(Request) /\ cmsg \in Request
      BY <1>12, Tailed DEF Ack, TypeOK, Stages
    <2> QED
      BY <1>12, <2>1 DEF Ack, AfterAck, TypeOK, taskVars, procVars, producerVars, mainVars, faultVars
  <1>13. CASE AckLost
    <2>1. cmsg \in Request
      BY <1>13 DEF AckLost, TypeOK, Stages
    <2>2. breaks' \in 0..MaxBreak
      BY <1>13 DEF AckLost, TypeOK
    <2> QED
      BY <1>13, <2>1, <2>2 DEF AckLost, AfterAck, TypeOK, taskVars, procVars, producerVars, mainVars
  <1>14. CASE SubmitTask
    <2>1. cmsg \in Request
      BY <1>14 DEF SubmitTask, TypeOK, Stages
    <2>2. queue' \in Seq(Request) /\ open' = open
      BY <1>14, <2>1, PutFirst DEF SubmitTask, Tasks!Put, TypeOK
    <2> QED
      BY <1>14, <2>2 DEF SubmitTask, TypeOK, procVars, producerVars, mainVars, faultVars, auxVars
  <1>15. CASE UNCHANGED vars
    BY <1>15 DEF vars, TypeOK, taskVars, consumerVars, procVars, producerVars, mainVars,
          faultVars, auxVars
  <1> QED
    BY <1>1, <1>2, <1>3, <1>4, <1>5, <1>6, <1>7, <1>8, <1>9, <1>10, <1>11, <1>12, <1>13,
       <1>14, <1>15 DEF Next, Svc, Consume

LEMMA StagesKept ==
    ASSUME TypeOK, Stages, [Next]_vars
    PROVE  Stages'
  <1> USE ServerAssumption
  <1>0. Cardinality(Proc) \in Nat /\ Cardinality(Proc) * Factor \in Nat
    BY NoneCounted, Allowed
  <1>1. ASSUME NEW r \in Request, Send(r)
        PROVE  Stages'
    <2>1. broker \in Seq(Request) /\ broker' = Append(broker, r)
      BY <1>1 DEF Send, TypeOK
    <2>2. broker' # <<>> /\ (broker # <<>> => Head(broker') = Head(broker))
      BY <2>1, Appended
    <2> QED
      BY <1>1, <2>2 DEF Send, Stages, taskVars, consumerVars, procVars, mainVars
  <1>2. CASE Break
    BY <1>2 DEF Break, Stages, taskVars, procVars, mainVars
  <1>3. CASE Kill
    <2>1. {p \in Proc : ppc'[p] # "off"} = {} /\ ids' = 0
      BY <1>3 DEF Kill, Boot
    <2>2. ids' = Cardinality({p \in Proc : ppc'[p] # "off"})
      BY <2>1, NoneCounted
    <2> QED
      BY <1>0, <1>3, <2>2 DEF Kill, Boot, Stages, Busy
  <1>4. ASSUME NEW p \in Proc, TakeId(p)
        PROVE  Stages'
    <2> DEFINE S == {q \in Proc : ppc[q] # "off"}
    <2>1. ids = Cardinality(S) /\ p \notin S /\ S \subseteq Proc
      BY <1>4, Zenon DEF TakeId, Stages
    <2>2. {q \in Proc : ppc'[q] # "off"} = S \union {p}
      BY <1>4 DEF TakeId, TypeOK
    <2>3. ids' = Cardinality(S) + 1
      BY <1>4, <2>1 DEF TakeId
    <2> HIDE DEF S
    <2>4. ids' = Cardinality({q \in Proc : ppc'[q] # "off"})
      BY <2>1, <2>2, <2>3, Counted
    <2> QED
      BY <1>4, <2>4 DEF TakeId, Stages, Busy, TypeOK, taskVars, consumerVars, mainVars
  <1>5. ASSUME NEW p \in Proc, Get(p)
        PROVE  Stages'
    <2>1. PICK r \in Request : Tasks!Take(r) /\ task' = [task EXCEPT ![p] = r]
      BY <1>5 DEF Get
    <2>2. Len(queue') <= Len(queue) /\ open' = open /\ Len(queue) \in Nat /\ Len(queue') \in Nat
      BY <2>1, Taken DEF TypeOK
    <2>3. mpc # "init"
      BY <1>5 DEF Get, Stages
    <2> QED
      BY <1>0, <1>5, <2>1, <2>2, <2>3 DEF Get, Stages, Busy, TypeOK, consumerVars, mainVars
  <1>6. ASSUME NEW p \in Proc,
               Exit(p) \/ Work(p) \/ Lock(p) \/ Publish(p) \/ Republish(p) \/ PublishFailed(p)
        PROVE  Stages'
    BY <1>6 DEF Exit, Work, Lock, Publish, Republish, PublishFailed, Stages, Busy, TypeOK,
          taskVars, consumerVars, mainVars
  <1>7. ASSUME NEW p \in Proc, Unlock(p)
        PROVE  Stages'
    BY <1>7 DEF Unlock, Stages, Busy, TypeOK, taskVars, consumerVars, mainVars
  <1>8. CASE Started \/ stop \/ Flush \/ Ended
    BY <1>8 DEF Started, stop, Flush, Ended, Tasks!Close, Stages, Busy, taskVars, consumerVars,
          procVars
  <1>9. CASE Check
    <2>1. ids \in Nat /\ ids <= Cardinality(Proc) /\ Len(queue) \in Nat
      BY <1>0 DEF TypeOK
    <2>2. ids * Factor <= Cardinality(Proc) * Factor /\ ids * Factor \in Nat
      BY <1>0, <2>1, Allowed
    <2>3. IsReady => Len(queue) <= Cardinality(Proc) * Factor
      BY <1>0, <2>1, <2>2 DEF IsReady
    <2> QED
      BY <1>9, <2>3 DEF Check, Stages, taskVars, procVars, mainVars
  <1>10. CASE Deliver
    BY <1>10, Tailed DEF Deliver, Stages, TypeOK, taskVars, procVars, mainVars
  <1>11. CASE Ack \/ AckLost
    BY <1>11 DEF Ack, AckLost, AfterAck, Stages, taskVars, procVars, mainVars
  <1>12. CASE Reconnect
    BY <1>12 DEF Reconnect, Stages, taskVars, procVars, mainVars
  <1>13. CASE SubmitTask
    BY <1>13 DEF SubmitTask, Tasks!Put, Stages, procVars, mainVars
  <1>14. CASE UNCHANGED vars
    BY <1>14 DEF vars, Stages, taskVars, consumerVars, procVars, mainVars
  <1> QED
    BY <1>1, <1>2, <1>3, <1>4, <1>5, <1>6, <1>7, <1>8, <1>9, <1>10, <1>11, <1>12, <1>13,
       <1>14 DEF Next, Svc, Consume

\* Between IsReady and SubmitTask nobody else puts a task into the queue.
LEMMA BacklogKept ==
    ASSUME TypeOK, Stages, BacklogBounded, [Next]_vars
    PROVE  BacklogBounded'
  <1> USE ServerAssumption
  <1>0. Cardinality(Proc) \in Nat /\ Cardinality(Proc) * Factor \in Nat /\ Len(queue) \in Nat
    BY NoneCounted, Allowed DEF TypeOK
  <1>1. CASE SubmitTask
    <2>1. cmsg \in Request /\ Len(queue) <= Cardinality(Proc) * Factor /\ queue \in Seq(Request)
      BY <1>1 DEF SubmitTask, TypeOK, Stages
    <2>2. queue' = queue \/ queue' = <<cmsg>> \o queue
      BY <1>1 DEF SubmitTask, Tasks!Put
    <2>3. Len(queue') <= Len(queue) + 1
      BY <1>0, <2>1, <2>2, PutFirst
    <2>4. Len(queue') \in Nat
      BY <1>0, <2>1, <2>2, PutFirst
    <2> QED
      BY <1>0, <2>1, <2>3, <2>4 DEF BacklogBounded
  <1>2. ASSUME NEW p \in Proc, Get(p)
        PROVE  BacklogBounded'
    <2>1. PICK r \in Request : Tasks!Take(r)
      BY <1>2 DEF Get
    <2>2. Len(queue') = Len(queue) - 1
      BY <2>1, Taken
    <2> QED
      BY <1>0, <2>2 DEF BacklogBounded
  <1>3. CASE Kill
    BY <1>0, <1>3 DEF Kill, Boot, BacklogBounded
  <1>4. CASE queue' = queue
    BY <1>4 DEF BacklogBounded
  <1>5. \/ SubmitTask \/ Kill \/ queue' = queue
        \/ \E p \in Proc : Get(p)
    BY DEF Next, Svc, Consume, Send, Break, TakeId, Exit, Work, Lock, Publish, Republish,
          PublishFailed, Unlock, Started, stop, Flush, Tasks!Close, Ended, Check, Deliver, Ack,
          AckLost, Reconnect, vars, taskVars
  <1> QED
    BY <1>1, <1>2, <1>3, <1>4, <1>5

-----------------------------------------------------------------------------
(* No request vanishes. *)

LEMMA SettledKept ==
    ASSUME TypeOK, Stages, Settled, [Next]_vars
    PROVE  Settled'
  <1>1. ASSUME NEW p \in Proc, Publish(p)
        PROVE  Settled'
    <2>1. task[p] \in Request /\ \A q \in Proc : task[q] \in Request \union {None}
      BY <1>1 DEF Publish, TypeOK, Stages, Busy
    <2>2. answers'[task[p]] > 0 /\ \A r \in Request : answers[r] > 0 => answers'[r] > 0
      BY <1>1, <2>1 DEF Publish, TypeOK
    <2>3. \A q \in Proc : ppc[q] = "unlock" => task[q] \in Request
      BY <2>1 DEF Stages, Busy
    <2> QED
      BY <1>1, <2>1, <2>2, <2>3 DEF Publish, Settled, TypeOK
  <1>2. ASSUME NEW p \in Proc, PublishFailed(p)
        PROVE  Settled'
    BY <1>2 DEF PublishFailed, Settled, TypeOK
  <1>3. ASSUME NEW p \in Proc,
               TakeId(p) \/ Exit(p) \/ Work(p) \/ Lock(p) \/ Republish(p)
        PROVE  Settled'
    BY <1>3 DEF TakeId, Exit, Work, Lock, Republish, Settled, TypeOK, auxVars
  <1>4. ASSUME NEW p \in Proc, Get(p) \/ Unlock(p)
        PROVE  Settled'
    BY <1>4 DEF Get, Unlock, Settled, TypeOK, auxVars
  <1>5. CASE Started \/ Kill
    BY <1>5 DEF Started, Kill, Boot, Settled
  <1>6. ASSUME UNCHANGED procVars, UNCHANGED answers, dropped \subseteq dropped'
        PROVE  Settled'
    BY <1>6 DEF Settled, procVars
  <1>7. \/ \E p \in Proc : TakeId(p) \/ Svc(p)
        \/ Started \/ Kill
        \/ UNCHANGED procVars /\ UNCHANGED answers /\ dropped \subseteq dropped'
    BY DEF Next, Consume, Send, Break, stop, Flush, Ended, Check, Deliver, Ack,
          AckLost, Reconnect, SubmitTask, vars, procVars, auxVars
  <1> QED
    BY <1>1, <1>2, <1>3, <1>4, <1>5, <1>6, <1>7 DEF Svc

LEMMA NothingVanishesKept ==
    ASSUME TypeOK, Stages, Settled, NothingVanishes, [Next]_vars
    PROVE  NothingVanishes'
  <1> USE ServerAssumption
  <1>0. /\ InBroker = Elems(broker)
        /\ InProcess = Elems(queue) \union {task[p] : p \in Proc} \union {cmsg}
        /\ InBroker' = Elems(broker')
        /\ InProcess' = Elems(queue') \union {task'[p] : p \in Proc} \union {cmsg'}
    BY DEF InBroker, InProcess, Elems
  <1>1. ASSUME NEW r \in Request, Send(r)
        PROVE  NothingVanishes'
    <2>1. Elems(broker') = Elems(broker) \union {r}
      BY <1>1, Appended DEF Send, TypeOK
    <2> QED
      BY <1>0, <1>1, <2>1 DEF Send, NothingVanishes, taskVars, consumerVars, procVars, auxVars
  <1>2. CASE Kill
    BY <1>0, <1>2 DEF Kill, NothingVanishes
  <1>3. ASSUME NEW p \in Proc, Get(p)
        PROVE  NothingVanishes'
    <2>1. PICK r \in Request : Tasks!Take(r) /\ task' = [task EXCEPT ![p] = r]
      BY <1>3 DEF Get
    <2>2. Elems(queue) = Elems(queue') \union {r}
      BY <2>1, Taken
    <2>3. task[p] = None
      BY <1>3 DEF Get, Stages, Busy
    <2>4. \A x \in Request : x \in {task[q] : q \in Proc} => x \in {task'[q] : q \in Proc}
      BY <2>1, <2>3 DEF TypeOK
    <2>5. r \in {task'[q] : q \in Proc}
      BY <2>1 DEF TypeOK
    <2>6. \A x \in Request : x \in InProcess => x \in InProcess'
      BY <1>0, <1>3, <2>2, <2>4, <2>5 DEF Get, consumerVars
    <2> QED
      BY <1>0, <1>3, <2>6 DEF Get, NothingVanishes, auxVars
  <1>4. ASSUME NEW p \in Proc, Publish(p)
        PROVE  NothingVanishes'
    <2>1. task[p] \in Request
      BY <1>4 DEF Publish, TypeOK, Stages, Busy
    <2>2. \A r \in Request : answers[r] > 0 => answers'[r] > 0
      BY <1>4, <2>1 DEF Publish, TypeOK
    <2>3. InProcess' = InProcess /\ InBroker' = InBroker
      BY <1>0, <1>4 DEF Publish, taskVars, consumerVars
    <2> QED
      BY <1>4, <2>2, <2>3 DEF Publish, NothingVanishes
  <1>5. ASSUME NEW p \in Proc, Unlock(p)
        PROVE  NothingVanishes'
    <2>1. answers[task[p]] > 0 \/ task[p] \in dropped
      BY <1>5 DEF Unlock, Settled
    <2>2. \A x \in Request : x \in {task[q] : q \in Proc} => x = task[p] \/ x \in {task'[q] : q \in Proc}
      BY <1>5 DEF Unlock, TypeOK
    <2>3. \A x \in Request : x \in InProcess => x = task[p] \/ x \in InProcess'
      BY <1>0, <1>5, <2>2 DEF Unlock, taskVars, consumerVars
    <2> QED
      BY <1>0, <1>5, <2>1, <2>3 DEF Unlock, NothingVanishes, auxVars
  <1>6. CASE Deliver
    <2>1. cmsg = None
      BY <1>6 DEF Deliver, Stages
    <2>2. \A x \in Request : x \in InProcess => x \in InProcess'
      BY <1>0, <1>6, <2>1 DEF Deliver, taskVars, procVars
    <2> QED
      BY <1>0, <1>6, <2>2 DEF Deliver, NothingVanishes, auxVars
  <1>7. CASE Ack
    <2>1. Elems(broker) = Elems(broker') \union {cmsg}
      BY <1>7, Tailed DEF Ack, TypeOK, Stages
    <2>2. \A x \in Request : x \in InProcess => x \in InProcess' \/ x \in dropped'
      BY <1>0, <1>7 DEF Ack, taskVars, procVars
    <2>3. cmsg \in InProcess' \/ cmsg \in dropped'
      BY <1>0, <1>7 DEF Ack
    <2> QED
      BY <1>0, <1>7, <2>1, <2>2, <2>3 DEF Ack, NothingVanishes
  <1>8. CASE AckLost
    <2>1. cmsg \in InBroker
      <3>1. broker \in Seq(Request) /\ broker # <<>> /\ cmsg = Head(broker)
        BY <1>8 DEF AckLost, TypeOK, Stages
      <3> QED
        BY <1>0, <3>1, Tailed
    <2>2. \A x \in Request : x \in InProcess => x \in InProcess' \/ x = cmsg
      BY <1>0, <1>8 DEF AckLost, taskVars, procVars
    <2> QED
      BY <1>0, <1>8, <2>1, <2>2 DEF AckLost, NothingVanishes
  <1>9. CASE SubmitTask
    <2>1. cmsg \in Request /\ open
      BY <1>9 DEF SubmitTask, TypeOK, Stages
    <2>2. Elems(queue') = Elems(queue) \union {cmsg}
      BY <1>9, <2>1, PutFirst DEF SubmitTask, Tasks!Put, TypeOK
    <2>3. \A x \in Request : x \in InProcess => x \in InProcess'
      BY <1>0, <1>9, <2>2 DEF SubmitTask, procVars
    <2> QED
      BY <1>0, <1>9, <2>3 DEF SubmitTask, NothingVanishes, auxVars
  <1>10. ASSUME UNCHANGED <<unsent, broker, queue, task, cmsg, answers>>, dropped \subseteq dropped'
        PROVE  NothingVanishes'
    BY <1>0, <1>10 DEF NothingVanishes
  <1>11. \/ \E r \in Request : Send(r)
         \/ Kill \/ Deliver \/ Ack \/ AckLost \/ SubmitTask
         \/ \E p \in Proc : Get(p) \/ Publish(p) \/ Unlock(p)
         \/ UNCHANGED <<unsent, broker, queue, task, cmsg, answers>> /\ dropped \subseteq dropped'
    BY DEF Next, Svc, Consume, Break, TakeId, Exit, Work, Lock, Republish, PublishFailed,
          Started, stop, Flush, Tasks!Close, Ended, Check, Reconnect, vars, taskVars, procVars,
          consumerVars, auxVars
  <1> QED
    BY <1>1, <1>2, <1>3, <1>4, <1>5, <1>6, <1>7, <1>8, <1>9, <1>10, <1>11

-----------------------------------------------------------------------------
(* One copy of a request. *)

\* A step that only takes requests out of their places keeps OneCopy.
LEMMA Fewer ==
    ASSUME OneCopy, UNCHANGED <<unsent, broker, answers>>, again \subseteq again',
           queue' = queue \/ queue' = <<>>,
           Submitting' \subseteq Submitting,
           \A p \in Proc : Working(p)' => Working(p) /\ task'[p] = task[p]
    PROVE  OneCopy'
  <1>1. InBroker' = InBroker
    BY DEF InBroker
  <1>2. Elems(queue') \subseteq Elems(queue) /\ \A x : Once(queue, x) => Once(queue', x)
    BY DEF Elems, Once
  <1>3. InWork' \subseteq InWork
    BY DEF InWork
  <1> QED
    BY <1>1, <1>2, <1>3 DEF OneCopy

LEMMA OneCopyKept ==
    ASSUME TypeOK, Stages, OneCopy, [Next]_vars
    PROVE  OneCopy'
  <1> USE ServerAssumption
  <1>0. InBroker = Elems(broker) /\ InBroker' = Elems(broker')
    BY DEF InBroker, Elems
  <1>1. ASSUME NEW r \in Request, Send(r)
        PROVE  OneCopy'
    <2>1. broker \in Seq(Request) /\ broker' = Append(broker, r) /\ r \in unsent
      BY <1>1 DEF Send, TypeOK
    <2>2. /\ InBroker' = InBroker \union {r}
          /\ \A x : Once(broker, x) /\ (x # r \/ x \notin InBroker) => Once(broker', x)
      BY <1>0, <2>1, Appended
    <2>3. Submitting' = Submitting /\ InWork' = InWork /\ \A p \in Proc : Working(p)' = Working(p)
      BY <1>1 DEF Send, Submitting, InWork, Working, consumerVars, procVars
    <2>4. /\ unsent' = unsent \ {r}
          /\ UNCHANGED <<queue, task, answers, again>>
      BY <1>1 DEF Send, taskVars, procVars, auxVars
    <2> QED
      BY <2>1, <2>2, <2>3, <2>4 DEF OneCopy
  <1>2. CASE Kill
    <2>1. Submitting' = {} /\ (\A p \in Proc : ~Working(p)') /\ queue' = <<>>
      BY <1>2 DEF Kill, Boot, Submitting, Working, Busy
    <2> QED
      BY <1>2, <2>1, Fewer DEF Kill
  <1>3. ASSUME NEW p \in Proc, Get(p)
        PROVE  OneCopy'
    <2>1. PICK r \in Request : Tasks!Take(r) /\ task' = [task EXCEPT ![p] = r]
      BY <1>3 DEF Get
    <2>2. /\ r \in Elems(queue) /\ Elems(queue) = Elems(queue') \union {r}
          /\ \A x : Once(queue, x) => Once(queue', x) /\ (x = r => x \notin Elems(queue'))
      BY <2>1, Taken
    <2>3. /\ ~Working(p) /\ task'[p] = r
          /\ \A q \in Proc : q # p => Working(q)' = Working(q) /\ task'[q] = task[q]
      BY <1>3, <2>1 DEF Get, Working, Busy, TypeOK
    <2>4. InWork' \subseteq InWork \union {r}
      BY <2>3 DEF InWork
    <2>5. Submitting' = Submitting /\ InBroker' = InBroker /\ UNCHANGED <<unsent, broker, answers, again>>
      BY <1>3 DEF Get, Submitting, InBroker, consumerVars, auxVars
    <2>6. \A x \in Request \ again : x \in InWork' => x \in InWork \/ x = r
      BY <2>4
    <2>7. \A q \in Proc : Working(q) => task[q] \in InWork
      BY DEF InWork
    <2> QED
      BY <2>2, <2>3, <2>5, <2>6, <2>7 DEF OneCopy
  <1>4. ASSUME NEW p \in Proc, Publish(p)
        PROVE  OneCopy'
    <2>1. task[p] \in Request /\ Working(p) /\ ~Working(p)' /\ task[p] \in InWork
      BY <1>4 DEF Publish, Working, InWork, Busy, TypeOK, Stages
    <2>2. \A q \in Proc : q # p => Working(q)' = Working(q) /\ task'[q] = task[q]
      BY <1>4 DEF Publish, Working, TypeOK
    <2>3. InWork' \subseteq InWork
      BY <2>1, <2>2 DEF InWork
    <2>4. task[p] \notin again => task[p] \notin InWork'
      BY <2>1, <2>2 DEF InWork, OneCopy
    <2>5. /\ Submitting' = Submitting /\ InBroker' = InBroker /\ UNCHANGED <<unsent, broker, queue, again>>
          /\ answers' = [answers EXCEPT ![task[p]] = @ + 1]
      BY <1>4 DEF Publish, Submitting, InBroker, taskVars, consumerVars
    <2>6. \A x \in Request \ again : x # task[p] => answers'[x] = answers[x]
      BY <2>1, <2>5 DEF TypeOK
    <2>7. task[p] \notin again => answers'[task[p]] = 1
      <3>1. task[p] \notin again => ~(answers[task[p]] > 0)
        BY <2>1 DEF OneCopy
      <3> QED
        BY <2>1, <2>5, <3>1 DEF TypeOK
    <2> QED
      BY <2>1, <2>2, <2>3, <2>4, <2>5, <2>6, <2>7 DEF OneCopy
  <1>5. CASE Ack
    <2>1. broker \in Seq(Request) /\ broker # <<>> /\ cmsg = Head(broker) /\ broker' = Tail(broker)
      BY <1>5 DEF Ack, TypeOK, Stages
    <2>2. /\ InBroker = InBroker' \union {cmsg}
          /\ \A x : Once(broker, x) => Once(broker', x) /\ (x = cmsg => x \notin InBroker')
      BY <1>0, <2>1, Tailed
    <2>3. Submitting = {} /\ Submitting' \subseteq {cmsg}
      BY <1>5 DEF Ack, AfterAck, Submitting
    <2>4. /\ InWork' = InWork /\ \A p \in Proc : Working(p)' = Working(p)
          /\ UNCHANGED <<unsent, queue, task, answers, again>>
      BY <1>5 DEF Ack, InWork, Working, taskVars, procVars
    <2> QED
      BY <2>2, <2>3, <2>4 DEF OneCopy
  <1>6. CASE AckLost
    <2>1. again' = again \union {cmsg} /\ Submitting' \subseteq {cmsg}
      BY <1>6 DEF AckLost, AfterAck, Submitting
    <2>2. /\ InWork' = InWork /\ InBroker' = InBroker /\ \A p \in Proc : Working(p)' = Working(p)
          /\ UNCHANGED <<unsent, broker, queue, task, answers>>
      BY <1>6 DEF AckLost, InWork, InBroker, Working, taskVars, procVars
    <2> QED
      BY <2>1, <2>2 DEF OneCopy
  <1>7. CASE SubmitTask
    <2>1. cmsg \in Request /\ open /\ Submitting = {cmsg} /\ Submitting' = {}
      BY <1>7 DEF SubmitTask, Submitting, TypeOK, Stages
    <2>2. queue \in Seq(Request) /\ queue' = <<cmsg>> \o queue
      BY <1>7, <2>1 DEF SubmitTask, Tasks!Put, TypeOK
    <2>3. /\ Elems(queue') = Elems(queue) \union {cmsg}
          /\ \A x : Once(queue, x) /\ (x # cmsg \/ x \notin Elems(queue)) => Once(queue', x)
      BY <2>1, <2>2, PutFirst
    <2>4. /\ InWork' = InWork /\ InBroker' = InBroker /\ \A p \in Proc : Working(p)' = Working(p)
          /\ UNCHANGED <<unsent, broker, task, answers, again>>
      BY <1>7 DEF SubmitTask, InWork, InBroker, Working, procVars, auxVars
    <2> QED
      BY <2>1, <2>3, <2>4 DEF OneCopy
  <1>8. ASSUME NEW p \in Proc,
               \/ TakeId(p) \/ Exit(p) \/ Work(p) \/ Lock(p)
               \/ Republish(p) \/ PublishFailed(p) \/ Unlock(p)
        PROVE  OneCopy'
    <2>1. \A q \in Proc : Working(q)' => Working(q) /\ task'[q] = task[q]
      BY <1>8 DEF TakeId, Exit, Work, Lock, Republish, PublishFailed, Unlock, Working, Busy, TypeOK
    <2>2. Submitting' = Submitting /\ UNCHANGED <<unsent, broker, queue, answers, again>>
      BY <1>8 DEF TakeId, Exit, Work, Lock, Republish, PublishFailed, Unlock, Submitting,
            taskVars, consumerVars, auxVars
    <2> QED
      BY <2>1, <2>2, Fewer
  <1>9. CASE Started
    <2>1. \A q \in Proc : ~Working(q)'
      BY <1>9 DEF Started, Working, Busy
    <2>2. Submitting' = {} /\ UNCHANGED <<unsent, broker, queue, answers, again>>
      BY <1>9 DEF Started, Submitting, taskVars, auxVars
    <2> QED
      BY <2>1, <2>2, Fewer
  <1>10. CASE Break \/ stop \/ Flush \/ Ended \/ Check \/ Deliver \/ Reconnect \/ UNCHANGED vars
    <2>1. Submitting' \subseteq Submitting /\ UNCHANGED <<unsent, broker, queue, answers, again>>
      BY <1>10 DEF Break, stop, Flush, Tasks!Close, Ended, Check, Deliver, Reconnect, vars,
            Submitting, taskVars, consumerVars, auxVars
    <2>2. UNCHANGED <<ppc, task>>
      BY <1>10 DEF Break, stop, Flush, Ended, Check, Deliver, Reconnect, vars, procVars
    <2>3. \A q \in Proc : Working(q)' = Working(q)
      BY <2>2 DEF Working
    <2> QED
      BY <2>1, <2>2, <2>3, Fewer
  <1> QED
    BY <1>1, <1>2, <1>3, <1>4, <1>5, <1>6, <1>7, <1>8, <1>9, <1>10 DEF Next, Svc, Consume

-----------------------------------------------------------------------------

LEMMA PublishAloneKept ==
    ASSUME TypeOK, Stages, PublishAlone, [Next]_vars
    PROVE  PublishAlone'
  <1> USE ServerAssumption
  <1>1. ASSUME NEW p \in Proc,
               TakeId(p) \/ Get(p) \/ Exit(p) \/ Work(p) \/ Publish(p) \/ Republish(p) \/ PublishFailed(p)
        PROVE  PublishAlone'
    BY <1>1 DEF TakeId, Get, Exit, Work, Publish, Republish, PublishFailed, PublishAlone, TypeOK,
          producerVars
  <1>2. ASSUME NEW p \in Proc, Lock(p) \/ Unlock(p)
        PROVE  PublishAlone'
    BY <1>2 DEF Lock, Unlock, PublishAlone, TypeOK
  <1>3. CASE Kill
    BY <1>3 DEF Kill, Boot, PublishAlone
  <1>4. CASE Started
    BY <1>4 DEF Started, PublishAlone, producerVars
  <1>5. CASE UNCHANGED <<ppc, pmutex>>
    BY <1>5 DEF PublishAlone
  <1>6. \/ \E p \in Proc : TakeId(p) \/ Svc(p)
        \/ Kill \/ Started \/ UNCHANGED <<ppc, pmutex>>
    BY DEF Next, Consume, Send, Break, stop, Flush, Ended, Check, Deliver, Ack, AckLost,
          Reconnect, SubmitTask, vars, procVars, producerVars
  <1> QED
    BY <1>1, <1>2, <1>3, <1>4, <1>5, <1>6 DEF Svc

-----------------------------------------------------------------------------

LEMMA ServerInvInit == Init => ServerInv
  <1> SUFFICES ASSUME Init
               PROVE  ServerInv
    OBVIOUS
  <1> USE ServerAssumption
  <1>0. Cardinality(Proc) \in Nat /\ Cardinality(Proc) * Factor \in Nat /\ Len(queue) = 0
    BY NoneCounted, Allowed DEF Init
  <1>1. TypeOK
    BY <1>0 DEF Init, TypeOK
  <1>2. BacklogBounded
    BY <1>0 DEF BacklogBounded
  <1>3. Stages
    <2>1. {p \in Proc : ppc[p] # "off"} = {}
      BY DEF Init
    <2>2. ids = Cardinality({p \in Proc : ppc[p] # "off"})
      BY <2>1, NoneCounted DEF Init
    <2> QED
      BY <2>2 DEF Init, Stages, Busy
  <1>4. Settled /\ NothingVanishes
    BY DEF Init, Settled, NothingVanishes
  <1>5. OneCopy
    <2>1. Elems(queue) = {} /\ InBroker = {} /\ Submitting = {} /\ InWork = {}
      BY DEF Init, Elems, InBroker, Submitting, InWork, Working, Busy
    <2> QED
      BY <2>1 DEF Init, OneCopy, Once, Working, Busy
  <1>6. PublishAlone
    BY DEF Init, PublishAlone
  <1> QED
    BY <1>1, <1>2, <1>3, <1>4, <1>5, <1>6 DEF ServerInv

LEMMA ServerInvNext == ServerInv /\ [Next]_vars => ServerInv'
  BY TypesKept, StagesKept, BacklogKept, SettledKept, NothingVanishesKept, OneCopyKept,
     PublishAloneKept DEF ServerInv

\* The invariant of the server holds for any number of requests, processors,
\* broken connections and restarts.
THEOREM ServerInvariant == Spec => []ServerInv
  BY ServerInvInit, ServerInvNext, PTL DEF Spec

\* MQConsumer and MQQueryProcessor never have more than m_processorNum times
\* the allowed tasks, and one, in m_taskList.
THEOREM Backlog == Spec => []BacklogBounded
  <1>1. ServerInv => BacklogBounded
    BY DEF ServerInv
  <1> QED
    BY <1>1, ServerInvariant, PTL

\* A request that the broker delivered once is answered once at most.
THEOREM AnsweredOnce == Spec => []AtMostOnce
  <1>1. ServerInv => AtMostOnce
    BY DEF ServerInv, TypeOK, OneCopy, AtMostOnce
  <1> QED
    BY <1>1, ServerInvariant, PTL

\* MQProducer::Publish: the threads use the connection one at a time, and the
\* mutex is free when none of them does, whichever way publish ended.
THEOREM Exclusive == Spec => []PublishAlone
  <1>1. ServerInv => PublishAlone
    BY DEF ServerInv
  <1> QED
    BY <1>1, ServerInvariant, PTL

\* A request is in one of the places the code keeps it in, answered, or dropped
\* for a reason.
THEOREM Kept == Spec => []NothingVanishes
  <1>1. ServerInv => NothingVanishes
    BY DEF ServerInv
  <1> QED
    BY <1>1, ServerInvariant, PTL

=============================================================================
