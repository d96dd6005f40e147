------------------------------ MODULE MQServer ------------------------------
(***************************************************************************)
(* The server around the route planning: main, MQConsumer (one thread that *)
(* takes requests from a RabbitMQ queue), MQQueryProcessor (the threads    *)
(* that plan), MQProducer (the connection on which they publish), and the  *)
(* connections of MyRabbitMQ with their retries.  The broker is external:  *)
(* it keeps a request until it is acknowledged and delivers it again when  *)
(* the connection is lost before that.  What a processor thread does with  *)
(* the shared data is in HotUpdate, the planning itself in BagPool.        *)
(***************************************************************************)
EXTENDS Integers, Sequences, FiniteSets

CONSTANTS
    Request,    \* the requests that are sent, each once
    Blank,      \* those with an empty body
    Proc,       \* the processor threads, MyConfig::m_processorNum of them
    Factor,     \* the tasks per thread that IsReady allows (3)
    MaxBreak,   \* bound: how often a connection breaks
    MaxKill,    \* bound: how often the process is killed and restarted
    None        \* NULL

ASSUME ServerAssumption ==
    /\ IsFiniteSet(Proc) /\ Proc # {} /\ Factor \in Nat
    /\ Blank \subseteq Request
    /\ MaxBreak \in Nat /\ MaxKill \in Nat /\ None \notin Request \union Proc

VARIABLES
    unsent,     \* the requests not sent yet
    broker,     \* the task queue of the broker, oldest first
    queue, open,    \* m_taskList, as the atomic queue of TaskQueue
    active,     \* m_svcActive
    cpc, cmsg,  \* the consumer thread: where it is, the message it has
    cconn,      \* whether its connection works
    ids,        \* m_threadID of the processor
    ppc, task,  \* the processor threads: where they are, their Worker
    pmutex,     \* the holder of MQProducer::m_mutex
    pconn,      \* whether the connection of the producer works
    mpc,        \* main
    breaks, kills,  \* how often they have happened
    answers,    \* auxiliary: how many answers to a request were published
    again,      \* auxiliary: the requests delivered again
    dropped     \* auxiliary: the requests that got lost after the ack

Tasks == INSTANCE TaskQueue WITH Node <- Request

consumerVars == <<cpc, cmsg, cconn>>
procVars == <<ids, ppc, task>>
producerVars == <<pmutex, pconn>>
taskVars == <<queue, open>>
mainVars == <<active, mpc>>
faultVars == <<breaks, kills>>
auxVars == <<answers, again, dropped>>
vars == <<unsent, broker, taskVars, consumerVars, procVars, producerVars, mainVars,
          faultVars, auxVars>>

\* The state of the process after exec: main is about to start the
\* processors.
Boot ==
    /\ queue' = <<>> /\ open' = TRUE /\ active' = TRUE
    /\ cpc' = "off" /\ cmsg' = None /\ cconn' = TRUE
    /\ ids' = 0 /\ ppc' = [p \in Proc |-> "off"]
    /\ task' = [p \in Proc |-> None]
    /\ pmutex' = None /\ pconn' = TRUE
    /\ mpc' = "init"

Init ==
    /\ unsent = Request /\ broker = <<>>
    /\ queue = <<>> /\ open = TRUE /\ active = TRUE
    /\ cpc = "off" /\ cmsg = None /\ cconn = TRUE
    /\ ids = 0 /\ ppc = [p \in Proc |-> "off"]
    /\ task = [p \in Proc |-> None]
    /\ pmutex = None /\ pconn = TRUE
    /\ mpc = "init" /\ breaks = 0 /\ kills = 0
    /\ answers = [r \in Request |-> 0] /\ again = {} /\ dropped = {}

-----------------------------------------------------------------------------
(* The environment. *)

Send(r) ==
    /\ r \in unsent
    /\ unsent' = unsent \ {r} /\ broker' = Append(broker, r)
    /\ UNCHANGED <<taskVars, consumerVars, procVars, producerVars, mainVars, faultVars, auxVars>>

\* A connection breaks.
Break ==
    /\ breaks < MaxBreak /\ mpc # "end"
    /\ breaks' = breaks + 1
    /\ \/ cconn /\ cpc # "ack" /\ cconn' = FALSE /\ UNCHANGED pconn
       \/ pconn /\ pconn' = FALSE /\ UNCHANGED cconn
    /\ UNCHANGED <<unsent, broker, taskVars, cpc, cmsg, procVars, pmutex, mainVars, kills, auxVars>>

InBroker == {broker[i] : i \in 1..Len(broker)}

\* What the process has taken from the broker and not answered.
InProcess ==
    {queue[i] : i \in 1..Len(queue)} \union {task[p] : p \in Proc} \union {cmsg}

\* stop.sh kills the process with SIGKILL and start.sh starts it again.  What
\* the broker has no acknowledgement of it delivers again, the rest is lost.
Kill ==
    /\ kills < MaxKill
    /\ kills' = kills + 1
    /\ dropped' = dropped \union (InProcess \ ({None} \union InBroker))
    /\ again' = IF cpc = "ack" THEN again \union {cmsg} ELSE again
    /\ Boot
    /\ UNCHANGED <<unsent, broker, breaks, answers>>

-----------------------------------------------------------------------------
(* main *)

\* main: the processors are opened and activated; each takes its threadID.
TakeId(p) ==
    /\ mpc = "init" /\ ppc[p] = "off"
    /\ ids' = ids + 1
    /\ ppc' = [ppc EXCEPT ![p] = "barrier"]
    /\ UNCHANGED <<unsent, broker, taskVars, consumerVars, task, producerVars, mainVars,
                   faultVars, auxVars>>

\* main: past the barrier processorInit, then the consumer is activated.
Started ==
    /\ mpc = "init" /\ \A p \in Proc : ppc[p] = "barrier"
    /\ ppc' = [p \in Proc |-> "get"]
    /\ cpc' = "check" /\ mpc' = "run"
    /\ UNCHANGED <<unsent, broker, taskVars, cmsg, cconn, ids, task, producerVars, active,
                   faultVars, auxVars>>

\* main: a signal ends pause(); MQConsumer::stop
stop ==
    /\ mpc = "run"
    /\ active' = FALSE /\ mpc' = "joinConsumer"
    /\ UNCHANGED <<unsent, broker, taskVars, consumerVars, procVars, producerVars, faultVars, auxVars>>

\* Mutant: the processors are joined without a flush of their queue.
Flush_Open ==
    /\ mpc = "joinConsumer" /\ cpc = "exit"
    /\ mpc' = "join"
    /\ UNCHANGED <<unsent, broker, taskVars, consumerVars, procVars, producerVars, active,
                   faultVars, auxVars>>

\* main: MQQueryProcessor::stop, once the consumer has ended.
Flush ==
    /\ mpc = "joinConsumer" /\ cpc = "exit"
    /\ Tasks!Close
    /\ mpc' = "join"
    /\ UNCHANGED <<unsent, broker, consumerVars, procVars, producerVars, active, faultVars, auxVars>>

\* main: the processors have ended, and so does the process.
Ended ==
    /\ mpc = "join" /\ \A p \in Proc : ppc[p] = "exit"
    /\ mpc' = "end"
    /\ dropped' = dropped \union (InProcess \ ({None} \union InBroker))
    /\ UNCHANGED <<unsent, broker, taskVars, consumerVars, procVars, producerVars, active,
                   faultVars, answers, again>>

-----------------------------------------------------------------------------
(* The consumer. *)

\* Mutant: the backlog is not looked at.
IsReady_Always == TRUE

\* MQQueryProcessor::IsReady
IsReady == Len(queue) <= ids * Factor

\* MQConsumer::svc: the loop.
Check ==
    /\ cpc = "check"
    /\ cpc' = IF ~active THEN "exit" ELSE IF IsReady THEN "consume" ELSE "check"
    /\ UNCHANGED <<unsent, broker, taskVars, cmsg, cconn, procVars, producerVars, mainVars,
                   faultVars, auxVars>>

\* MyRabbitMQ_Consumer::consume: a message arrives.
Deliver ==
    /\ cpc = "consume" /\ cconn /\ broker # <<>>
    /\ cmsg' = Head(broker)
    /\ cpc' = "ack"
    /\ UNCHANGED <<unsent, broker, taskVars, cconn, procVars, producerVars, mainVars,
                   faultVars, auxVars>>

\* Where consume goes on after a message: an empty one is not returned.
AfterAck == IF cmsg \in Blank THEN "consume" ELSE "submit"

\* consume: amqp_basic_ack
Ack ==
    /\ cpc = "ack"
    /\ broker' = Tail(broker)
    /\ cpc' = AfterAck
    /\ dropped' = IF cmsg \in Blank THEN dropped \union {cmsg} ELSE dropped
    /\ cmsg' = IF cmsg \in Blank THEN None ELSE cmsg
    /\ UNCHANGED <<unsent, taskVars, cconn, procVars, producerVars, mainVars,
                   faultVars, answers, again>>

\* consume: the connection breaks before the acknowledgement gets through.
\* Its result is not looked at, and the message is returned all the same.
AckLost ==
    /\ cpc = "ack" /\ breaks < MaxBreak
    /\ breaks' = breaks + 1 /\ cconn' = FALSE
    /\ again' = again \union {cmsg}
    /\ cpc' = AfterAck
    /\ cmsg' = IF cmsg \in Blank THEN None ELSE cmsg
    /\ UNCHANGED <<unsent, broker, taskVars, procVars, producerVars, mainVars,
                   kills, answers, dropped>>

\* consume(retryTimeInterval): release, connect, rebind; or wait and retry.
Reconnect ==
    /\ cpc = "consume" /\ ~cconn
    /\ cconn' = TRUE
    /\ UNCHANGED <<unsent, broker, taskVars, cpc, cmsg, procVars, producerVars, mainVars,
                   faultVars, auxVars>>

\* Mutant: m_svcActive is looked at again once consume() has returned.
SubmitTask_Active ==
    /\ cpc = "submit"
    /\ IF active THEN Tasks!Put(cmsg) ELSE UNCHANGED taskVars
    /\ cmsg' = None /\ cpc' = "check"
    /\ UNCHANGED <<unsent, broker, cconn, procVars, producerVars, mainVars, faultVars, auxVars>>

\* MQConsumer::svc: MQQueryProcessor::SubmitTask
SubmitTask ==
    /\ cpc = "submit"
    /\ Tasks!Put(cmsg)
    /\ cmsg' = None /\ cpc' = "check"
    /\ UNCHANGED <<unsent, broker, cconn, procVars, producerVars, mainVars, faultVars, auxVars>>

-----------------------------------------------------------------------------
(* A processor thread: MQQueryProcessor::svc *)

Get(p) ==
    /\ ppc[p] = "get"
    /\ \E r \in Request : Tasks!Take(r) /\ task' = [task EXCEPT ![p] = r]
    /\ ppc' = [ppc EXCEPT ![p] = "work"]
    /\ UNCHANGED <<unsent, broker, consumerVars, ids, producerVars, mainVars,
                   faultVars, auxVars>>

\* svc: get() returned NULL.
Exit(p) ==
    /\ ppc[p] = "get" /\ ~open
    /\ ppc' = [ppc EXCEPT ![p] = "exit"]
    /\ UNCHANGED <<unsent, broker, taskVars, consumerVars, ids, task, producerVars, mainVars,
                   faultVars, auxVars>>

\* svc: ParseWorker, which always succeeds, and then a response whichever way
\* it goes: the query is no JSON object, it has waited too long, or DoRoute.
Work(p) ==
    /\ ppc[p] = "work"
    /\ ppc' = [ppc EXCEPT ![p] = "lock"]
    /\ UNCHANGED <<unsent, broker, taskVars, consumerVars, ids, task, producerVars, mainVars,
                   faultVars, auxVars>>

\* MQProducer::Publish
Lock(p) ==
    /\ ppc[p] = "lock" /\ pmutex = None
    /\ pmutex' = p
    /\ ppc' = [ppc EXCEPT ![p] = "publish"]
    /\ UNCHANGED <<unsent, broker, taskVars, consumerVars, ids, task, pconn, mainVars,
                   faultVars, auxVars>>

\* Mutant: publish goes on to the second publish_in when the first succeeds.
Publish_Twice(p) ==
    /\ ppc[p] \in {"publish", "republish"} /\ pconn
    /\ answers' = [answers EXCEPT ![task[p]] = @ + 1]
    /\ ppc' = [ppc EXCEPT ![p] = IF @ = "publish" THEN "republish" ELSE "unlock"]
    /\ UNCHANGED <<unsent, broker, taskVars, consumerVars, ids, task, producerVars, mainVars,
                   faultVars, again, dropped>>

\* MyRabbitMQ_Producer::publish: publish_in, before or after a reconnect.
Publish(p) ==
    /\ ppc[p] \in {"publish", "republish"} /\ pconn
    /\ answers' = [answers EXCEPT ![task[p]] = @ + 1]
    /\ ppc' = [ppc EXCEPT ![p] = "unlock"]
    /\ UNCHANGED <<unsent, broker, taskVars, consumerVars, ids, task, producerVars, mainVars,
                   faultVars, again, dropped>>

\* publish: publish_in failed; release and connect.
Republish(p) ==
    /\ ppc[p] = "publish" /\ ~pconn
    /\ pconn' = TRUE
    /\ ppc' = [ppc EXCEPT ![p] = "republish"]
    /\ UNCHANGED <<unsent, broker, taskVars, consumerVars, ids, task, pmutex, mainVars,
                   faultVars, auxVars>>

\* Mutant: Publish returns without the unlock.
PublishFailed_Locked(p) ==
    /\ ppc[p] \in {"publish", "republish"} /\ ~pconn
    /\ dropped' = dropped \union {task[p]}
    /\ ppc' = [ppc EXCEPT ![p] = "get"]
    /\ task' = [task EXCEPT ![p] = None]
    /\ UNCHANGED <<unsent, broker, taskVars, consumerVars, ids, producerVars, mainVars,
                   faultVars, answers, again>>

\* publish: the connect failed, or the second publish_in, and svc does not
\* look at the result; or publish_in wrote to a connection whose end it had
\* not noticed yet, and reported success.
PublishFailed(p) ==
    /\ ppc[p] \in {"publish", "republish"} /\ ~pconn
    /\ dropped' = dropped \union {task[p]}
    /\ ppc' = [ppc EXCEPT ![p] = "unlock"]
    /\ UNCHANGED <<unsent, broker, taskVars, consumerVars, ids, task, producerVars, mainVars,
                   faultVars, answers, again>>

\* MQProducer::Publish: unlock; svc: delete worker.
Unlock(p) ==
    /\ ppc[p] = "unlock"
    /\ pmutex' = None
    /\ task' = [task EXCEPT ![p] = None]
    /\ ppc' = [ppc EXCEPT ![p] = "get"]
    /\ UNCHANGED <<unsent, broker, taskVars, consumerVars, ids, pconn, mainVars,
                   faultVars, auxVars>>

-----------------------------------------------------------------------------

Consume == Check \/ Deliver \/ Ack \/ AckLost \/ Reconnect \/ SubmitTask

Svc(p) ==
    \/ Get(p) \/ Exit(p) \/ Work(p)
    \/ Lock(p) \/ Publish(p) \/ Republish(p) \/ PublishFailed(p) \/ Unlock(p)

Next ==
    \/ \E r \in Request : Send(r)
    \/ Break \/ Kill
    \/ \E p \in Proc : TakeId(p) \/ Svc(p)
    \/ Started \/ stop \/ Flush \/ Ended
    \/ Consume
    \/ (mpc = "end" /\ UNCHANGED vars)

Spec == Init /\ [][Next]_vars

\* The threads run, a released mutex goes to every thread that waits for it
\* long enough, and a connection can be made again.
FairSpec ==
    /\ Spec
    /\ WF_vars(Consume) /\ WF_vars(Started \/ Flush \/ Ended)
    /\ \A p \in Proc : WF_vars(TakeId(p)) /\ WF_vars(Svc(p)) /\ SF_vars(Lock(p))

-----------------------------------------------------------------------------

TypeOK ==
    /\ unsent \subseteq Request /\ broker \in Seq(Request)
    /\ queue \in Seq(Request) /\ open \in BOOLEAN /\ active \in BOOLEAN
    /\ cpc \in {"off", "check", "consume", "ack", "submit", "exit"}
    /\ cmsg \in Request \union {None} /\ cconn \in BOOLEAN
    /\ ids \in 0..Cardinality(Proc)
    /\ ppc \in [Proc -> {"off", "barrier", "get", "work", "lock", "publish", "republish", "unlock", "exit"}]
    /\ task \in [Proc -> Request \union {None}]
    /\ pmutex \in Proc \union {None} /\ pconn \in BOOLEAN
    /\ mpc \in {"init", "run", "joinConsumer", "join", "end"}
    /\ breaks \in 0..MaxBreak /\ kills \in 0..MaxKill
    /\ answers \in [Request -> Nat] /\ again \subseteq Request /\ dropped \subseteq Request

\* The backlog in memory never exceeds one more than what IsReady allows,
\* although IsReady reads the length without the lock and before the consumer
\* blocks in consume().
BacklogBounded == Len(queue) <= Cardinality(Proc) * Factor + 1

\* A request is answered twice only if its delivery was repeated: because
\* its acknowledgement got lost, or the process was killed before it.
AtMostOnce == \A r \in Request : answers[r] > 1 => r \in again

\* A request is somewhere: waiting to be sent, in the broker, in the server,
\* answered, or dropped for a reason: an empty body, two failures to
\* publish, a kill, or the end of the server.
NothingVanishes ==
    \A r \in Request :
        \/ r \in unsent \/ r \in InBroker
        \/ r \in InProcess \/ answers[r] > 0 \/ r \in dropped

\* A request that is sent is answered or dropped, unless the server is
\* stopped or is being restarted again and again.
Answered ==
    \A r \in Request : r \notin unsent ~> (answers[r] > 0 \/ r \in dropped \/ ~active)

\* After a stop the server ends or is restarted, unless the consumer stays
\* blocked in consume() because no message arrives.
StopEnds ==
    mpc = "joinConsumer" ~> (mpc \in {"end", "init"} \/ [](cpc = "consume" /\ broker = <<>>))

=============================================================================
