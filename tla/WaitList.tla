------------------------------ MODULE WaitList ------------------------------
(***************************************************************************)
(* wait_list_t of threads/wait_list.hpp, the blocking task queue between   *)
(* the threads of the server, under its mutex and its condition variable.  *)
(* Any thread may call any operation; what the provider of a node does     *)
(* with it before put and what the taker does with it after get is the     *)
(* step between two calls.  A critical section is a step for the test or   *)
(* the read and a step for the update, so that what the mutex is for can   *)
(* be seen.                                                                *)
(***************************************************************************)
EXTENDS SeqOps, FiniteSets

CONSTANTS
    Thread, \* the threads that share the list
    Node,   \* the elements that can be in it
    None,   \* NULL
    Ops     \* the operations that are called

Getters == {"get", "timed", "head"}

ASSUME WaitListAssumption ==
    /\ IsFiniteSet(Thread)
    /\ None \notin Thread \union Node
    /\ Ops \subseteq Getters \union {"put", "flush"}

VARIABLES
    list,   \* the elements, from _head.next to _head.prev
    alive,  \* _alive
    num,    \* _num
    mutex,  \* the owner of _mutex, or None
    op,     \* the operation a thread is in
    pc,     \* where it is in it
    arg     \* the element that a thread owns: the one it puts, or got

vars == <<list, alive, num, mutex, op, pc, arg>>

\* pc of a thread: idle; at pthread_mutex_lock (lock); in the critical
\* section (in, then del or signal); blocked on _cond (wait); woken up and
\* about to lock again (relock); timed out and about to lock again (late).
PC == {"idle", "lock", "in", "del", "signal", "wait", "relock", "late"}

Critical == {"in", "del", "signal"}

\* The threads blocked on the condition variable.
Waiting == {t \in Thread : pc[t] = "wait"}

-----------------------------------------------------------------------------

\* wait_list_t()
Init ==
    /\ list = <<>> /\ alive = TRUE /\ num = 0
    /\ mutex = None
    /\ op = [t \in Thread |-> None]
    /\ pc = [t \in Thread |-> "idle"]
    /\ arg = [t \in Thread |-> None]

\* A thread starts an operation; to put, it brings an element that nobody
\* else has, and to get it has disposed of what it got before.
Call(t, o) ==
    /\ pc[t] = "idle"
    /\ \E n \in Node \union {None} :
         /\ o = "put" <=> n # None
         /\ n # None => ~Has(list, n) /\ \A u \in Thread \ {t} : arg[u] # n
         /\ arg' = [arg EXCEPT ![t] = n]
    /\ op' = [op EXCEPT ![t] = o]
    /\ pc' = [pc EXCEPT ![t] = "lock"]
    /\ UNCHANGED <<list, alive, num, mutex>>

\* pthread_mutex_lock, and the lock that pthread_cond_wait takes again.
lock(t) ==
    /\ pc[t] \in {"lock", "relock"}
    /\ mutex = None
    /\ mutex' = t
    /\ pc' = [pc EXCEPT ![t] = "in"]
    /\ UNCHANGED <<list, alive, num, op, arg>>

\* put: add(node) and ++_num, if the list is alive.
putAdd(t) ==
    /\ pc[t] = "in" /\ op[t] = "put"
    /\ list' = IF alive THEN <<arg[t]>> \o list ELSE list
    /\ num' = IF alive THEN num + 1 ELSE num
    /\ arg' = [arg EXCEPT ![t] = None]
    /\ pc' = [pc EXCEPT ![t] = "signal"]
    /\ UNCHANGED <<alive, mutex, op>>

\* Mutant: the signal is sent only when the list was empty.
putSignal_First(t) ==
    /\ pc[t] = "signal"
    /\ \/ Len(list) # 1 /\ pc' = [pc EXCEPT ![t] = "idle"]
       \/ Len(list) = 1 /\ Waiting = {} /\ pc' = [pc EXCEPT ![t] = "idle"]
       \/ Len(list) = 1 /\ \E u \in Waiting : pc' = [pc EXCEPT ![t] = "idle", ![u] = "relock"]
    /\ mutex' = None
    /\ op' = [op EXCEPT ![t] = None]
    /\ UNCHANGED <<list, alive, num, arg>>

\* put: pthread_cond_signal wakes one of the waiting threads, if there is
\* one, and pthread_mutex_unlock.
putSignal(t) ==
    /\ pc[t] = "signal"
    /\ \/ Waiting = {} /\ pc' = [pc EXCEPT ![t] = "idle"]
       \/ \E u \in Waiting : pc' = [pc EXCEPT ![t] = "idle", ![u] = "relock"]
    /\ mutex' = None
    /\ op' = [op EXCEPT ![t] = None]
    /\ UNCHANGED <<list, alive, num, arg>>

\* The loop of get and its variants: pthread_cond_wait and _timedwait give
\* the mutex up while they wait.
getWait(t) ==
    /\ pc[t] = "in" /\ op[t] \in Getters
    /\ alive /\ list = <<>>
    /\ pc' = [pc EXCEPT ![t] = "wait"]
    /\ mutex' = None
    /\ UNCHANGED <<list, alive, num, op, arg>>

\* A spurious wake-up: pthread_cond_wait may return without a signal.
Spurious(t) ==
    /\ pc[t] = "wait"
    /\ pc' = [pc EXCEPT ![t] = "relock"]
    /\ UNCHANGED <<list, alive, num, mutex, op, arg>>

\* pthread_cond_timedwait gives up waiting.
Timeout(t) ==
    /\ pc[t] = "wait" /\ op[t] = "timed"
    /\ pc' = [pc EXCEPT ![t] = "late"]
    /\ UNCHANGED <<list, alive, num, mutex, op, arg>>

\* get(abstime) after the timeout: it has the mutex again, unlocks it and
\* returns NULL without a look at the list.
getLate(t) ==
    /\ pc[t] = "late" /\ mutex = None
    /\ pc' = [pc EXCEPT ![t] = "idle"]
    /\ op' = [op EXCEPT ![t] = None]
    /\ UNCHANGED <<list, alive, num, mutex, arg>>

\* The element that get and get(abstime) read at _head.prev, and
\* get_from_head at _head.next.
Entry(o) == IF o = "head" THEN list[1] ELSE list[Len(list)]

\* Mutant: a list that was flushed is drained.
getEntry_Drain(t) ==
    /\ pc[t] = "in" /\ op[t] \in Getters
    /\ list # <<>>
    /\ arg' = [arg EXCEPT ![t] = Entry(op[t])]
    /\ pc' = [pc EXCEPT ![t] = "del"]
    /\ UNCHANGED <<list, alive, num, mutex, op>>

\* get: ret = entry(...)
getEntry(t) ==
    /\ pc[t] = "in" /\ op[t] \in Getters
    /\ alive /\ list # <<>>
    /\ arg' = [arg EXCEPT ![t] = Entry(op[t])]
    /\ pc' = [pc EXCEPT ![t] = "del"]
    /\ UNCHANGED <<list, alive, num, mutex, op>>

\* get: del(*ret), --_num and unlock.
getDel(t) ==
    /\ pc[t] = "del"
    /\ list' = Removed(list, Index(list, arg[t]))
    /\ num' = num - 1
    /\ mutex' = None
    /\ pc' = [pc EXCEPT ![t] = "idle"]
    /\ op' = [op EXCEPT ![t] = None]
    /\ UNCHANGED <<alive, arg>>

\* get on a list that is not alive: NULL, whatever is in the list.
getNull(t) ==
    /\ pc[t] = "in" /\ op[t] \in Getters
    /\ ~alive
    /\ mutex' = None
    /\ pc' = [pc EXCEPT ![t] = "idle"]
    /\ op' = [op EXCEPT ![t] = None]
    /\ UNCHANGED <<list, alive, num, arg>>

\* Mutant: flush wakes one thread only.
flush_Signal(t) ==
    /\ pc[t] = "in" /\ op[t] = "flush"
    /\ alive' = FALSE
    /\ mutex' = None
    /\ \/ Waiting = {} /\ pc' = [pc EXCEPT ![t] = "idle"]
       \/ \E u \in Waiting : pc' = [pc EXCEPT ![t] = "idle", ![u] = "relock"]
    /\ op' = [op EXCEPT ![t] = None]
    /\ UNCHANGED <<list, num, arg>>

\* flush: pthread_cond_broadcast wakes all of them.
flush(t) ==
    /\ pc[t] = "in" /\ op[t] = "flush"
    /\ alive' = FALSE
    /\ mutex' = None
    /\ pc' = [u \in Thread |-> IF u = t THEN "idle"
                               ELSE IF pc[u] = "wait" THEN "relock" ELSE pc[u]]
    /\ op' = [op EXCEPT ![t] = None]
    /\ UNCHANGED <<list, num, arg>>

\* The steps of a thread inside an operation.
Step(t) ==
    \/ putAdd(t) \/ putSignal(t)
    \/ getWait(t) \/ getEntry(t) \/ getDel(t) \/ getNull(t)
    \/ flush(t)

Next ==
    \E t \in Thread :
        \/ \E o \in Ops : Call(t, o)
        \/ lock(t) \/ Step(t)
        \/ Spurious(t) \/ Timeout(t) \/ getLate(t)

Spec == Init /\ [][Next]_vars

\* A thread in a critical section runs on, and a thread that keeps asking
\* for the mutex, which is never kept for ever, gets it in the end.
FairSpec ==
    /\ Spec
    /\ \A t \in Thread : WF_vars(Step(t)) /\ SF_vars(lock(t)) /\ SF_vars(getLate(t))

-----------------------------------------------------------------------------

TypeOK ==
    /\ list \in Seq(Node)
    /\ alive \in BOOLEAN
    /\ num \in Int
    /\ mutex \in Thread \union {None}
    /\ op \in [Thread -> Ops \union {None}]
    /\ pc \in [Thread -> PC]
    /\ arg \in [Thread -> Node \union {None}]

\* A thread between lock and unlock is the owner of the mutex; where it
\* stands fits the operation it is in.
MutexInv ==
    \A t \in Thread :
        /\ pc[t] \in Critical <=> mutex = t
        /\ pc[t] \in {"del", "wait", "relock", "late"} => op[t] \in Getters \intersect Ops
        /\ pc[t] = "signal" => op[t] = "put"
        /\ pc[t] \in {"lock", "in"} => op[t] \in Ops

\* A put comes with an element, and the element that get is about to take
\* out is still where it was read.
EntryInv ==
    \A t \in Thread :
        /\ pc[t] \in {"lock", "in"} /\ op[t] = "put" => arg[t] # None
        /\ pc[t] = "del" => alive /\ list # <<>> /\ arg[t] = Entry(op[t])

\* Every element has one owner: it is in the list once, or one thread has
\* it, so no task is lost and none is handed to two threads.
OneOwner ==
    /\ \A i, j \in 1..Len(list) : list[i] = list[j] => i = j
    /\ \A t \in Thread : arg[t] # None /\ Has(list, arg[t]) => pc[t] = "del"
    /\ \A t, u \in Thread : arg[t] = arg[u] /\ arg[t] # None => t = u

\* len() is the number of elements, although it is read without the mutex.
NumInv == num = Len(list)

\* The threads that will look at the list without being woken up, or that
\* are about to wake one up.
Active ==
    {t \in Thread : \/ pc[t] \in {"lock", "in", "relock", "del"} /\ op[t] \in Getters
                    \/ pc[t] = "signal"}

\* No wake-up is lost: as long as a thread is blocked on an open list, there
\* are as many threads on their way to the list as there are elements in it.
\* Two elements put in a row wake two threads, even when a third thread
\* takes the first one before the thread woken for it runs.
NoLostWakeup == alive /\ Waiting # {} => Len(list) <= Cardinality(Active)

\* Nobody sleeps on a list that was flushed.
FlushedAwake == ~alive => Waiting = {}

WInv ==
    /\ TypeOK /\ MutexInv /\ EntryInv /\ OneOwner /\ NumInv
    /\ NoLostWakeup /\ FlushedAwake

\* The wait list implements the atomic queue: every step of a thread is one
\* operation on it or none, the order is kept, nothing is handed out after
\* the flush, and a flushed list never changes.
Queue == INSTANCE TaskQueue WITH queue <- list, open <- alive

ImplementsQueue == Queue!Spec

\* A thread that leaves get has the oldest element of the list at that very
\* moment, and one that leaves get_from_head the newest: nobody came between
\* the read of the entry and its removal.
TakesInOrder ==
    [][\A t \in Thread :
         pc[t] = "del" /\ pc'[t] # "del" =>
            IF op[t] = "head" THEN Queue!TakeNewest(arg[t]) ELSE Queue!Take(arg[t])]_vars

\* While somebody waits and the list is open, a task in the list is taken,
\* unless get_from_head, which may pass it by, is called.
NoForgottenTask ==
    \A n \in Node :
        (alive /\ Has(list, n) /\ Waiting # {}) ~>
            \/ ~alive \/ ~Has(list, n) \/ Waiting = {}
            \/ \E t \in Thread : pc[t] # "idle" /\ op[t] = "head"

\* A flush lets every call end, the blocked ones too.
FlushReleases == \A t \in Thread : (~alive /\ pc[t] # "idle") ~> (pc[t] = "idle")

=============================================================================
