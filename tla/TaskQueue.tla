------------------------------ MODULE TaskQueue ------------------------------
(***************************************************************************)
(* What the code that submits and takes tasks relies on when it uses a     *)
(* wait_list_t: a queue with atomic operations that can be closed once.    *)
(* WaitList shows that the mutex, the condition variable and the list      *)
(* behind it implement this; BagPool and MQServer use the operations.      *)
(***************************************************************************)
EXTENDS Integers, Sequences

CONSTANT Node

VARIABLES
    queue,  \* the tasks, newest first (put adds after _head)
    open    \* _alive

vars == <<queue, open>>

Init == queue = <<>> /\ open = TRUE

\* put: a closed queue drops the task.
Put(n) ==
    /\ queue' = IF open THEN <<n>> \o queue ELSE queue
    /\ UNCHANGED open

\* get: the oldest task, which is n; only an open queue hands out tasks.
Take(n) ==
    /\ open /\ queue # <<>>
    /\ n = queue[Len(queue)]
    /\ queue' = SubSeq(queue, 1, Len(queue) - 1)
    /\ UNCHANGED open

\* get_from_head: the newest task.
TakeNewest(n) ==
    /\ open /\ queue # <<>>
    /\ n = queue[1]
    /\ queue' = SubSeq(queue, 2, Len(queue))
    /\ UNCHANGED open

\* flush: the tasks still in the queue stay there for good.
Close == open' = FALSE /\ UNCHANGED queue

Next ==
    \/ \E n \in Node : Put(n) \/ Take(n) \/ TakeNewest(n)
    \/ Close

Spec == Init /\ [][Next]_vars

=============================================================================
