---------------------------- MODULE BagPoolProofs ----------------------------
(***************************************************************************)
(* The search threads of a Route for any number of threads and jobs: the   *)
(* invariant BInv is inductive.  So no job is deleted while it is in use,  *)
(* the caller has the memory pools for itself when it touches them, every  *)
(* thread has a pool of its own, and the caller collects exactly the paths *)
(* that the jobs of its search found.                                      *)
(***************************************************************************)
EXTENDS BagPool, FiniteSetTheorems, TLAPS

USE DEF poolVars, threadVars, jobVars, callerVars

\* The number of threads is a positive number.
LEMMA ThreadNumType == ThreadNum \in Nat
  BY BagAssumption, FS_CardinalityType DEF ThreadNum

\* A step that gives no thread an index keeps IdInv.
LEMMA IdSame ==
    ASSUME IdInv, UNCHANGED <<tid, nextId>>,
           \A u \in Thread : tpc'[u] \in {"none", "barrier", "id"}
                         <=> tpc[u] \in {"none", "barrier", "id"}
    PROVE  IdInv'
  BY DEF IdInv, Named

\* A thread in svc has the index of a memory pool.
LEMMA Indexed ==
    ASSUME BInv, NEW t \in Thread, tpc[t] \notin {"none", "barrier", "id"}
    PROVE  tid[t] \in PoolId
  <1>1. IsFiniteSet(Named) /\ Cardinality(Named) <= ThreadNum
    BY BagAssumption, FS_Subset DEF Named, ThreadNum
  <1>2. Cardinality(Named) \in Nat
    BY <1>1, FS_CardinalityType
  <1>3. tid[t] \in Nat /\ tid[t] # 0 /\ tid[t] < Cardinality(Named) + 1
    BY DEF BInv, TypeOK, IdInv
  <1> QED
    BY <1>1, <1>2, <1>3, ThreadNumType DEF PoolId

\* Jobs are queued or in work only while the caller adds them or waits.
LEMMA Busy ==
    ASSUME BInv
    PROVE  /\ \A t \in Thread : tpc[t] \in Holding => mpc \in {"add", "wait"}
           /\ queue # <<>> => mpc \in {"add", "wait"}
  <1>1. ASSUME NEW j \in Job, state[j] = "new"
        PROVE  mpc \in {"add", "wait"}
    <2>1. PICK i \in 1..Len(jobs) : jobs[i] = j
      BY <1>1 DEF BInv, JobInv
    <2>2. jobs # <<>>
      BY <2>1
    <2> QED
      BY <1>1, <2>1, <2>2 DEF BInv, CallerInv
  <1>2. \A t \in Thread : tpc[t] \in Holding => cur[t] \in Job /\ state[cur[t]] = "new"
    BY DEF BInv, JobInv
  <1>3. queue # <<>> => queue[1] \in Job /\ state[queue[1]] = "new"
    BY DEF BInv, TypeOK, JobInv
  <1> QED
    BY <1>1, <1>2, <1>3

\* A sequence without its last element.
LEMMA Front ==
    ASSUME NEW s \in Seq(Job), s # <<>>
    PROVE  /\ Len(SubSeq(s, 1, Len(s) - 1)) = Len(s) - 1
           /\ \A i \in 1..Len(s) - 1 : SubSeq(s, 1, Len(s) - 1)[i] = s[i]
  <1>1. Len(s) \in Nat /\ Len(s) # 0
    OBVIOUS
  <1>2. SubSeq(s, 1, Len(s) - 1) = [i \in 1..Len(s) - 1 |-> s[i]]
    BY <1>1
  <1> QED
    BY <1>1, <1>2

\* pthread_create keeps the invariant: the new thread only waits at the barrier.
LEMMA CreateKeeps ==
    ASSUME BInv, NEW t \in Thread, Create(t)
    PROVE  BInv'
  <1>1. TypeOK'
    BY DEF BInv, Create, TypeOK, TPC, MPC
  <1>2. JobInv'
    BY DEF BInv, Create, TypeOK, JobInv, CallerInv, Holding
  <1>3. CallerInv'
    BY DEF BInv, Create, TypeOK, JobInv, CallerInv
  <1>4. ThreadInv'
    BY DEF BInv, Create, TypeOK, ThreadInv
  <1>5. IdInv'
    BY IdSame DEF BInv, Create, TypeOK
  <1>6. HeapInv'
    BY DEF BInv, Create, TypeOK, JobInv, CallerInv, HeapInv, Holding, Collecting
  <1>7. ResultsComplete'
    BY DEF BInv, Create, ResultsComplete
  <1> QED
    BY <1>1, <1>2, <1>3, <1>4, <1>5, <1>6, <1>7 DEF BInv

\* Taking a threadID keeps the invariant: the next index is still free.
LEMMA TakeIdKeeps ==
    ASSUME BInv, NEW t \in Thread, TakeId(t)
    PROVE  BInv'
  <1>1. TypeOK'
    BY DEF BInv, TakeId, TypeOK, TPC, MPC
  <1>2. JobInv'
    BY DEF BInv, TakeId, TypeOK, JobInv, CallerInv, Holding
  <1>3. CallerInv'
    BY DEF BInv, TakeId, TypeOK, JobInv, CallerInv
  <1>4. ThreadInv'
    BY DEF BInv, TakeId, TypeOK, ThreadInv
  <1>5. IdInv'
    <2>1. tid[t] = 0 /\ t \notin Named /\ nextId \in Nat
      BY DEF BInv, TypeOK, IdInv, TakeId, Named
    <2>2. IsFiniteSet(Named)
      BY BagAssumption, FS_Subset DEF Named
    <2>3. nextId # 0
      BY <2>1 DEF BInv, TypeOK, IdInv
    <2>4. Named' = Named \union {t}
      BY <2>1, <2>3 DEF BInv, TypeOK, TakeId, Named
    <2>5. Cardinality(Named') = Cardinality(Named) + 1
      BY <2>1, <2>2, <2>4, FS_AddElement
    <2>6. nextId' = Cardinality(Named') + 1
      BY <2>2, <2>5, FS_CardinalityType DEF BInv, IdInv, TakeId
    <2>7. \A u \in Thread : tid'[u] = 0 <=> tpc'[u] \in {"none", "barrier", "id"}
      BY <2>3 DEF BInv, TypeOK, IdInv, TakeId
    <2>8. \A u \in Thread : tid'[u] < nextId'
      BY <2>1 DEF BInv, TypeOK, IdInv, TakeId
    <2>9. \A u, v \in Thread : tid'[u] = tid'[v] /\ tid'[u] # 0 => u = v
      BY <2>1 DEF BInv, TypeOK, IdInv, TakeId
    <2> QED
      BY <2>6, <2>7, <2>8, <2>9 DEF IdInv
  <1>6. HeapInv'
    BY DEF BInv, TakeId, TypeOK, JobInv, CallerInv, HeapInv, Holding, Collecting
  <1>7. ResultsComplete'
    BY DEF BInv, TakeId, ResultsComplete
  <1> QED
    BY <1>1, <1>2, <1>3, <1>4, <1>5, <1>6, <1>7 DEF BInv

\* get() keeps the invariant: the job leaves the queue for one thread.
LEMMA GetKeeps ==
    ASSUME BInv, NEW t \in Thread, Get(t)
    PROVE  BInv'
  <1>1. TypeOK'
    BY DEF BInv, Get, TypeOK, TPC, MPC, Tasks!Take
  <1>2. JobInv'
    <2>1. /\ Len(queue) \in Nat \ {0} /\ cur' = [cur EXCEPT ![t] = queue[Len(queue)]]
          /\ tpc' = [tpc EXCEPT ![t] = "run"]
          /\ UNCHANGED <<state, jobs>>
          /\ queue' = SubSeq(queue, 1, Len(queue) - 1)
      BY DEF BInv, TypeOK, Get, Tasks!Take
    <2>2. Len(queue') = Len(queue) - 1 /\ \A i \in 1..Len(queue') : queue'[i] = queue[i]
      <3>1. queue \in Seq(Job)
        BY DEF BInv, TypeOK
      <3> QED
        BY <2>1, <3>1, Front
    <2>3. queue[Len(queue)] \in Job /\ state[queue[Len(queue)]] = "new"
      BY <2>1 DEF BInv, TypeOK, JobInv
    <2>4. \A i, k \in 1..Len(queue') : queue'[i] = queue'[k] => i = k
      BY <2>1, <2>2 DEF BInv, JobInv
    <2>5. \A i \in 1..Len(queue') : state'[queue'[i]] = "new"
      BY <2>1, <2>2 DEF BInv, JobInv
    <2>6. \A i \in 1..Len(queue') : queue[i] # queue[Len(queue)]
      BY <2>1, <2>2 DEF BInv, JobInv
    <2>7. \A i \in 1..Len(queue') : \A u \in Thread :
             tpc'[u] \in Holding => cur'[u] # queue'[i]
      <3>1. SUFFICES ASSUME NEW i \in 1..Len(queue'), NEW u \in Thread, tpc'[u] \in Holding
                     PROVE  cur'[u] # queue'[i]
        OBVIOUS
      <3>2. i \in 1..Len(queue) /\ queue'[i] = queue[i]
        BY <2>1, <2>2
      <3>3. CASE u = t
        BY <2>1, <2>6, <3>2, <3>3 DEF BInv, TypeOK
      <3>4. CASE u # t
        BY <2>1, <3>1, <3>2, <3>4 DEF BInv, TypeOK, JobInv
      <3> QED
        BY <3>3, <3>4
    <2>8. \A u \in Thread : tpc'[u] \in Holding => cur'[u] \in Job /\ state'[cur'[u]] = "new"
      BY <2>1, <2>3 DEF BInv, TypeOK, JobInv
    <2>9. \A u \in Thread : tpc[u] \in Holding => cur[u] # queue[Len(queue)]
      BY <2>1 DEF BInv, JobInv
    <2>10. \A u, v \in Thread :
              tpc'[u] \in Holding /\ tpc'[v] \in Holding /\ cur'[u] = cur'[v] => u = v
      BY <2>1, <2>9 DEF BInv, TypeOK, JobInv
    <2> QED
      BY <2>1, <2>4, <2>5, <2>7, <2>8, <2>10 DEF BInv, JobInv
  <1>3. CallerInv'
    BY DEF BInv, Get, TypeOK, JobInv, CallerInv, Tasks!Take
  <1>4. ThreadInv'
    BY DEF BInv, Get, TypeOK, ThreadInv, Tasks!Take
  <1>5. IdInv'
    BY IdSame DEF BInv, Get, TypeOK, Tasks!Take
  <1>6. HeapInv'
    BY DEF BInv, Get, TypeOK, JobInv, CallerInv, HeapInv, Holding, Collecting, Tasks!Take
  <1>7. ResultsComplete'
    BY DEF BInv, Get, ResultsComplete, Tasks!Take
  <1> QED
    BY <1>1, <1>2, <1>3, <1>4, <1>5, <1>6, <1>7 DEF BInv

\* A thread that ends keeps the invariant: it has no job.
LEMMA ExitKeeps ==
    ASSUME BInv, NEW t \in Thread, Exit(t)
    PROVE  BInv'
  <1>1. TypeOK'
    BY DEF BInv, Exit, TypeOK, TPC, MPC
  <1>2. JobInv'
    BY DEF BInv, Exit, TypeOK, JobInv, CallerInv, Holding
  <1>3. CallerInv'
    BY DEF BInv, Exit, TypeOK, JobInv, CallerInv
  <1>4. ThreadInv'
    BY DEF BInv, Exit, TypeOK, ThreadInv
  <1>5. IdInv'
    BY IdSame DEF BInv, Exit, TypeOK
  <1>6. HeapInv'
    BY DEF BInv, Exit, TypeOK, JobInv, CallerInv, HeapInv, Holding, Collecting
  <1>7. ResultsComplete'
    BY DEF BInv, Exit, ResultsComplete
  <1> QED
    BY <1>1, <1>2, <1>3, <1>4, <1>5, <1>6, <1>7 DEF BInv

\* A DFS job that is too late keeps the invariant: it has no pool and no path.
LEMMA TimedOutKeeps ==
    ASSUME BInv, NEW t \in Thread, TimedOut(t)
    PROVE  BInv'
  <1>1. TypeOK'
    BY DEF BInv, TimedOut, TypeOK, TPC, MPC
  <1>2. JobInv'
    BY DEF BInv, TimedOut, TypeOK, JobInv, CallerInv, Holding
  <1>3. CallerInv'
    BY DEF BInv, TimedOut, TypeOK, JobInv, CallerInv
  <1>4. ThreadInv'
    BY DEF BInv, TimedOut, TypeOK, ThreadInv
  <1>5. IdInv'
    BY IdSame DEF BInv, TimedOut, TypeOK
  <1>6. HeapInv'
    BY DEF BInv, TimedOut, TypeOK, JobInv, CallerInv, HeapInv, Holding, Collecting
  <1>7. ResultsComplete'
    BY DEF BInv, TimedOut, ResultsComplete
  <1> QED
    BY <1>1, <1>2, <1>3, <1>4, <1>5, <1>6, <1>7 DEF BInv

\* The choice of the pool keeps the invariant: the job has no path yet.
LEMMA BindKeeps ==
    ASSUME BInv, NEW t \in Thread, Bind(t)
    PROVE  BInv'
  <1>1. TypeOK'
    <2>1. tid[t] \in 0..ThreadNum
      BY Indexed, ThreadNumType DEF Bind, PoolId
    <2> QED
      BY <2>1 DEF BInv, Bind, TypeOK, TPC
  <1>2. JobInv'
    BY DEF BInv, Bind, TypeOK, JobInv, CallerInv, Holding
  <1>3. CallerInv'
    BY DEF BInv, Bind, TypeOK, JobInv, CallerInv
  <1>4. ThreadInv'
    BY DEF BInv, Bind, TypeOK, ThreadInv
  <1>5. IdInv'
    BY IdSame DEF BInv, Bind, TypeOK
  <1>6. HeapInv'
    BY DEF BInv, Bind, TypeOK, JobInv, CallerInv, HeapInv, Holding, Collecting
  <1>7. ResultsComplete'
    BY DEF BInv, Bind, ResultsComplete
  <1> QED
    BY <1>1, <1>2, <1>3, <1>4, <1>5, <1>6, <1>7 DEF BInv

\* A path keeps the invariant: it goes into the pool that its job remembers.
LEMMA PushKeeps ==
    ASSUME BInv, NEW t \in Thread, Push(t)
    PROVE  BInv'
  <1>a. tid[t] \in PoolId
    BY Indexed DEF Push
  <1>b. /\ cur[t] \in Job /\ state[cur[t]] = "new" /\ jpool[cur[t]] = tid[t]
        /\ \A i \in 1..Len(queue) : queue[i] # cur[t]
        /\ \A u \in Thread : tpc[u] \in Holding /\ cur[u] = cur[t] => u = t
    BY DEF BInv, JobInv, HeapInv, Push, Holding
  <1>c. mpc \in {"add", "wait"}
    BY Busy DEF Push, Holding
  <1>1. TypeOK'
    BY <1>a, <1>b DEF BInv, Push, TypeOK, TPC
  <1>2. JobInv'
    BY DEF BInv, Push, TypeOK, JobInv, CallerInv, Holding
  <1>3. CallerInv'
    BY DEF BInv, Push, TypeOK, JobInv, CallerInv
  <1>4. ThreadInv'
    BY DEF BInv, Push, TypeOK, ThreadInv
  <1>5. IdInv'
    BY IdSame DEF BInv, Push, TypeOK
  <1>6. HeapInv'
    <2>1. \A u \in Thread : tpc'[u] = "work" /\ phase' = "dfs" => jpool'[cur'[u]] = tid'[u]
      BY DEF BInv, Push, TypeOK, HeapInv
    <2>2. Collecting /\ Collecting'
      BY <1>c DEF Push, Collecting
    <2>3. \A k \in PoolId : heap'[k] = IF k = tid[t] THEN heap[k] \union {cur[t]} ELSE heap[k]
      BY <1>a DEF BInv, Push, TypeOK
    <2>4. ASSUME NEW j \in found'
          PROVE  /\ jpool'[j] \in PoolId /\ j \in heap'[jpool'[j]] /\ state'[j] # "free"
                 /\ \A i \in 1..Len(queue') : queue'[i] # j
                 /\ \A u \in Thread : tpc'[u] \in {"run", "work"} => cur'[u] # j
      <3>1. CASE j = cur[t]
        BY <1>a, <1>b, <2>3, <3>1 DEF BInv, TypeOK, Push, Holding
      <3>2. CASE j # cur[t]
        <4>1. j \in found
          BY <3>2 DEF Push
        <4> QED
          BY <2>2, <2>3, <4>1 DEF BInv, TypeOK, HeapInv, Push
      <3> QED
        BY <3>1, <3>2
    <2>5. \A k \in PoolId : \A j \in heap'[k] : Collecting' /\ j \in found' /\ jpool'[j] = k
      BY <1>b, <2>2, <2>3 DEF BInv, HeapInv, Push
    <2> QED
      BY <2>1, <2>4, <2>5 DEF HeapInv
  <1>7. ResultsComplete'
    BY <1>c DEF Push, ResultsComplete
  <1> QED
    BY <1>1, <1>2, <1>3, <1>4, <1>5, <1>6, <1>7 DEF BInv

\* A job without a path keeps the invariant.
LEMMA NoPathKeeps ==
    ASSUME BInv, NEW t \in Thread, NoPath(t)
    PROVE  BInv'
  <1>1. TypeOK'
    BY DEF BInv, NoPath, TypeOK, TPC, MPC
  <1>2. JobInv'
    BY DEF BInv, NoPath, TypeOK, JobInv, CallerInv, Holding
  <1>3. CallerInv'
    BY DEF BInv, NoPath, TypeOK, JobInv, CallerInv
  <1>4. ThreadInv'
    BY DEF BInv, NoPath, TypeOK, ThreadInv
  <1>5. IdInv'
    BY IdSame DEF BInv, NoPath, TypeOK
  <1>6. HeapInv'
    BY DEF BInv, NoPath, TypeOK, JobInv, CallerInv, HeapInv, Holding, Collecting
  <1>7. ResultsComplete'
    BY DEF BInv, NoPath, ResultsComplete
  <1> QED
    BY <1>1, <1>2, <1>3, <1>4, <1>5, <1>6, <1>7 DEF BInv

\* _state = 1 keeps the invariant: the thread lets go of the job.
LEMMA FinishKeeps ==
    ASSUME BInv, NEW t \in Thread, Finish(t)
    PROVE  BInv'
  <1>1. TypeOK'
    BY BagAssumption DEF BInv, Finish, TypeOK, TPC, MPC
  <1>2. JobInv'
    <2>1. cur[t] \in Job /\ state[cur[t]] = "new"
      BY DEF BInv, JobInv, Finish, Holding
    <2>2. /\ tpc' = [tpc EXCEPT ![t] = "get"] /\ cur' = [cur EXCEPT ![t] = None]
          /\ state' = [state EXCEPT ![cur[t]] = "done"] /\ UNCHANGED <<queue, jobs>>
      BY DEF Finish
    <2>3. \A i \in 1..Len(queue) : queue[i] # cur[t] /\ queue[i] \in Job
      <3>1. queue \in Seq(Job)
        BY DEF BInv, TypeOK
      <3>2. tpc[t] \in Holding
        BY DEF Finish, Holding
      <3> QED
        BY <3>1, <3>2 DEF BInv, JobInv
    <2>4. \A u \in Thread : tpc'[u] \in Holding => u # t /\ tpc[u] \in Holding /\ cur'[u] = cur[u]
      BY <2>2 DEF BInv, TypeOK, Holding
    <2>5. \A u \in Thread : tpc'[u] \in Holding => cur[u] # cur[t]
      BY <2>4 DEF BInv, JobInv, Finish, Holding
    <2>6. \A i, k \in 1..Len(queue') : queue'[i] = queue'[k] => i = k
      BY <2>2 DEF BInv, JobInv
    <2>7. \A i \in 1..Len(queue') : state'[queue'[i]] = "new"
      BY <2>1, <2>2, <2>3 DEF BInv, TypeOK, JobInv
    <2>8. \A i \in 1..Len(queue') : \A u \in Thread :
             tpc'[u] \in Holding => cur'[u] # queue'[i]
      BY <2>2, <2>4 DEF BInv, JobInv
    <2>9. \A u \in Thread : tpc'[u] \in Holding => cur'[u] \in Job /\ state'[cur'[u]] = "new"
      BY <2>1, <2>2, <2>4, <2>5 DEF BInv, TypeOK, JobInv
    <2>10. \A u, v \in Thread :
              tpc'[u] \in Holding /\ tpc'[v] \in Holding /\ cur'[u] = cur'[v] => u = v
      BY <2>4 DEF BInv, JobInv
    <2>11. \A j \in Job : state'[j] # "free" <=> state[j] # "free"
      BY <2>1, <2>2 DEF BInv, TypeOK
    <2> QED
      BY <2>2, <2>6, <2>7, <2>8, <2>9, <2>10, <2>11 DEF BInv, JobInv
  <1>3. CallerInv'
    BY DEF BInv, Finish, TypeOK, JobInv, CallerInv
  <1>4. ThreadInv'
    BY DEF BInv, Finish, TypeOK, ThreadInv
  <1>5. IdInv'
    BY IdSame DEF BInv, Finish, TypeOK
  <1>6. HeapInv'
    BY DEF BInv, Finish, TypeOK, JobInv, CallerInv, HeapInv, Holding, Collecting
  <1>7. ResultsComplete'
    BY DEF BInv, Finish, ResultsComplete
  <1> QED
    BY <1>1, <1>2, <1>3, <1>4, <1>5, <1>6, <1>7 DEF BInv

\* The end of the loop in open keeps the invariant.
LEMMA CreatedKeeps ==
    ASSUME BInv, Created
    PROVE  BInv'
  <1>1. TypeOK'
    BY DEF BInv, Created, TypeOK, TPC, MPC
  <1>2. JobInv'
    BY DEF BInv, Created, TypeOK, JobInv, CallerInv, Holding
  <1>3. CallerInv'
    BY DEF BInv, Created, TypeOK, JobInv, CallerInv
  <1>4. ThreadInv'
    BY DEF BInv, Created, TypeOK, ThreadInv
  <1>5. IdInv'
    BY IdSame DEF BInv, Created, TypeOK
  <1>6. HeapInv'
    BY DEF BInv, Created, TypeOK, JobInv, CallerInv, HeapInv, Holding, Collecting
  <1>7. ResultsComplete'
    BY DEF BInv, Created, ResultsComplete
  <1> QED
    BY <1>1, <1>2, <1>3, <1>4, <1>5, <1>6, <1>7 DEF BInv

\* Creating the memory pools keeps the invariant.
LEMMA NewPoolsKeeps ==
    ASSUME BInv, NewPools
    PROVE  BInv'
  <1>1. TypeOK'
    BY BagAssumption, ThreadNumType DEF BInv, NewPools, TypeOK, TPC, MPC
  <1>2. JobInv'
    BY DEF BInv, NewPools, TypeOK, JobInv, CallerInv, Holding
  <1>3. CallerInv'
    BY DEF BInv, NewPools, TypeOK, JobInv, CallerInv
  <1>4. ThreadInv'
    BY DEF BInv, NewPools, TypeOK, ThreadInv
  <1>5. IdInv'
    BY IdSame DEF BInv, NewPools, TypeOK
  <1>6. HeapInv'
    BY DEF BInv, NewPools, TypeOK, JobInv, CallerInv, HeapInv, Holding, Collecting
  <1>7. ResultsComplete'
    BY DEF BInv, NewPools, ResultsComplete
  <1> QED
    BY <1>1, <1>2, <1>3, <1>4, <1>5, <1>6, <1>7 DEF BInv

\* The opening of the barrier keeps the invariant.
LEMMA activateKeeps ==
    ASSUME BInv, activate
    PROVE  BInv'
  <1>1. TypeOK'
    BY DEF BInv, activate, TypeOK, TPC, MPC
  <1>2. JobInv'
    BY DEF BInv, activate, TypeOK, JobInv, CallerInv, Holding
  <1>3. CallerInv'
    BY DEF BInv, activate, TypeOK, JobInv, CallerInv
  <1>4. ThreadInv'
    BY DEF BInv, activate, TypeOK, ThreadInv
  <1>5. IdInv'
    BY IdSame DEF BInv, activate, TypeOK
  <1>6. HeapInv'
    BY DEF BInv, activate, TypeOK, JobInv, CallerInv, HeapInv, Holding, Collecting
  <1>7. ResultsComplete'
    BY DEF BInv, activate, ResultsComplete
  <1> QED
    BY <1>1, <1>2, <1>3, <1>4, <1>5, <1>6, <1>7 DEF BInv

\* A new search keeps the invariant: the pools are empty and all threads idle.
LEMMA BeginKeeps ==
    ASSUME BInv, Begin
    PROVE  BInv'
  <1>1. TypeOK'
    BY DEF BInv, Begin, TypeOK, TPC, MPC
  <1>2. JobInv'
    BY DEF BInv, Begin, TypeOK, JobInv, CallerInv, Holding
  <1>3. CallerInv'
    BY DEF BInv, Begin, TypeOK, JobInv, CallerInv
  <1>4. ThreadInv'
    BY DEF BInv, Begin, TypeOK, ThreadInv
  <1>5. IdInv'
    BY IdSame DEF BInv, Begin, TypeOK
  <1>6. HeapInv'
    <2>1. \A k \in PoolId : heap[k] = {}
      BY DEF BInv, HeapInv, Begin, Collecting
    <2>2. \A u \in Thread : tpc[u] \notin Holding
      BY Busy DEF Begin
    <2> QED
      BY <2>1, <2>2 DEF Begin, HeapInv, Holding
  <1>7. ResultsComplete'
    BY DEF BInv, Begin, ResultsComplete
  <1> QED
    BY <1>1, <1>2, <1>3, <1>4, <1>5, <1>6, <1>7 DEF BInv

\* add_worker keeps the invariant: the new job is in the queue and nowhere else.
LEMMA add_workerKeeps ==
    ASSUME BInv, NEW j \in Job, add_worker(j)
    PROVE  BInv'
  <1>1. TypeOK'
    BY BagAssumption, ThreadNumType DEF BInv, add_worker, TypeOK, TPC, MPC, Tasks!Put
  <1>2. JobInv'
    <2>1. open
      BY DEF BInv, ThreadInv, add_worker
    <2>2. /\ queue' = <<j>> \o queue /\ jobs' = Append(jobs, j)
          /\ state' = [state EXCEPT ![j] = "new"] /\ UNCHANGED <<tpc, cur>>
      BY <2>1 DEF add_worker, Tasks!Put
    <2>3. /\ Len(queue') = Len(queue) + 1 /\ queue'[1] = j
          /\ \A i \in 1..Len(queue') : i # 1 => i - 1 \in 1..Len(queue) /\ queue'[i] = queue[i - 1]
      BY <2>2 DEF BInv, TypeOK
    <2>4. /\ Len(jobs') = Len(jobs) + 1 /\ jobs'[Len(jobs) + 1] = j
          /\ \A i \in 1..Len(jobs) : jobs'[i] = jobs[i]
      BY <2>2 DEF BInv, TypeOK
    <2>5. /\ \A i \in 1..Len(queue) : queue[i] # j /\ queue[i] \in Job
          /\ \A u \in Thread : tpc[u] \in Holding => cur[u] # j
      BY DEF BInv, TypeOK, JobInv, add_worker
    <2>6. \A i, k \in 1..Len(queue') : queue'[i] = queue'[k] => i = k
      <3>1. SUFFICES ASSUME NEW i \in 1..Len(queue'), NEW k \in 1..Len(queue'),
                            queue'[i] = queue'[k]
                     PROVE  i = k
        OBVIOUS
      <3>2. CASE i = 1 \/ k = 1
        BY <2>3, <2>5, <3>1, <3>2
      <3>3. CASE i # 1 /\ k # 1
        <4>1. i - 1 = k - 1
          BY <2>3, <3>1, <3>3 DEF BInv, JobInv
        <4> QED
          BY <4>1
      <3> QED
        BY <3>2, <3>3
    <2>7. \A i \in 1..Len(queue') : state'[queue'[i]] = "new"
      <3>1. SUFFICES ASSUME NEW i \in 1..Len(queue')
                     PROVE  state'[queue'[i]] = "new"
        OBVIOUS
      <3>2. CASE i = 1
        BY <2>2, <2>3, <3>2 DEF BInv, TypeOK
      <3>3. CASE i # 1
        <4>1. i - 1 \in 1..Len(queue) /\ queue'[i] = queue[i - 1]
          BY <2>3, <3>3
        <4>2. state[queue[i - 1]] = "new" /\ queue[i - 1] \in Job /\ queue[i - 1] # j
          BY <2>5, <4>1 DEF BInv, JobInv
        <4> QED
          BY <2>2, <4>1, <4>2 DEF BInv, TypeOK
      <3> QED
        BY <3>2, <3>3
    <2>8. \A i \in 1..Len(queue') : \A u \in Thread :
             tpc'[u] \in Holding => cur'[u] # queue'[i]
      <3>1. SUFFICES ASSUME NEW i \in 1..Len(queue'), NEW u \in Thread, tpc'[u] \in Holding
                     PROVE  cur'[u] # queue'[i]
        OBVIOUS
      <3>2. CASE i = 1
        BY <2>2, <2>3, <2>5, <3>1, <3>2
      <3>3. CASE i # 1
        <4>1. i - 1 \in 1..Len(queue) /\ queue'[i] = queue[i - 1]
          BY <2>3, <3>3
        <4>2. cur[u] # queue[i - 1]
          BY <2>2, <3>1, <4>1 DEF BInv, JobInv
        <4> QED
          BY <2>2, <4>1, <4>2
      <3> QED
        BY <3>2, <3>3
    <2>9. \A u \in Thread : tpc'[u] \in Holding => cur'[u] \in Job /\ state'[cur'[u]] = "new"
      BY <2>2, <2>5 DEF BInv, TypeOK, JobInv
    <2>10. \A u, v \in Thread :
              tpc'[u] \in Holding /\ tpc'[v] \in Holding /\ cur'[u] = cur'[v] => u = v
      BY <2>2 DEF BInv, JobInv
    <2>11. ASSUME NEW x \in Job
           PROVE  state'[x] # "free" <=> \E i \in 1..Len(jobs') : jobs'[i] = x
      <3>1. CASE x = j
        BY <2>2, <2>4, <3>1 DEF BInv, TypeOK
      <3>2. CASE x # j
        <4>1. state'[x] = state[x]
          BY <2>2, <3>2 DEF BInv, TypeOK
        <4>2. (\E i \in 1..Len(jobs') : jobs'[i] = x) <=> \E i \in 1..Len(jobs) : jobs[i] = x
          <5>1. Len(jobs) \in Nat
            BY DEF BInv, TypeOK
          <5>2. 1..Len(jobs') = 1..Len(jobs) \union {Len(jobs) + 1}
            BY <2>4, <5>1
          <5> QED
            BY <2>4, <3>2, <5>2
        <4> QED
          BY <4>1, <4>2 DEF BInv, JobInv
      <3> QED
        BY <3>1, <3>2
    <2> QED
      BY <2>6, <2>7, <2>8, <2>9, <2>10, <2>11 DEF JobInv
  <1>3. CallerInv'
    BY DEF BInv, add_worker, TypeOK, JobInv, CallerInv, Tasks!Put
  <1>4. ThreadInv'
    BY DEF BInv, add_worker, TypeOK, ThreadInv, Tasks!Put
  <1>5. IdInv'
    BY IdSame DEF BInv, add_worker, TypeOK
  <1>6. HeapInv'
    BY DEF BInv, add_worker, TypeOK, JobInv, CallerInv, HeapInv, Holding, Collecting, Tasks!Put
  <1>7. ResultsComplete'
    BY DEF BInv, add_worker, ResultsComplete, Tasks!Put
  <1> QED
    BY <1>1, <1>2, <1>3, <1>4, <1>5, <1>6, <1>7 DEF BInv

\* The end of the loop that adds the jobs keeps the invariant.
LEMMA AddedKeeps ==
    ASSUME BInv, Added
    PROVE  BInv'
  <1>1. TypeOK'
    BY DEF BInv, Added, TypeOK, TPC, MPC
  <1>2. JobInv'
    BY DEF BInv, Added, TypeOK, JobInv, CallerInv, Holding
  <1>3. CallerInv'
    BY DEF BInv, Added, TypeOK, JobInv, CallerInv
  <1>4. ThreadInv'
    BY DEF BInv, Added, TypeOK, ThreadInv
  <1>5. IdInv'
    BY IdSame DEF BInv, Added, TypeOK
  <1>6. HeapInv'
    BY DEF BInv, Added, TypeOK, JobInv, CallerInv, HeapInv, Holding, Collecting
  <1>7. ResultsComplete'
    BY DEF BInv, Added, ResultsComplete
  <1> QED
    BY <1>1, <1>2, <1>3, <1>4, <1>5, <1>6, <1>7 DEF BInv

\* Polling keeps the invariant: what was passed is processed.
LEMMA wait_worker_doneKeeps ==
    ASSUME BInv, wait_worker_done
    PROVE  BInv'
  <1>1. TypeOK'
    BY DEF BInv, wait_worker_done, TypeOK, TPC, MPC
  <1>2. JobInv'
    BY DEF BInv, wait_worker_done, TypeOK, JobInv, CallerInv, Holding
  <1>3. CallerInv'
    BY DEF BInv, wait_worker_done, TypeOK, JobInv, CallerInv
  <1>4. ThreadInv'
    BY DEF BInv, wait_worker_done, TypeOK, ThreadInv
  <1>5. IdInv'
    BY IdSame DEF BInv, wait_worker_done, TypeOK
  <1>6. HeapInv'
    BY DEF BInv, wait_worker_done, TypeOK, JobInv, CallerInv, HeapInv, Holding, Collecting
  <1>7. ResultsComplete'
    BY DEF BInv, wait_worker_done, ResultsComplete
  <1> QED
    BY <1>1, <1>2, <1>3, <1>4, <1>5, <1>6, <1>7 DEF BInv

\* MergeDFS keeps the invariant: it finds and clears every pool with a path.
LEMMA MergeDFSKeeps ==
    ASSUME BInv, MergeDFS
    PROVE  BInv'
  <1>a. \A k \in PoolId : k \notin UsedPools => heap[k] = {}
    <2>1. SUFFICES ASSUME NEW k \in PoolId, NEW j \in heap[k]
                   PROVE  k \in UsedPools
      OBVIOUS
    <2>2. j \in Job /\ jpool[j] = k /\ state[j] # "free"
      BY DEF BInv, TypeOK, HeapInv
    <2>3. PICK i \in 1..Len(jobs) : jobs[i] = j
      BY <2>2 DEF BInv, JobInv
    <2>4. k # 0
      BY ThreadNumType DEF PoolId
    <2>5. j \in Elems(jobs)
      BY <2>3 DEF Elems
    <2> QED
      <3>1. jpool[j] \in {jpool[x] : x \in Elems(jobs)}
        BY <2>5
      <3> QED
        BY <2>2, <2>4, <3>1 DEF UsedPools
  <1>b. heap' = [k \in PoolId |-> {}]
    BY <1>a DEF MergeDFS
  <1>c. dfsList' = found
    <2>1. \A j \in found : jpool[j] \in PoolId /\ j \in heap[jpool[j]]
      BY DEF BInv, HeapInv, MergeDFS, Collecting
    <2>2. \A j \in found : jpool[j] \in UsedPools
      BY <1>a, <2>1
    <2>3. UsedPools \subseteq PoolId
      <3>1. \A j \in Elems(jobs) : jpool[j] \in 0..ThreadNum
        BY DEF BInv, TypeOK, Elems
      <3> QED
        <4>1. \A k \in UsedPools : k \in 0..ThreadNum /\ k # 0
          <5>1. SUFFICES ASSUME NEW k \in UsedPools
                         PROVE  k \in 0..ThreadNum /\ k # 0
            OBVIOUS
          <5>2. k # 0 /\ k \in {jpool[j] : j \in Elems(jobs)}
            BY DEF UsedPools
          <5>3. PICK j \in Elems(jobs) : k = jpool[j]
            BY <5>2
          <5> QED
            BY <3>1, <5>2, <5>3
        <4> QED
          BY <4>1, ThreadNumType DEF PoolId
    <2>4. \A k \in UsedPools : heap[k] \subseteq found
      BY <2>3 DEF BInv, HeapInv
    <2>5. dfsList' = UNION {heap[k] : k \in UsedPools}
      BY DEF MergeDFS
    <2> QED
      BY <2>1, <2>2, <2>4, <2>5
  <1>1. TypeOK'
    BY <1>b, <1>c DEF BInv, MergeDFS, TypeOK, MPC
  <1>2. JobInv'
    BY DEF BInv, MergeDFS, JobInv
  <1>3. CallerInv'
    BY DEF BInv, MergeDFS, TypeOK, JobInv, CallerInv
  <1>4. ThreadInv'
    BY DEF BInv, MergeDFS, TypeOK, ThreadInv
  <1>5. IdInv'
    BY IdSame DEF BInv, MergeDFS, TypeOK
  <1>6. HeapInv'
    BY <1>b DEF BInv, MergeDFS, HeapInv, Collecting
  <1>7. ResultsComplete'
    BY <1>c DEF MergeDFS, ResultsComplete
  <1> QED
    BY <1>1, <1>2, <1>3, <1>4, <1>5, <1>6, <1>7 DEF BInv

\* The collection of the routes keeps the invariant.
LEMMA CollectRoutesKeeps ==
    ASSUME BInv, CollectRoutes
    PROVE  BInv'
  <1>1. TypeOK'
    BY DEF BInv, CollectRoutes, TypeOK, TPC, MPC
  <1>2. JobInv'
    BY DEF BInv, CollectRoutes, TypeOK, JobInv, CallerInv, Holding
  <1>3. CallerInv'
    BY DEF BInv, CollectRoutes, TypeOK, JobInv, CallerInv
  <1>4. ThreadInv'
    BY DEF BInv, CollectRoutes, TypeOK, ThreadInv
  <1>5. IdInv'
    BY IdSame DEF BInv, CollectRoutes, TypeOK
  <1>6. HeapInv'
    BY DEF BInv, CollectRoutes, TypeOK, JobInv, CallerInv, HeapInv, Holding, Collecting
  <1>7. ResultsComplete'
    BY DEF BInv, CollectRoutes, ResultsComplete
  <1> QED
    BY <1>1, <1>2, <1>3, <1>4, <1>5, <1>6, <1>7 DEF BInv

\* Deleting the jobs keeps the invariant: all of them are processed.
LEMMA DeleteJobsKeeps ==
    ASSUME BInv, DeleteJobs
    PROVE  BInv'
  <1>1. TypeOK'
    BY DEF BInv, DeleteJobs, TypeOK, TPC, MPC, Elems
  <1>2. JobInv'
    <2>1. queue = <<>> /\ \A u \in Thread : tpc[u] \notin Holding
      BY Busy DEF DeleteJobs
    <2>2. jobs' = <<>> /\ UNCHANGED <<queue, tpc>>
      BY DEF DeleteJobs
    <2>3. \A j \in Job : state'[j] = "free"
      <3>1. \A j \in Job : j \notin Elems(jobs) => state[j] = "free"
        BY DEF BInv, JobInv, Elems
      <3> QED
        <4>1. state' = [j \in Job |-> IF j \in Elems(jobs) THEN "free" ELSE state[j]]
          BY DEF DeleteJobs
        <4> QED
          BY <3>1, <4>1
    <2> QED
      BY <2>1, <2>2, <2>3 DEF JobInv
  <1>3. CallerInv'
    BY DEF BInv, DeleteJobs, TypeOK, JobInv, CallerInv, Elems
  <1>4. ThreadInv'
    BY DEF BInv, DeleteJobs, TypeOK, ThreadInv, Elems
  <1>5. IdInv'
    BY IdSame DEF BInv, DeleteJobs, TypeOK
  <1>6. HeapInv'
    BY DEF BInv, DeleteJobs, TypeOK, JobInv, CallerInv, HeapInv, Holding, Collecting, Elems
  <1>7. ResultsComplete'
    BY DEF BInv, DeleteJobs, ResultsComplete, Elems
  <1> QED
    BY <1>1, <1>2, <1>3, <1>4, <1>5, <1>6, <1>7 DEF BInv

\* The flush of the task list keeps the invariant: no job is left in it.
LEMMA stopKeeps ==
    ASSUME BInv, stop
    PROVE  BInv'
  <1>1. TypeOK'
    BY DEF BInv, stop, TypeOK, TPC, MPC, Tasks!Close
  <1>2. JobInv'
    BY DEF BInv, stop, TypeOK, JobInv, CallerInv, Holding, Tasks!Close
  <1>3. CallerInv'
    BY DEF BInv, stop, TypeOK, JobInv, CallerInv, Tasks!Close
  <1>4. ThreadInv'
    BY DEF BInv, stop, TypeOK, ThreadInv, Tasks!Close
  <1>5. IdInv'
    BY IdSame DEF BInv, stop, TypeOK
  <1>6. HeapInv'
    BY DEF BInv, stop, TypeOK, JobInv, CallerInv, HeapInv, Holding, Collecting, Tasks!Close
  <1>7. ResultsComplete'
    BY DEF BInv, stop, ResultsComplete, Tasks!Close
  <1> QED
    BY <1>1, <1>2, <1>3, <1>4, <1>5, <1>6, <1>7 DEF BInv

\* join keeps the invariant.
LEMMA joinKeeps ==
    ASSUME BInv, join
    PROVE  BInv'
  <1>1. TypeOK'
    BY DEF BInv, join, TypeOK, TPC, MPC
  <1>2. JobInv'
    BY DEF BInv, join, TypeOK, JobInv, CallerInv, Holding
  <1>3. CallerInv'
    BY DEF BInv, join, TypeOK, JobInv, CallerInv
  <1>4. ThreadInv'
    BY DEF BInv, join, TypeOK, ThreadInv
  <1>5. IdInv'
    BY IdSame DEF BInv, join, TypeOK
  <1>6. HeapInv'
    BY DEF BInv, join, TypeOK, JobInv, CallerInv, HeapInv, Holding, Collecting
  <1>7. ResultsComplete'
    BY DEF BInv, join, ResultsComplete
  <1> QED
    BY <1>1, <1>2, <1>3, <1>4, <1>5, <1>6, <1>7 DEF BInv

\* Deleting the pools keeps the invariant: all threads have ended.
LEMMA FreePoolsKeeps ==
    ASSUME BInv, FreePools
    PROVE  BInv'
  <1>1. TypeOK'
    BY DEF BInv, FreePools, TypeOK, TPC, MPC
  <1>2. JobInv'
    BY DEF BInv, FreePools, TypeOK, JobInv, CallerInv, Holding
  <1>3. CallerInv'
    BY DEF BInv, FreePools, TypeOK, JobInv, CallerInv
  <1>4. ThreadInv'
    BY DEF BInv, FreePools, TypeOK, ThreadInv
  <1>5. IdInv'
    BY IdSame DEF BInv, FreePools, TypeOK
  <1>6. HeapInv'
    BY DEF BInv, FreePools, TypeOK, JobInv, CallerInv, HeapInv, Holding, Collecting
  <1>7. ResultsComplete'
    BY DEF BInv, FreePools, ResultsComplete
  <1> QED
    BY <1>1, <1>2, <1>3, <1>4, <1>5, <1>6, <1>7 DEF BInv

\* The invariant holds at first.
LEMMA InitHolds == Init => BInv
  <1>1. SUFFICES ASSUME Init PROVE BInv
    OBVIOUS
  <1>2. TypeOK
    BY <1>1, ThreadNumType, BagAssumption DEF Init, TypeOK, TPC, MPC
  <1>3. JobInv /\ CallerInv /\ ThreadInv /\ HeapInv /\ ResultsComplete
    BY <1>1 DEF Init, JobInv, CallerInv, ThreadInv, HeapInv, ResultsComplete, Holding
  <1>4. Named = {}
    BY <1>1 DEF Init, Named
  <1>5. IdInv
    BY <1>1, <1>4, FS_EmptySet DEF Init, IdInv
  <1> QED
    BY <1>2, <1>3, <1>5 DEF BInv

\* The steps of the pool, of its threads and of the caller keep the jobs, the
\* pools and the search consistent: BInv is an inductive invariant.
THEOREM Invariance == Spec => []BInv
  <1>1. BInv /\ [Next]_vars => BInv'
    <2>1. SUFFICES ASSUME BInv, [Next]_vars PROVE BInv'
      OBVIOUS
    <2>2. CASE UNCHANGED vars
      BY <2>1, <2>2 DEF BInv, vars,
                        TypeOK, JobInv, CallerInv, ThreadInv, IdInv, Named, HeapInv, Collecting,
                        ResultsComplete
    <2>3. ASSUME NEW t \in Thread, Create(t) \/ Svc(t)
          PROVE  BInv'
      BY <2>1, <2>3, CreateKeeps, TakeIdKeeps, GetKeeps, ExitKeeps, TimedOutKeeps, BindKeeps,
         PushKeeps, NoPathKeeps, FinishKeeps DEF Svc
    <2>4. CASE Created \/ NewPools \/ activate
      BY <2>1, <2>4, CreatedKeeps, NewPoolsKeeps, activateKeeps
    <2>5. CASE Begin \/ Search
      BY <2>1, <2>5, BeginKeeps, add_workerKeeps, AddedKeeps, wait_worker_doneKeeps,
         MergeDFSKeeps, CollectRoutesKeeps, DeleteJobsKeeps DEF Search
    <2>6. CASE stop \/ join \/ FreePools
      BY <2>1, <2>6, stopKeeps, joinKeeps, FreePoolsKeeps
    <2> QED
      BY <2>1, <2>2, <2>3, <2>4, <2>5, <2>6 DEF Next, Ended
  <1> QED
    BY <1>1, InitHolds, PTL DEF Spec

\* The searches never delete a job that is queued or that a thread works on,
\* although they only poll _state.
THEOREM JobSafety == Spec => []NoJobFreedInUse
  <1>1. BInv => NoJobFreedInUse
    BY DEF BInv, JobInv, NoJobFreedInUse
  <1> QED
    BY <1>1, Invariance, PTL

\* MergeDFS, SetTopK and stop touch the memory pools when no thread does.
THEOREM CallerExclusion == Spec => []CallerAlone
  <1>1. BInv => CallerAlone
    BY Busy DEF CallerAlone
  <1> QED
    BY <1>1, Invariance, PTL

\* m_tmPoolList[threadID] exists and belongs to one thread.
THEOREM PoolPrivacy == Spec => []PoolsPrivate
  <1>1. ASSUME BInv, NEW t \in Thread, tpc[t] \in Holding
        PROVE  tid[t] \in 1..pools /\ \A u \in Thread \ {t} : tid[u] # tid[t]
    <2>1. tid[t] \in PoolId
      BY <1>1, Indexed DEF Holding
    <2>2. pools = ThreadNum
      BY <1>1, Busy DEF BInv, ThreadInv
    <2>3. tid[t] # 0
      BY <2>1, ThreadNumType DEF PoolId
    <2> QED
      BY <1>1, <2>1, <2>2, <2>3 DEF BInv, IdInv, PoolId
  <1>2. BInv => PoolsPrivate
    BY <1>1 DEF PoolsPrivate
  <1> QED
    BY <1>2, Invariance, PTL

\* MergeDFS collects the paths of this search, all of them and no others.
THEOREM Results == Spec => []ResultsComplete
  <1>1. BInv => ResultsComplete
    BY DEF BInv
  <1> QED
    BY <1>1, Invariance, PTL

\* A request leaves nothing in the memory pools for the next one.
THEOREM Cleanliness == Spec => []PoolsClean
  <1>1. BInv => PoolsClean
    BY DEF BInv, HeapInv, Collecting, PoolsClean
  <1> QED
    BY <1>1, Invariance, PTL

=============================================================================
