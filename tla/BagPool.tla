------------------------------- MODULE BagPool -------------------------------
(***************************************************************************)
(* The search threads of one Route: MyThreadPool of Route/bag, with one    *)
(* ThreadMemPool per thread, and the two searches that use it for every    *)
(* planning request, DFSearch::DoSearch and RouteSearch::DoSearch.  The    *)
(* caller (the processor thread that owns the Route) creates a job per     *)
(* path, queues it, polls the _state of the jobs without any lock, reads   *)
(* what the jobs left in the memory pools of the threads and deletes the   *)
(* jobs.  A path that a DFS job pushes is represented by the job.          *)
(***************************************************************************)
EXTENDS Integers, Sequences, FiniteSets

CONSTANTS
    Thread, \* the threads asked for in open(thread_num, ...)
    Job,    \* the addresses of MyWorker objects
    None    \* NULL

ThreadNum == Cardinality(Thread)    \* BagParam::m_threadNum
PoolId == 1..ThreadNum              \* the indices of m_tmPoolList, from 1

ASSUME BagAssumption == IsFiniteSet(Thread) /\ Thread # {} /\ None \notin Job

VARIABLES
    queue, open,    \* m_task_list, as the atomic queue of TaskQueue
    nextId,         \* m_threadID + 1
    pools,          \* the size of m_tmPoolList
    heap,           \* the paths in m_dfsHeapMap of every ThreadMemPool
    tpc,            \* where a thread is
    tid,            \* its threadID + 1
    cur,            \* the job it works on
    state,          \* _state of every job, or "free" if it does not exist
    jpool,          \* DFSWorker::m_tmPool
    mpc,            \* where the caller is
    phase,          \* which search the caller is in
    jobs,           \* its vector of jobs
    idx,            \* i of wait_worker_done
    dfsList,        \* the paths it merged
    found           \* auxiliary: the jobs that pushed a path in this search

poolVars == <<nextId, pools, heap>>
threadVars == <<tpc, tid, cur>>
jobVars == <<state, jpool>>
callerVars == <<mpc, phase, jobs, idx, dfsList>>
vars == <<queue, open, poolVars, threadVars, jobVars, callerVars, found>>

Tasks == INSTANCE TaskQueue WITH Node <- Job

\* none: not created; barrier: in run_svc; id: at the start of svc; get: at
\* m_task_list.get(); run: in doWork; work: in doWork, bound to a pool;
\* done: doWork has returned; exit: svc has returned.
TPC == {"none", "barrier", "id", "get", "run", "work", "done", "exit"}
Holding == {"run", "work", "done"}

MPC == {"open", "pools", "activate", "idle", "add", "wait", "merge", "delete",
        "join", "free", "end"}

Elems(s) == {s[i] : i \in 1..Len(s)}

Init ==
    /\ queue = <<>> /\ open = TRUE
    /\ nextId = 1 /\ pools = 0 /\ heap = [k \in PoolId |-> {}]
    /\ tpc = [t \in Thread |-> "none"]
    /\ tid = [t \in Thread |-> 0]
    /\ cur = [t \in Thread |-> None]
    /\ state = [j \in Job |-> "free"] /\ jpool = [j \in Job |-> 0]
    /\ mpc = "open" /\ phase = "dfs" /\ jobs = <<>> /\ idx = 1 /\ dfsList = {}
    /\ found = {}

-----------------------------------------------------------------------------
(* The life of the pool. *)

\* open: one pthread_create; the thread starts in run_svc, at the barrier.
Create(t) ==
    /\ mpc = "open" /\ tpc[t] = "none"
    /\ tpc' = [tpc EXCEPT ![t] = "barrier"]
    /\ UNCHANGED <<queue, open, poolVars, tid, cur, jobVars, callerVars, found>>

\* open: all threads were created, or pthread_create failed, which ends the
\* loop and makes open return -1; Route::Init and SmartOptWorker ignore it.
Created ==
    /\ mpc = "open"
    /\ mpc' = "pools"
    /\ UNCHANGED <<queue, open, poolVars, threadVars, jobVars, phase, jobs, idx, dfsList, found>>

\* open: a memory pool for each of the thread_num threads.
NewPools ==
    /\ mpc = "pools"
    /\ pools' = ThreadNum
    /\ mpc' = "activate"
    /\ UNCHANGED <<queue, open, nextId, heap, threadVars, jobVars, phase, jobs, idx, dfsList, found>>

\* activate: the barrier of thread_num + 1 opens when the caller and all the
\* threads are there.
activate ==
    /\ mpc = "activate" /\ \A t \in Thread : tpc[t] = "barrier"
    /\ tpc' = [t \in Thread |-> "id"]
    /\ mpc' = "idle"
    /\ UNCHANGED <<queue, open, poolVars, tid, cur, jobVars, phase, jobs, idx, dfsList, found>>

\* Mutant: the task list is not flushed.
stop_NoFlush ==
    /\ mpc = "idle"
    /\ mpc' = "join"
    /\ UNCHANGED <<queue, open, poolVars, threadVars, jobVars, phase, jobs, idx, dfsList, found>>

\* ~MyThreadPool: stop() flushes the task list.
stop ==
    /\ mpc = "idle"
    /\ Tasks!Close
    /\ mpc' = "join"
    /\ UNCHANGED <<poolVars, threadVars, jobVars, phase, jobs, idx, dfsList, found>>

\* stop: join() waits for every thread.
join ==
    /\ mpc = "join" /\ \A t \in Thread : tpc[t] = "exit"
    /\ mpc' = "free"
    /\ UNCHANGED <<queue, open, poolVars, threadVars, jobVars, phase, jobs, idx, dfsList, found>>

\* stop: the memory pools are deleted.
FreePools ==
    /\ mpc = "free"
    /\ pools' = 0
    /\ mpc' = "end"
    /\ UNCHANGED <<queue, open, nextId, heap, threadVars, jobVars, phase, jobs, idx, dfsList, found>>

-----------------------------------------------------------------------------
(* A thread: svc. *)

\* svc: threadID = m_threadID++ under m_mutex.
TakeId(t) ==
    /\ tpc[t] = "id"
    /\ tid' = [tid EXCEPT ![t] = nextId]
    /\ nextId' = nextId + 1
    /\ tpc' = [tpc EXCEPT ![t] = "get"]
    /\ UNCHANGED <<queue, open, pools, heap, cur, jobVars, callerVars, found>>

\* svc: worker = m_task_list.get()
Get(t) ==
    /\ tpc[t] = "get"
    /\ \E j \in Job : Tasks!Take(j) /\ cur' = [cur EXCEPT ![t] = j]
    /\ tpc' = [tpc EXCEPT ![t] = "run"]
    /\ UNCHANGED <<poolVars, tid, jobVars, callerVars, found>>

\* svc: get() returned NULL.
Exit(t) ==
    /\ tpc[t] = "get" /\ ~open
    /\ tpc' = [tpc EXCEPT ![t] = "exit"]
    /\ UNCHANGED <<queue, open, poolVars, tid, cur, jobVars, callerVars, found>>

\* DFSWorker::doWork: IsDFSTimeOut(), nothing is done and m_tmPool stays NULL.
TimedOut(t) ==
    /\ tpc[t] = "run" /\ phase = "dfs"
    /\ tpc' = [tpc EXCEPT ![t] = "done"]
    /\ UNCHANGED <<queue, open, poolVars, tid, cur, jobVars, callerVars, found>>

\* Mutant: the job does not remember its pool.
Bind_Lost(t) ==
    /\ tpc[t] = "run"
    /\ tpc' = [tpc EXCEPT ![t] = "work"]
    /\ UNCHANGED <<queue, open, poolVars, tid, cur, jobVars, callerVars, found>>

\* DFSWorker::doWork: m_tmPool = m_tmPoolList[threadID].  RouteWorker uses
\* no pool.
Bind(t) ==
    /\ tpc[t] = "run"
    /\ jpool' = IF phase = "dfs" THEN [jpool EXCEPT ![cur[t]] = tid[t]] ELSE jpool
    /\ tpc' = [tpc EXCEPT ![t] = "work"]
    /\ UNCHANGED <<queue, open, poolVars, tid, cur, state, callerVars, found>>

\* DFSWorker::doWork: the joined path goes into the heap of the pool.
Push(t) ==
    /\ tpc[t] = "work" /\ phase = "dfs"
    /\ heap' = [heap EXCEPT ![tid[t]] = @ \union {cur[t]}]
    /\ found' = found \union {cur[t]}
    /\ tpc' = [tpc EXCEPT ![t] = "done"]
    /\ UNCHANGED <<queue, open, nextId, pools, tid, cur, jobVars, callerVars>>

\* doWork: no path (a day without one, a timeout inside DFS::Search), or a
\* RouteWorker, whose path is its own.
NoPath(t) ==
    /\ tpc[t] = "work"
    /\ tpc' = [tpc EXCEPT ![t] = "done"]
    /\ UNCHANGED <<queue, open, poolVars, tid, cur, jobVars, callerVars, found>>

\* Mutant: a job that timed out is not marked as done.
Finish_Unmarked(t) ==
    /\ tpc[t] = "done"
    /\ state' = IF jpool[cur[t]] = 0 THEN state ELSE [state EXCEPT ![cur[t]] = "done"]
    /\ cur' = [cur EXCEPT ![t] = None]
    /\ tpc' = [tpc EXCEPT ![t] = "get"]
    /\ UNCHANGED <<queue, open, poolVars, tid, jpool, callerVars, found>>

\* svc: worker->_state = 1, the last access of the thread to the job.
Finish(t) ==
    /\ tpc[t] = "done"
    /\ state' = [state EXCEPT ![cur[t]] = "done"]
    /\ cur' = [cur EXCEPT ![t] = None]
    /\ tpc' = [tpc EXCEPT ![t] = "get"]
    /\ UNCHANGED <<queue, open, poolVars, tid, jpool, callerVars, found>>

-----------------------------------------------------------------------------
(* The caller: BagSearch::DoSearch and the two searches. *)

\* BagSearch::DoSearch: GetCBP calls SetTopK on all the pools, and unless
\* the plan has timed out the DFS search starts.
Begin ==
    /\ mpc = "idle"
    /\ mpc' = "add" /\ phase' = "dfs" /\ found' = {}
    /\ UNCHANGED <<queue, open, poolVars, threadVars, jobVars, jobs, idx, dfsList>>

\* DoSearch: new DFSWorker or RouteWorker, jobs.push_back, add_worker.
add_worker(j) ==
    /\ mpc = "add" /\ state[j] = "free"
    /\ state' = [state EXCEPT ![j] = "new"]
    /\ jpool' = [jpool EXCEPT ![j] = 0]
    /\ jobs' = Append(jobs, j)
    /\ Tasks!Put(j)
    /\ UNCHANGED <<poolVars, threadVars, mpc, phase, idx, dfsList, found>>

\* DoSearch: all jobs are queued.
Added ==
    /\ mpc = "add"
    /\ mpc' = "wait" /\ idx' = 1
    /\ UNCHANGED <<queue, open, poolVars, threadVars, jobVars, phase, jobs, dfsList, found>>

\* Mutant: only the last job is waited for.
wait_worker_done_Last ==
    /\ mpc = "wait"
    /\ \/ /\ jobs # <<>> /\ state[jobs[Len(jobs)]] = "done" /\ idx <= Len(jobs)
          /\ idx' = Len(jobs) + 1 /\ UNCHANGED mpc
       \/ /\ idx > Len(jobs)
          /\ mpc' = "merge" /\ UNCHANGED idx
    /\ UNCHANGED <<queue, open, poolVars, threadVars, jobVars, phase, jobs, dfsList, found>>

\* wait_worker_done: workers[i]->_state == 1 moves i on; past the end it
\* returns.
wait_worker_done ==
    /\ mpc = "wait"
    /\ \/ /\ idx <= Len(jobs) /\ state[jobs[idx]] = "done"
          /\ idx' = idx + 1 /\ UNCHANGED mpc
       \/ /\ idx > Len(jobs)
          /\ mpc' = "merge" /\ UNCHANGED idx
    /\ UNCHANGED <<queue, open, poolVars, threadVars, jobVars, phase, jobs, dfsList, found>>

\* The memory pools that the jobs used.
UsedPools == {jpool[j] : j \in Elems(jobs)} \ {0}

\* DFSearch::MergeDFS: the paths in the pools that the jobs used are copied,
\* and the pools are cleared.  (PathPool follows the heaps that the paths go
\* through; here every job has a point set of its own, and so a heap.)
MergeDFS ==
    /\ mpc = "merge" /\ phase = "dfs"
    /\ dfsList' = UNION {heap[k] : k \in UsedPools}
    /\ heap' = [k \in PoolId |-> IF k \in UsedPools THEN {} ELSE heap[k]]
    /\ mpc' = "delete"
    /\ UNCHANGED <<queue, open, nextId, pools, threadVars, jobVars, phase, jobs, idx, found>>

\* RouteSearch::DoSearch: the paths of the jobs are evaluated and the best
\* one is copied.
CollectRoutes ==
    /\ mpc = "merge" /\ phase = "route"
    /\ mpc' = "delete"
    /\ UNCHANGED <<queue, open, poolVars, threadVars, jobVars, phase, jobs, idx, dfsList, found>>

\* The searches delete their jobs.  BagSearch::DoSearch goes on with the
\* route search, unless the plan has timed out, and deletes the paths.
DeleteJobs ==
    /\ mpc = "delete"
    /\ state' = [j \in Job |-> IF j \in Elems(jobs) THEN "free" ELSE state[j]]
    /\ jobs' = <<>>
    /\ \/ phase = "dfs" /\ mpc' = "add" /\ phase' = "route" /\ UNCHANGED dfsList
       \/ mpc' = "idle" /\ dfsList' = {} /\ UNCHANGED phase
    /\ UNCHANGED <<queue, open, poolVars, threadVars, jpool, idx, found>>

-----------------------------------------------------------------------------

Svc(t) ==
    \/ TakeId(t) \/ Get(t) \/ Exit(t)
    \/ TimedOut(t) \/ Bind(t) \/ Push(t) \/ NoPath(t) \/ Finish(t)

Search ==
    \/ \E j \in Job : add_worker(j)
    \/ Added \/ wait_worker_done \/ MergeDFS \/ CollectRoutes \/ DeleteJobs

\* The caller has deleted the pool.
Ended == mpc = "end" /\ UNCHANGED vars

Next ==
    \/ \E t \in Thread : Create(t) \/ Svc(t)
    \/ Created \/ NewPools \/ activate
    \/ Begin \/ Search
    \/ stop \/ join \/ FreePools \/ Ended

Spec == Init /\ [][Next]_vars

\* Every thread runs: a thread of the pool takes its steps, and the caller
\* goes on with what it has begun.
FairSpec ==
    /\ Spec
    /\ \A t \in Thread : WF_vars(Svc(t))
    /\ WF_vars(Added \/ wait_worker_done \/ MergeDFS \/ CollectRoutes \/ DeleteJobs)
    /\ WF_vars(NewPools \/ activate \/ join \/ FreePools)

-----------------------------------------------------------------------------

TypeOK ==
    /\ queue \in Seq(Job) /\ open \in BOOLEAN
    /\ nextId \in Nat /\ pools \in Nat
    /\ heap \in [PoolId -> SUBSET Job]
    /\ tpc \in [Thread -> TPC] /\ tid \in [Thread -> Nat]
    /\ cur \in [Thread -> Job \union {None}]
    /\ state \in [Job -> {"free", "new", "done"}] /\ jpool \in [Job -> 0..ThreadNum]
    /\ mpc \in MPC /\ phase \in {"dfs", "route"}
    /\ jobs \in Seq(Job) /\ idx \in Nat
    /\ dfsList \in SUBSET Job /\ found \in SUBSET Job

\* A job that has not been processed is in one place: in the queue, or in
\* the hands of one thread; a processed or a deleted one is nowhere.
JobInv ==
    /\ \A i, k \in 1..Len(queue) : queue[i] = queue[k] => i = k
    /\ \A i \in 1..Len(queue) : state[queue[i]] = "new"
    /\ \A i \in 1..Len(queue) : \A t \in Thread : tpc[t] \in Holding => cur[t] # queue[i]
    /\ \A t \in Thread : tpc[t] \in Holding => cur[t] \in Job /\ state[cur[t]] = "new"
    /\ \A t, u \in Thread : tpc[t] \in Holding /\ tpc[u] \in Holding /\ cur[t] = cur[u] => t = u
    /\ \A j \in Job : state[j] # "free" <=> \E i \in 1..Len(jobs) : jobs[i] = j

\* How far the caller is says which jobs are processed.
CallerInv ==
    /\ mpc = "wait" => \A i \in 1..Len(jobs) : i < idx => state[jobs[i]] = "done"
    /\ mpc \in {"merge", "delete"} => \A i \in 1..Len(jobs) : state[jobs[i]] = "done"
    /\ mpc \notin {"add", "wait", "merge", "delete"} => jobs = <<>>

\* The threads run between the barrier and the join.
ThreadInv ==
    /\ mpc \in {"open", "pools", "activate"} =>
          \A t \in Thread : tpc[t] \in {"none", "barrier"}
    /\ mpc \notin {"open", "pools", "activate"} =>
          \A t \in Thread : tpc[t] \notin {"none", "barrier"}
    /\ mpc \in {"free", "end"} => \A t \in Thread : tpc[t] = "exit"
    /\ mpc \notin {"open", "pools", "end"} => pools = ThreadNum
    /\ open <=> mpc \notin {"join", "free", "end"}
    /\ open => \A t \in Thread : tpc[t] # "exit"

\* Every thread that is past TakeId has an index of its own, below m_threadID.
Named == {t \in Thread : tid[t] # 0}

IdInv ==
    /\ \A t \in Thread : tid[t] = 0 <=> tpc[t] \in {"none", "barrier", "id"}
    /\ \A t \in Thread : tid[t] < nextId
    /\ \A t, u \in Thread : tid[t] = tid[u] /\ tid[t] # 0 => t = u
    /\ nextId = Cardinality(Named) + 1

\* The result of the DFS search is what the jobs of this request found, all
\* of it, wherever it was found, whichever jobs timed out, and nothing of an
\* earlier request.
ResultsComplete == mpc = "delete" /\ phase = "dfs" => dfsList = found

\* The DFS search is running and its result has not been merged yet.
Collecting == phase = "dfs" /\ mpc \in {"add", "wait", "merge"}

\* While the search collects paths, each is in the pool that its job
\* remembers; the job exists, and no thread will bind it again.  At any other
\* time the pools are empty.
HeapInv ==
    /\ \A t \in Thread : tpc[t] = "work" /\ phase = "dfs" => jpool[cur[t]] = tid[t]
    /\ Collecting =>
          \A j \in found :
              /\ jpool[j] \in PoolId /\ j \in heap[jpool[j]] /\ state[j] # "free"
              /\ \A i \in 1..Len(queue) : queue[i] # j
              /\ \A t \in Thread : tpc[t] \in {"run", "work"} => cur[t] # j
    /\ \A k \in PoolId : \A j \in heap[k] : Collecting /\ j \in found /\ jpool[j] = k

BInv == TypeOK /\ JobInv /\ CallerInv /\ ThreadInv /\ IdInv /\ HeapInv /\ ResultsComplete

\* No job is deleted while it is queued or while a thread works on it: the
\* unlocked polling of _state is enough, because setting it is the last
\* thing a thread does with a job.
NoJobFreedInUse ==
    /\ \A t \in Thread : tpc[t] \in Holding => state[cur[t]] # "free"
    /\ \A i \in 1..Len(queue) : state[queue[i]] # "free"

\* When the caller reads, clears, resizes or deletes the memory pools of the
\* threads, no thread has a job, although no lock protects the pools.
CallerAlone ==
    mpc \in {"idle", "merge", "delete", "free", "end"} => \A t \in Thread : tpc[t] \notin Holding

\* A working thread has a memory pool that exists and that no other thread
\* has.
PoolsPrivate ==
    \A t \in Thread :
        tpc[t] \in Holding =>
            /\ tid[t] \in 1..pools
            /\ \A u \in Thread \ {t} : tid[u] # tid[t]

\* Between two requests the memory pools are empty.
PoolsClean == mpc = "idle" => \A k \in PoolId : heap[k] = {}

\* A search that was begun comes to an end once its jobs are queued.
SearchEnds == mpc = "wait" ~> mpc \in {"idle", "add"}

\* Deleting the pool ends: the threads blocked in get() are woken up.
StopEnds == mpc = "join" ~> mpc = "end"

=============================================================================
