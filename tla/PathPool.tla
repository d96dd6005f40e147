------------------------------ MODULE PathPool ------------------------------
(***************************************************************************)
(* The paths of the DFS stage: SPathAlloc and ThreadMemPool (one per       *)
(* thread), the jobs that put paths into them (DFSWorker::doWork with      *)
(* JoinDayPath and the PushPath of the day searches), and the merge of the *)
(* pools into the list that the route stage gets (DFSearch).  A path is    *)
(* known by the address of its SPath object.  Pools are private to their   *)
(* threads (BagPool, PoolsPrivate), so the jobs are run here one after the *)
(* other, each in any pool.                                                *)
(***************************************************************************)
EXTENDS PathHeap, Sequences, Bags

CONSTANTS
    Pool,       \* the memory pools
    Job,        \* the rich paths to search: [key, miss, hot, days], with the
                \* day paths [clash, score, hash] each day search comes to
    DayK,       \* BagParam::m_dfsDayHeapLimit
    HeapK,      \* BagParam::m_dfsSPSHashHeapLimit
    ListK,      \* m_cbP.m_cbDFSHeapLimit
    InitLen,    \* BagParam::m_spAllocLimit
    ExpandLen,  \* m_initLen / 10 + 1
    None        \* no job

Key == {j.key : j \in Job}  \* the values of HashPointSet()

ASSUME PoolAssumption ==
    /\ DayK \in Nat \ {0} /\ HeapK \in Nat \ {0} /\ ListK \in Nat
    /\ InitLen \in Nat /\ ExpandLen \in Nat \ {0}
    /\ None \notin Job \union Pool

\* The levels and the clashes count something.
ASSUME JobAssumption ==
    \A j \in Job :
        /\ j.miss \in Nat /\ j.hot \in Int
        /\ j.days \in Seq(SUBSET [clash : Nat, score : Int, hash : Nat]) /\ j.days # <<>>

VARIABLES
    free,       \* m_freeS of every pool, as a bag
    born,       \* the number of objects it has created
    heaps,      \* m_dfsHeapMap of every pool
    left,       \* the jobs of the request that have not been run
    job, pool,  \* the one that runs, and its pool
    offers,     \* what its day search has still to offer to PushPath
    dayHeap,    \* m_heap of the day search
    blockIdx,   \* the day that is searched
    dayPaths,   \* the paths in daySPList
    joins,      \* for every choice of a path of each day so far, the totals of
                \* JoinDayPath; in the end, those that it has still to join
    merging,    \* the paths that MergeDFS has still to push
    merged,     \* dfsHeapMap of MergeDFS
    dfsList,    \* the result
    seen,       \* auxiliary: every joined path of the request, of every key
    pc

vars == <<free, born, heaps, left, job, pool, offers, dayHeap, blockIdx, dayPaths, joins,
          merging, merged, dfsList, seen, pc>>
jobVars == <<left, job, pool>>
dayVars == <<offers, dayHeap, blockIdx, dayPaths>>
mergeVars == <<merging, merged, dfsList>>

\* A path without its address.
Plain(p) == [miss |-> p.miss, clash |-> p.clash, score |-> p.score, hash |-> p.hash, hot |-> p.hot]
Addr(S) == {p.addr : p \in S}

\* SPathAlloc::Expand: n new objects.
Fresh(from, n) == SetToBag(from + 1..from + n)

\* SPathAlloc::Delete, of a set of objects.
Deleted(stack, S) == stack (+) SetToBag(S)
NoHeaps == [k \in Key |-> EmptyHeap]

Init ==
    /\ free = [p \in Pool |-> Fresh(0, InitLen)]
    /\ born = [p \in Pool |-> InitLen]
    /\ heaps = [p \in Pool |-> NoHeaps]
    /\ left \in SUBSET Job
    /\ job = None /\ pool = None
    /\ offers = {} /\ dayHeap = EmptyHeap /\ blockIdx = 0 /\ dayPaths = {} /\ joins = {}
    /\ merging = {} /\ merged = NoHeaps /\ dfsList = {} /\ seen = [k \in Key |-> {}]
    /\ pc = "idle"

-----------------------------------------------------------------------------
(* SPathAlloc *)

\* New: the objects to choose from, more of them if there were none.
Stack(p) == IF free[p] = EmptyBag THEN Fresh(born[p], ExpandLen) ELSE free[p]
Born(p) == IF free[p] = EmptyBag THEN born[p] + ExpandLen ELSE born[p]

\* The address that New returns.  Which free object that is makes no
\* difference, so it is a fixed one of them.
NewAddr == CHOOSE a \in BagToSet(Stack(pool)) : TRUE

\* Mutant: what Push gives back is not deleted.
NewAndDelete_Leak(h, topK, path) ==
    /\ free' = [free EXCEPT ![pool] = Stack(pool) (-) SetToBag({path.addr})]
    /\ born' = [born EXCEPT ![pool] = Born(pool)]

\* New, then Push into h, then Delete of what Push gives back.
NewAndDelete(h, topK, path) ==
    /\ free' = [free EXCEPT ![pool] =
                   Deleted(Stack(pool) (-) SetToBag({path.addr}), Addr(PushReturns(h, topK, path)))]
    /\ born' = [born EXCEPT ![pool] = Born(pool)]

-----------------------------------------------------------------------------
(* A job: DFSWorker::doWork *)

\* JoinDayPath: the totals of no days, and those with a day more;
\* CalHashPointOrder goes over the days in the same order.
NoDays == [clash |-> 0, score |-> 0, hash |-> 0]

AddDay(a, p) ==
    [clash |-> a.clash + p.clash, score |-> a.score + p.score, hash |-> a.hash * 10 + p.hash]

\* A thread takes a job; GetDFSHeap.
Start ==
    /\ pc = "idle" /\ left # {}
    /\ \E j \in left, p \in Pool :
          job' = j /\ pool' = p /\ left' = left \ {j} /\ offers' = j.days[1]
    /\ dayHeap' = EmptyHeap /\ blockIdx' = 1 /\ dayPaths' = {} /\ joins' = {NoDays}
    /\ pc' = "day"
    /\ UNCHANGED <<free, born, heaps, mergeVars, seen>>

\* DFS::PushPath: a day path is pushed into the heap of its day.
PushPath ==
    /\ pc = "day"
    /\ \E o \in offers :
          /\ offers' = offers \ {o}
          /\ LET path == [miss |-> 0, clash |-> o.clash, score |-> o.score, hash |-> o.hash,
                          hot |-> 0, addr |-> NewAddr]
             IN IF CanPush(dayHeap, DayK, o.score, 0, 0)
                THEN NewAndDelete(dayHeap, DayK, path) /\ dayHeap' = Push(dayHeap, DayK, path)
                ELSE UNCHANGED <<free, born, dayHeap>>
    /\ UNCHANGED <<heaps, jobVars, blockIdx, dayPaths, joins, mergeVars, seen, pc>>

\* doWork: the search of a day is over, before or after all the orders have
\* been tried; then comes the next day, or the join.
DayDone ==
    /\ pc = "day"
    /\ dayPaths' = dayPaths \union dayHeap.q
    /\ joins' = {AddDay(a, p) : a \in joins, p \in dayHeap.q}
    /\ dayHeap' = EmptyHeap
    /\ blockIdx' = blockIdx + 1
    /\ IF blockIdx < Len(job.days)
       THEN offers' = job.days[blockIdx + 1] /\ pc' = pc
       ELSE offers' = {} /\ pc' = "join"
    /\ UNCHANGED <<free, born, heaps, jobVars, mergeVars, seen>>

\* JoinDayPath: the path that joins the days of a choice.
Joined(a) ==
    [miss |-> job.miss, clash |-> a.clash, score |-> a.score, hash |-> a.hash,
     hot |-> job.hot, addr |-> NewAddr]

\* JoinDayPath, at the end of a choice.
Join ==
    /\ pc = "join"
    /\ \E a \in joins :
          /\ joins' = joins \ {a}
          /\ LET path == Joined(a)
                 h == heaps[pool][job.key]
             IN /\ IF CanPush(h, HeapK, path.score, 0, 0)
                   THEN /\ NewAndDelete(h, HeapK, path)
                        /\ heaps' = [heaps EXCEPT ![pool][job.key] = Push(h, HeapK, path)]
                   ELSE UNCHANGED <<free, born, heaps>>
                /\ seen' = [seen EXCEPT ![job.key] = @ \union {Plain(path)}]
    /\ UNCHANGED <<jobVars, dayVars, mergeVars, pc>>

\* doWork: the day paths are deleted.
JobDone ==
    /\ pc = "join" /\ joins = {}
    /\ free' = [free EXCEPT ![pool] = Deleted(@, Addr(dayPaths))]
    /\ dayPaths' = {} /\ blockIdx' = 0 /\ pc' = "idle" /\ job' = None /\ pool' = None
    /\ UNCHANGED <<born, heaps, left, offers, dayHeap, joins, mergeVars, seen>>

-----------------------------------------------------------------------------
(* DFSearch *)

\* MergeDFS: all jobs are done.
Merge ==
    /\ pc = "idle" /\ left = {}
    /\ merging' = UNION {{<<q, k, p>> : p \in heaps[q][k].q} : q \in Pool, k \in Key}
    /\ pc' = "merge"
    /\ UNCHANGED <<free, born, heaps, jobVars, dayVars, joins, merged, dfsList, seen>>

\* MergeDFS: a path is pushed into the heap of its point set.  What Push
\* gives back stays where it is, in the heap of its pool.
MergePush ==
    /\ pc = "merge"
    /\ \E m \in merging :
          /\ merging' = merging \ {m}
          /\ merged' = [merged EXCEPT ![m[2]] = Push(@, HeapK, m[3])]
    /\ UNCHANGED <<free, born, heaps, jobVars, dayVars, joins, dfsList, seen, pc>>

\* SPathDFSCmp
SPathDFSCmp(a, b) ==
    \/ a.hot > b.hot
    \/ a.hot = b.hot /\ a.hash < b.hash
    \/ a.hot = b.hot /\ a.hash = b.hash /\ a.score > b.score

\* DFSearch::DoSearch: the list is sorted and cut.
Cut(S) == {p \in S : Cardinality({r \in S : SPathDFSCmp(r, p)}) < ListK}

\* ThreadMemPool::Clear: the paths in the heaps of a pool are deleted.
Clear(p) == Deleted(free[p], Addr(UNION {heaps[p][k].q : k \in Key}))

\* MergeDFS: the result is copied and the pools are cleared.
MergeDone ==
    /\ pc = "merge" /\ merging = {}
    /\ dfsList' = Cut({Plain(p) : p \in UNION {merged[k].q : k \in Key}})
    /\ merged' = NoHeaps
    /\ free' = [p \in Pool |-> Clear(p)]
    /\ heaps' = [p \in Pool |-> NoHeaps]
    /\ pc' = "done"
    /\ UNCHANGED <<born, jobVars, dayVars, joins, merging, seen>>

\* The next request.
Again ==
    /\ pc = "done"
    /\ left' \in SUBSET Job
    /\ dfsList' = {} /\ seen' = [k \in Key |-> {}]
    /\ pc' = "idle"
    /\ UNCHANGED <<free, born, heaps, job, pool, dayVars, joins, merging, merged>>

Next ==
    \/ Start \/ PushPath \/ DayDone \/ Join \/ JobDone
    \/ Merge \/ MergePush \/ MergeDone \/ Again

Spec == Init /\ [][Next]_vars

-----------------------------------------------------------------------------

\* The paths of pool p that are in use.
Live(p) ==
    (UNION {heaps[p][k].q : k \in Key})
        \union (IF p = pool THEN dayHeap.q \union dayPaths ELSE {})

\* Every object that a pool has created is free or in use, never both, and
\* free only once: no path is leaked, freed twice or reused while in use.
\* Between two requests none is in use.
Conserved ==
    \A p \in Pool :
        /\ \A a \in BagToSet(free[p]) : free[p][a] = 1
        /\ \A a, b \in Live(p) : a.addr = b.addr => a = b
        /\ BagToSet(free[p]) \intersect Addr(Live(p)) = {}
        /\ BagToSet(free[p]) \union Addr(Live(p)) = 1..born[p]
        /\ pc = "done" => Live(p) = {}

\* However the jobs are spread over the pools, in whichever order the paths
\* come and are merged, and although CanPush judges a path by its score
\* alone: the result is made of the best paths of every point set.
MergedBest ==
    pc = "done" => dfsList = Cut(UNION {Best(seen[k], HeapK) : k \in Key})

=============================================================================
