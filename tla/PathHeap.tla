------------------------------ MODULE PathHeap ------------------------------
(***************************************************************************)
(* SPathHeap: the heap of the topK best paths without repeated hashes that *)
(* every stage of the bag search keeps, as operators on a record           *)
(* [q, hashes]: the paths in m_queue and m_hashSet.  A path is a record    *)
(* with at least miss, clash, score and hash.  Scores are integers         *)
(* (DFS::GetScore returns one and JoinDayPath adds them up), so that two   *)
(* scores within 1e-6 of one another are equal.                            *)
(***************************************************************************)
EXTENDS Integers, FiniteSets

\* SPathCmp: a goes before b.
SPathCmp(a, b) ==
    \/ a.miss < b.miss
    \/ a.miss = b.miss /\ a.clash < b.clash
    \/ a.miss = b.miss /\ a.clash = b.clash /\ a.score > b.score
    \/ a.miss = b.miss /\ a.clash = b.clash /\ a.score = b.score /\ a.hash < b.hash

\* A new SPathHeap.
EmptyHeap == [q |-> {}, hashes |-> {}]

\* SPathQueue::top: the last path in the order of SPathCmp.
top(q) == CHOOSE p \in q : \A r \in q : ~SPathCmp(p, r)

\* Mutant: a path as good as the worst one is turned away.
CanPush_Strict(h, topK, score, miss, clash) ==
    Cardinality(h.q) >= topK =>
        LET t == top(h.q)
        IN \/ miss < t.miss
           \/ miss = t.miss /\ clash < t.clash
           \/ miss = t.miss /\ clash = t.clash /\ score > t.score

\* SPathHeap::CanPush
CanPush(h, topK, score, miss, clash) ==
    Cardinality(h.q) >= topK =>
        LET t == top(h.q)
        IN \/ miss < t.miss
           \/ miss = t.miss /\ clash < t.clash
           \/ miss = t.miss /\ clash = t.clash /\ score >= t.score

\* SPathHeap::Push: what a path that is pushed throws out of a full heap.
Victim(h, topK) == IF Cardinality(h.q) >= topK THEN {top(h.q)} ELSE {}

\* SPathHeap::Push: whether p is pushed.
Pushes(h, topK, p) ==
    /\ Cardinality(h.q) >= topK => SPathCmp(p, top(h.q))
    /\ p.hash \notin h.hashes

\* SPathHeap::Push, the heap afterwards.  The hash of a path that was thrown
\* out stays in the set.
Push(h, topK, p) ==
    IF Pushes(h, topK, p)
    THEN [q |-> (h.q \ Victim(h, topK)) \union {p}, hashes |-> h.hashes \union {p.hash}]
    ELSE h

\* SPathHeap::Push, the path that is returned to the caller, if any.
PushReturns(h, topK, p) == IF Pushes(h, topK, p) THEN Victim(h, topK) ELSE {p}

\* What the heap is for: the topK first of the paths in S.
Best(S, topK) == {p \in S : Cardinality({r \in S : SPathCmp(r, p)}) < topK}

=============================================================================
