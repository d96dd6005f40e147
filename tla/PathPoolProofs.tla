--------------------------- MODULE PathPoolProofs ---------------------------
(***************************************************************************)
(* Proofs about PathPool, for any number of pools, jobs and days and any   *)
(* limits: the objects of SPathAlloc are conserved, and the merged list    *)
(* holds the best paths of every point set.  The heaps are those of the    *)
(* day search, whose lemmas about them are used here for paths with an     *)
(* address.                                                                *)
(***************************************************************************)
EXTENDS PathPool, DaySearchProofs

-----------------------------------------------------------------------------
(* Heaps of path objects. *)

Path == [miss : Nat, clash : Nat, score : Int, hash : Nat, hot : Int, addr : Nat]
PlainPath == [miss : Nat, clash : Nat, score : Int, hash : Nat, hot : Int]
Heap == [q : SUBSET Path, hashes : SUBSET Nat]

\* Every path object stands for the path without its address.
Plains == [p \in Path |-> Plain(p)]

\* A heap of at most topK paths, with different hashes, all of them noted.
HeapOK(h, topK) ==
    /\ h \in Heap /\ IsFiniteSet(h.q) /\ Cardinality(h.q) <= topK
    /\ \A p \in h.q : p.hash \in h.hashes
    /\ \A p, r \in h.q : p.hash = r.hash => p = r

\* Path s is in the heap, or the heap is full of paths that go before it.
Covers(q, topK, s) ==
    \/ \E p \in q : Plain(p) = s
    \/ Cardinality(q) >= topK /\ \A p \in q : SPathCmp(p, s)

\* A heap of paths of S that has lost none it should have: a path whose hash
\* is noted is in it or behind it.
Stocked(h, topK, S) ==
    /\ HeapOK(h, topK)
    /\ \A p \in h.q : Plain(p) \in S
    /\ \A x \in h.hashes : \E s \in S : s.hash = x /\ Covers(h.q, topK, s)

LEMMA PathKeyed == \A p \in Path : Keyed(p) /\ Keyed(Plain(p)) /\ Plain(p) \in PlainPath
  BY DEF Path, PlainPath, Keyed, Plain

LEMMA PlainKeyed == \A p \in PlainPath : Keyed(p)
  BY DEF PlainPath, Keyed

LEMMA PlainCmp ==
    ASSUME NEW a, NEW b
    PROVE  /\ SPathCmp(Plain(a), b) <=> SPathCmp(a, b)
           /\ SPathCmp(a, Plain(b)) <=> SPathCmp(a, b)
           /\ Plain(a).hash = a.hash
  BY DEF SPathCmp, Plain

LEMMA PlainsStand == Stands(Path, PlainPath, Plains) /\ \A p \in Path : Plains[p] = Plain(p)
  <1>1. \A p \in Path : Plains[p] = Plain(p) /\ Plain(p) \in PlainPath
    BY PathKeyed DEF Plains
  <1>2. Plains \in [Path -> PlainPath]
    BY <1>1 DEF Plains
  <1>3. \A p \in Path : /\ p.miss \in Nat /\ p.clash \in Nat /\ p.score \in Int /\ p.hash \in Nat
                        /\ Plain(p).miss = p.miss /\ Plain(p).clash = p.clash
                        /\ Plain(p).score = p.score /\ Plain(p).hash = p.hash
    BY DEF Path, Plain
  <1> QED
    BY <1>1, <1>2, <1>3, PlainKeyed DEF Stands

LEMMA HeapOKIs == \A h, topK : HeapOK(h, topK) <=> HeapOf(Path, h, topK)
  BY DEF HeapOK, HeapOf, Heap

LEMMA CoversIs ==
    ASSUME NEW q \in SUBSET Path, NEW topK, NEW s
    PROVE  Covers(q, topK, s) <=> Kept(Plains, q, topK, s)
  BY PlainsStand DEF Covers, Kept

LEMMA StockedIs == \A h, topK, S : Stocked(h, topK, S) <=> Stored(Path, Plains, h, topK, S)
  <1> SUFFICES ASSUME NEW h, NEW topK, NEW S, HeapOK(h, topK)
               PROVE  Stocked(h, topK, S) <=> Stored(Path, Plains, h, topK, S)
    BY HeapOKIs DEF Stocked, Stored
  <1>1. h.q \in SUBSET Path /\ HeapOf(Path, h, topK)
    BY HeapOKIs DEF HeapOK, Heap
  <1>2. \A p \in h.q : Plains[p] = Plain(p)
    BY <1>1, PlainsStand
  <1>3. \A s : Covers(h.q, topK, s) <=> Kept(Plains, h.q, topK, s)
    BY <1>1, CoversIs
  <1> QED
    BY <1>1, <1>2, <1>3 DEF Stocked, Stored

LEMMA EmptyOK ==
    ASSUME NEW topK \in Nat
    PROVE  HeapOK(EmptyHeap, topK)
  BY EmptyHeapOf, HeapOKIs

\* A full heap has a last path, and the others go before it.
LEMMA FullTop ==
    ASSUME NEW topK \in Nat \ {0}, NEW h, HeapOK(h, topK), Cardinality(h.q) >= topK
    PROVE  /\ top(h.q) \in h.q /\ Cardinality(h.q) = topK
           /\ \A r \in h.q : r = top(h.q) \/ SPathCmp(r, top(h.q))
  BY HeapOKIs, PlainsStand, LastOfFull

\* Push: either the path comes back and nothing changes, or it takes the place
\* of what comes back.
LEMMA PushCases ==
    ASSUME NEW topK \in Nat \ {0}, NEW h, HeapOK(h, topK), NEW p
    PROVE  \/ ~Pushes(h, topK, p) /\ Push(h, topK, p) = h /\ PushReturns(h, topK, p) = {p}
           \/ /\ Pushes(h, topK, p)
              /\ PushReturns(h, topK, p) = Victim(h, topK) /\ Victim(h, topK) \subseteq h.q
              /\ Push(h, topK, p).q = (h.q \ Victim(h, topK)) \union {p}
              /\ Push(h, topK, p).hashes = h.hashes \union {p.hash}
  BY HeapOKIs, PlainsStand, PushEither

\* Push keeps a heap within its limit and its hashes different.
LEMMA PushOK ==
    ASSUME NEW topK \in Nat \ {0}, NEW h, HeapOK(h, topK), NEW p \in Path
    PROVE  HeapOK(Push(h, topK, p), topK)
  BY HeapOKIs, PlainsStand, PushHeapOf

LEMMA StockedMore ==
    ASSUME NEW h, NEW topK, NEW S, NEW T, Stocked(h, topK, S), S \subseteq T
    PROVE  Stocked(h, topK, T)
  BY DEF Stocked

\* What was in a heap or behind it still is after a push.
LEMMA PushCovers ==
    ASSUME NEW topK \in Nat \ {0}, NEW h, HeapOK(h, topK), NEW p \in Path,
           NEW s \in PlainPath, Covers(h.q, topK, s)
    PROVE  Covers(Push(h, topK, p).q, topK, s)
  <1>1. HeapOf(Path, h, topK) /\ h.q \in SUBSET Path /\ Push(h, topK, p).q \in SUBSET Path
    BY HeapOKIs, PushOK DEF HeapOK, Heap
  <1>2. Kept(Plains, h.q, topK, s)
    BY <1>1, CoversIs
  <1>3. Kept(Plains, Push(h, topK, p).q, topK, s)
    BY <1>1, <1>2, PlainsStand, PushStillKept
  <1> QED
    BY <1>1, <1>3, CoversIs

\* Push itself loses nothing: the path is in the heap afterwards, or behind it.
LEMMA PushKeeps ==
    ASSUME NEW topK \in Nat \ {0}, NEW S \in SUBSET PlainPath, Distinct(S),
           NEW h, Stocked(h, topK, S), NEW p \in Path, Plain(p) \in S
    PROVE  Covers(Push(h, topK, p).q, topK, Plain(p)) /\ Stocked(Push(h, topK, p), topK, S)
  <1>1. HeapOK(h, topK) /\ Stored(Path, Plains, h, topK, S) /\ Plains[p] = Plain(p)
    BY StockedIs, PlainsStand DEF Stocked
  <1>2. Push(h, topK, p).q \in SUBSET Path
    BY <1>1, PushOK DEF HeapOK, Heap
  <1>3. Kept(Plains, Push(h, topK, p).q, topK, Plain(p)) /\ Stored(Path, Plains, Push(h, topK, p), topK, S)
    BY <1>1, PlainsStand, PushIsKept
  <1> QED
    BY <1>2, <1>3, CoversIs, StockedIs

\* A path that CanPush turns away on its score alone is behind the heap.
LEMMA TurnedAway ==
    ASSUME NEW topK \in Nat \ {0}, NEW h, HeapOK(h, topK), NEW p \in Path,
           ~CanPush(h, topK, p.score, 0, 0)
    PROVE  Covers(h.q, topK, Plain(p))
  <1>1. HeapOf(Path, h, topK) /\ h.q \in SUBSET Path /\ Plains[p] = Plain(p)
    BY HeapOKIs, PlainsStand DEF HeapOK, Heap
  <1>2. p.score \in Int /\ p.score <= p.score
    BY DEF Path
  <1>3. Kept(Plains, h.q, topK, Plains[p])
    BY <1>1, <1>2, PlainsStand, TurnedAwayKept
  <1> QED
    BY <1>1, <1>3, CoversIs

\* A heap of paths of S that has every path of S in it or behind it is what a
\* heap is for: the best of S.
LEMMA HeapIsBest ==
    ASSUME NEW topK \in Nat \ {0}, NEW S \in SUBSET PlainPath, IsFiniteSet(S),
           NEW h, Stocked(h, topK, S), \A s \in S : Covers(h.q, topK, s)
    PROVE  {Plain(p) : p \in h.q} = Best(S, topK)
  <1>1. Stored(Path, Plains, h, topK, S) /\ h.q \in SUBSET Path
    BY StockedIs DEF Stocked, HeapOK, Heap
  <1>2. \A s \in S : Kept(Plains, h.q, topK, s)
    BY <1>1, CoversIs
  <1>3. {Plains[p] : p \in h.q} = Best(S, topK)
    BY <1>1, <1>2, PlainsStand, KeptIsBest
  <1>4. \A p \in h.q : Plains[p] = Plain(p)
    BY <1>1, PlainsStand
  <1> QED
    BY <1>3, <1>4

-----------------------------------------------------------------------------
(* Bags without repetitions. *)

LEMMA BagFacts ==
    ASSUME NEW S, NEW T
    PROVE  /\ BagToSet(SetToBag(S)) = S
           /\ \A a \in S : SetToBag(S)[a] = 1
           /\ SetToBag(S) = EmptyBag <=> S = {}
  <1>1. BagToSet(SetToBag(S)) = S /\ \A a \in S : SetToBag(S)[a] = 1
    BY DEF BagToSet, SetToBag
  <1>2. DOMAIN SetToBag(S) = S /\ DOMAIN EmptyBag = {}
    BY DEF SetToBag, EmptyBag
  <1>3. S = {} => SetToBag(S) = EmptyBag
    BY DEF EmptyBag
  <1> QED
    BY <1>1, <1>2, <1>3

LEMMA BagAdd ==
    ASSUME NEW S, NEW T, S \intersect T = {}
    PROVE  SetToBag(S) (+) SetToBag(T) = SetToBag(S \union T)
  BY DEF SetToBag, (+)

LEMMA BagRemove ==
    ASSUME NEW S, NEW T
    PROVE  SetToBag(S) (-) SetToBag(T) = SetToBag(S \ T)
  BY DEF SetToBag, (-)

-----------------------------------------------------------------------------
(* The invariant of the pools. *)

DayPath == [clash : Nat, score : Int, hash : Nat]
Free(p) == BagToSet(free[p])
Held(p) == UNION {heaps[p][k].q : k \in Key}

PoolTypes ==
    /\ free \in [Pool -> {SetToBag(S) : S \in SUBSET Nat}] /\ born \in [Pool -> Nat]
    /\ heaps \in [Pool -> [Key -> Heap]]
    /\ dayHeap \in Heap /\ dayPaths \in SUBSET Path
    /\ offers \in SUBSET DayPath /\ joins \in SUBSET DayPath
    /\ left \in SUBSET Job
    /\ pc \in {"idle", "day", "join", "merge", "done"}

\* A job is run between Start and JobDone, and the paths of its days are there
\* only then; between two requests the heaps are empty.
Phases ==
    /\ pc \in {"day", "join"} => job \in Job /\ pool \in Pool
    /\ pc \notin {"day", "join"} => pool = None /\ dayPaths = {}
    /\ pc # "day" => dayHeap = EmptyHeap
    /\ pc = "day" => blockIdx \in 1..Len(job.days)
    /\ pc = "done" => heaps = [p \in Pool |-> NoHeaps]

HeapsOK ==
    /\ \A p \in Pool, k \in Key : HeapOK(heaps[p][k], HeapK)
    /\ HeapOK(dayHeap, DayK)

\* An object is in one place.
Apart ==
    /\ \A p \in Pool : \A k, l \in Key : k # l => heaps[p][k].q \intersect heaps[p][l].q = {}
    /\ pool \in Pool =>
        /\ Held(pool) \intersect (dayHeap.q \union dayPaths) = {}
        /\ dayHeap.q \intersect dayPaths = {}

\* Objects F are free, those of L are in use, and n have been created.
Balance(F, L, n) ==
    /\ \A a, b \in L : a.addr = b.addr => a = b
    /\ F \intersect Addr(L) = {}
    /\ F \union Addr(L) = 1..n

Balanced == \A p \in Pool : Balance(Free(p), Live(p), born[p])

PoolInv == PoolTypes /\ Phases /\ HeapsOK /\ Apart /\ Balanced

-----------------------------------------------------------------------------
(* The invariant of the results. *)

\* No two paths of a point set have the same hash.
NoCollision == \A k \in Key : Distinct(seen[k])

\* The paths of the point sets that have been joined in this request.
SeenOK == seen \in [Key -> SUBSET PlainPath] /\ \A k \in Key : IsFiniteSet(seen[k])

\* Every path that has been joined is in the heap of some pool, or behind it.
PoolsCover ==
    /\ \A p \in Pool, k \in Key : Stocked(heaps[p][k], HeapK, seen[k])
    /\ pc # "done" =>
        \A k \in Key : \A s \in seen[k] : \E p \in Pool : Covers(heaps[p][k].q, HeapK, s)

\* Every path of the pools has still to be merged, or is in the heap of
\* MergeDFS, or behind it.
MergeCovers ==
    /\ merged \in [Key -> Heap]
    /\ \A k \in Key : Stocked(merged[k], HeapK, seen[k])
    /\ pc # "merge" => merged = NoHeaps /\ merging = {}
    /\ \A m \in merging : m[1] \in Pool /\ m[2] \in Key /\ m[3] \in heaps[m[1]][m[2]].q
    /\ pc = "merge" =>
        \A p \in Pool, k \in Key : \A r \in heaps[p][k].q :
            <<p, k, r>> \in merging \/ Covers(merged[k].q, HeapK, Plain(r))

BestInv == PoolInv /\ SeenOK /\ PoolsCover /\ MergeCovers /\ MergedBest

-----------------------------------------------------------------------------
(* SPathAlloc *)

LEMMA FreeIs ==
    ASSUME PoolTypes, NEW p \in Pool
    PROVE  free[p] = SetToBag(Free(p)) /\ Free(p) \in SUBSET Nat
  <1>1. PICK S \in SUBSET Nat : free[p] = SetToBag(S)
    BY DEF PoolTypes
  <1> QED
    BY <1>1, BagFacts DEF Free

\* What New chooses from: objects that are not in use.
LEMMA NewObject ==
    ASSUME PoolInv, pool \in Pool
    PROVE  \E S \in SUBSET Nat :
              /\ Stack(pool) = SetToBag(S) /\ NewAddr \in S
              /\ Born(pool) \in Nat /\ Balance(S, Live(pool), Born(pool))
  <1> DEFINE F == Free(pool)
             n == born[pool]
             L == Live(pool)
  <1>1. /\ free[pool] = SetToBag(F) /\ F \in SUBSET Nat /\ n \in Nat /\ Balance(F, L, n)
        /\ ExpandLen \in Nat \ {0}
    BY FreeIs, PoolAssumption DEF PoolInv, PoolTypes, Balanced
  <1>2. CASE F = {}
    <2> DEFINE S == n + 1..n + ExpandLen
    <2>1. free[pool] = EmptyBag
      BY <1>1, <1>2, BagFacts
    <2>2. Stack(pool) = SetToBag(S) /\ Born(pool) = n + ExpandLen
      BY <2>1 DEF Stack, Born, Fresh
    <2>3. S \in SUBSET Nat /\ n + 1 \in S /\ n + ExpandLen \in Nat
      BY <1>1
    <2>4. NewAddr \in S
      <3>1. BagToSet(Stack(pool)) = S
        BY <2>2, BagFacts
      <3> HIDE DEF S
      <3> QED
        BY <2>3, <3>1 DEF NewAddr
    <2>5. Addr(L) = 1..n /\ \A a, b \in L : a.addr = b.addr => a = b
      BY <1>1, <1>2 DEF Balance
    <2>6. S \intersect (1..n) = {} /\ S \union (1..n) = 1..(n + ExpandLen)
      BY <1>1
    <2>7. Balance(S, L, n + ExpandLen)
      BY <2>5, <2>6 DEF Balance
    <2> QED
      BY <2>2, <2>3, <2>4, <2>7
  <1>3. CASE F # {}
    <2>1. free[pool] # EmptyBag
      BY <1>1, <1>3, BagFacts
    <2>2. Stack(pool) = SetToBag(F) /\ Born(pool) = n /\ BagToSet(Stack(pool)) = F
      BY <1>1, <2>1 DEF Stack, Born, Free
    <2>3. NewAddr \in F
      BY <1>3, <2>2 DEF NewAddr
    <2> QED
      BY <1>1, <2>2, <2>3
  <1> QED
    BY <1>2, <1>3

\* A new object takes the place of the objects of V, which are deleted.
LEMMA Swap ==
    ASSUME NEW S, NEW L, NEW n, Balance(S, L, n), NEW r, r.addr \in S, NEW V \in SUBSET L
    PROVE  /\ (S \ {r.addr}) \intersect Addr(V) = {}
           /\ Balance((S \ {r.addr}) \union Addr(V), (L \ V) \union {r}, n)
           /\ r \notin L
  <1>1. /\ \A a, b \in L : a.addr = b.addr => a = b
        /\ \A a \in L : a.addr \notin S
        /\ S \union {a.addr : a \in L} = 1..n
    BY DEF Balance, Addr
  <1>2. r \notin L /\ (S \ {r.addr}) \intersect Addr(V) = {}
    BY <1>1 DEF Addr
  <1>3. \A a, b \in (L \ V) \union {r} : a.addr = b.addr => a = b
    BY <1>1
  <1>4. ((S \ {r.addr}) \union Addr(V)) \intersect Addr((L \ V) \union {r}) = {}
    BY <1>1 DEF Addr
  <1>5. ((S \ {r.addr}) \union Addr(V)) \union Addr((L \ V) \union {r}) = S \union {a.addr : a \in L}
    BY <1>1 DEF Addr
  <1> QED
    BY <1>1, <1>2, <1>3, <1>4, <1>5 DEF Balance

\* New, Push and Delete of what comes back: what is in use changes as the heap
\* does, and the other pools do not change.
LEMMA PushBalance ==
    ASSUME PoolInv, pool \in Pool, NEW topK \in Nat \ {0}, NEW h, HeapOK(h, topK),
           h.q \subseteq Live(pool), NEW r, r.addr = NewAddr, NewAndDelete(h, topK, r)
    PROVE  /\ free' \in [Pool -> {SetToBag(S) : S \in SUBSET Nat}] /\ born' \in [Pool -> Nat]
           /\ \A p \in Pool : p # pool => free'[p] = free[p] /\ born'[p] = born[p]
           /\ r \notin Live(pool)
           /\ Balance(BagToSet(free'[pool]),
                      IF Pushes(h, topK, r) THEN (Live(pool) \ Victim(h, topK)) \union {r} ELSE Live(pool),
                      born'[pool])
  <1> DEFINE R == PushReturns(h, topK, r)
             L == Live(pool)
             n == Born(pool)
             V == Victim(h, topK)
  <1>1. PICK S \in SUBSET Nat :
            Stack(pool) = SetToBag(S) /\ NewAddr \in S /\ n \in Nat /\ Balance(S, L, n)
    BY NewObject
  <1>2. Stack(pool) (-) SetToBag({r.addr}) = SetToBag(S \ {r.addr})
    BY <1>1, BagRemove
  <1>3. \E T \in SUBSET Nat :
            /\ Deleted(Stack(pool) (-) SetToBag({r.addr}), Addr(R)) = SetToBag(T)
            /\ r \notin L
            /\ Balance(T, IF Pushes(h, topK, r) THEN (L \ V) \union {r} ELSE L, n)
    <2>1. CASE Pushes(h, topK, r)
      <3>1. R = V /\ V \in SUBSET L
        BY <2>1, PushCases
      <3>2. /\ (S \ {r.addr}) \intersect Addr(V) = {} /\ r \notin L
            /\ Balance((S \ {r.addr}) \union Addr(V), (L \ V) \union {r}, n)
        BY <1>1, <3>1, Swap
      <3>3. Deleted(SetToBag(S \ {r.addr}), Addr(V)) = SetToBag((S \ {r.addr}) \union Addr(V))
        BY <3>2, BagAdd DEF Deleted
      <3>4. (S \ {r.addr}) \union Addr(V) \in SUBSET Nat
        <4>1. 1..n \subseteq Nat
          BY <1>1
        <4> QED
          BY <3>2, <4>1 DEF Balance
      <3>5. Deleted(Stack(pool) (-) SetToBag({r.addr}), Addr(R))
                = SetToBag((S \ {r.addr}) \union Addr(V))
        BY <1>2, <3>1, <3>3
      <3> WITNESS (S \ {r.addr}) \union Addr(V) \in SUBSET Nat
      <3> QED
        BY <2>1, <3>2, <3>5
    <2>2. CASE ~Pushes(h, topK, r)
      <3>1. R = {r} /\ Addr(R) = {r.addr}
        BY <2>2, PushCases DEF Addr
      <3>2. (S \ {r.addr}) \intersect {r.addr} = {} /\ (S \ {r.addr}) \union {r.addr} = S
        BY <1>1
      <3>3. SetToBag(S \ {r.addr}) (+) SetToBag({r.addr}) = SetToBag(S)
        BY <3>2, BagAdd
      <3>4. r \notin L
        BY <1>1 DEF Balance, Addr
      <3> QED
        BY <1>1, <1>2, <2>2, <3>1, <3>3, <3>4 DEF Deleted
    <2> QED
      BY <2>1, <2>2
  <1>4. PICK T \in SUBSET Nat :
            /\ Deleted(Stack(pool) (-) SetToBag({r.addr}), Addr(R)) = SetToBag(T)
            /\ r \notin L
            /\ Balance(T, IF Pushes(h, topK, r) THEN (L \ V) \union {r} ELSE L, n)
    BY <1>3
  <1>5. /\ free' = [free EXCEPT ![pool] = SetToBag(T)]
        /\ born' = [born EXCEPT ![pool] = n]
    BY <1>4 DEF NewAndDelete
  <1>6. /\ free \in [Pool -> {SetToBag(A) : A \in SUBSET Nat}] /\ born \in [Pool -> Nat]
    BY DEF PoolInv, PoolTypes
  <1>7. free'[pool] = SetToBag(T) /\ born'[pool] = n /\ BagToSet(free'[pool]) = T
    BY <1>5, <1>6, BagFacts
  <1>8. free' \in [Pool -> {SetToBag(A) : A \in SUBSET Nat}] /\ born' \in [Pool -> Nat]
    BY <1>1, <1>5, <1>6
  <1>9. \A p \in Pool : p # pool => free'[p] = free[p] /\ born'[p] = born[p]
    BY <1>5, <1>6
  <1> QED
    BY <1>4, <1>7, <1>8, <1>9

-----------------------------------------------------------------------------
(* PoolInv: one lemma per action. *)

LEMMA LiveIs ==
    ASSUME NEW p
    PROVE  /\ p = pool => Live(p) = Held(p) \union (dayHeap.q \union dayPaths)
           /\ p # pool => Live(p) = Held(p)
  BY DEF Live, Held

LEMMA NoHeapsOK ==
    /\ NoHeaps \in [Key -> Heap]
    /\ \A k \in Key : HeapOK(NoHeaps[k], HeapK) /\ NoHeaps[k] = EmptyHeap
    /\ EmptyHeap.q = {} /\ EmptyHeap.hashes = {} /\ EmptyHeap \in Heap
  <1>1. EmptyHeap.q = {} /\ EmptyHeap.hashes = {} /\ EmptyHeap \in Heap
    BY DEF EmptyHeap, Heap
  <1>2. HeapOK(EmptyHeap, HeapK)
    BY EmptyOK, PoolAssumption
  <1> QED
    BY <1>1, <1>2 DEF NoHeaps

LEMMA InitPool == Init => PoolInv
  <1> SUFFICES ASSUME Init PROVE PoolInv
    OBVIOUS
  <1>1. PoolTypes
    <2>1. /\ InitLen \in Nat /\ 0 + 1..0 + InitLen \in SUBSET Nat
          /\ Fresh(0, InitLen) = SetToBag(0 + 1..0 + InitLen)
      BY PoolAssumption DEF Fresh
    <2>2. Fresh(0, InitLen) \in {SetToBag(S) : S \in SUBSET Nat}
      BY <2>1
    <2>3. /\ free \in [Pool -> {SetToBag(S) : S \in SUBSET Nat}] /\ born \in [Pool -> Nat]
      BY <2>1, <2>2 DEF Init
    <2>4. heaps \in [Pool -> [Key -> Heap]] /\ dayHeap \in Heap
      BY NoHeapsOK DEF Init
    <2>5. /\ dayPaths \in SUBSET Path /\ offers \in SUBSET DayPath /\ joins \in SUBSET DayPath
          /\ left \in SUBSET Job /\ pc \in {"idle", "day", "join", "merge", "done"}
      BY DEF Init
    <2> QED
      BY <2>3, <2>4, <2>5 DEF PoolTypes
  <1>2. Phases
    BY DEF Init, Phases
  <1>3. \A p \in Pool, k \in Key : heaps[p][k] = EmptyHeap
    BY NoHeapsOK DEF Init
  <1>4. HeapsOK
    BY <1>3, EmptyOK, PoolAssumption DEF Init, HeapsOK
  <1>5. Apart
    BY <1>3, NoHeapsOK, PoolAssumption DEF Init, Apart
  <1>6. ASSUME NEW p \in Pool PROVE Balance(Free(p), Live(p), born[p])
    <2>1. Live(p) = {}
      <3>1. Held(p) = {}
        BY <1>3, NoHeapsOK DEF Held
      <3> QED
        BY <3>1, LiveIs, PoolAssumption DEF Init
    <2>2. Free(p) = 1..InitLen /\ born[p] = InitLen
      <3>1. free[p] = Fresh(0, InitLen) /\ born[p] = InitLen
        BY DEF Init
      <3>2. BagToSet(Fresh(0, InitLen)) = 0 + 1..0 + InitLen
        BY BagFacts DEF Fresh
      <3>3. 0 + 1..0 + InitLen = 1..InitLen
        BY PoolAssumption
      <3> QED
        BY <3>1, <3>2, <3>3 DEF Free
    <2> QED
      BY <2>1, <2>2 DEF Balance, Addr
  <1> QED
    BY <1>1, <1>2, <1>4, <1>5, <1>6 DEF PoolInv, Balanced

\* A step that changes neither the objects nor what is in use.
LEMMA BalanceFrame ==
    ASSUME Balanced, free' = free, born' = born, \A p \in Pool : Live(p)' = Live(p)
    PROVE  Balanced'
  BY DEF Balanced, Free

LEMMA StartPool ==
    ASSUME PoolInv, Start
    PROVE  PoolInv'
  <1>1. PICK j \in left, p \in Pool :
            job' = j /\ pool' = p /\ left' = left \ {j} /\ offers' = j.days[1]
    BY DEF Start
  <1>2. /\ pc = "idle" /\ pc' = "day" /\ dayHeap' = EmptyHeap /\ blockIdx' = 1 /\ dayPaths' = {}
        /\ joins' = {NoDays} /\ free' = free /\ born' = born /\ heaps' = heaps /\ merged' = merged
    BY DEF Start, mergeVars
  <1>3. pool = None /\ dayPaths = {} /\ dayHeap = EmptyHeap /\ EmptyHeap.q = {}
    BY <1>2, NoHeapsOK DEF PoolInv, Phases
  <1>4. /\ j \in Job /\ 1 \in 1..Len(j.days) /\ j.days[1] \in SUBSET DayPath
    BY JobAssumption DEF PoolInv, PoolTypes, DayPath
  <1>5. PoolTypes'
    BY <1>1, <1>2, <1>4, NoHeapsOK DEF PoolInv, PoolTypes, NoDays, DayPath
  <1>6. Phases'
    BY <1>1, <1>2, <1>4 DEF PoolInv, Phases
  <1>7. HeapsOK'
    BY <1>2, EmptyOK, PoolAssumption DEF PoolInv, HeapsOK
  <1>8. Apart'
    BY <1>2, <1>3 DEF PoolInv, Apart
  <1>9. \A x \in Pool : Live(x)' = Live(x)
    BY <1>2, <1>3 DEF Live
  <1> QED
    BY <1>2, <1>5, <1>6, <1>7, <1>8, <1>9, BalanceFrame DEF PoolInv

LEMMA DayDonePool ==
    ASSUME PoolInv, DayDone
    PROVE  PoolInv'
  <1>1. /\ pc = "day" /\ dayPaths' = dayPaths \union dayHeap.q /\ dayHeap' = EmptyHeap
        /\ joins' = {AddDay(a, p) : a \in joins, p \in dayHeap.q} /\ blockIdx' = blockIdx + 1
        /\ free' = free /\ born' = born /\ heaps' = heaps /\ merged' = merged
        /\ left' = left /\ job' = job /\ pool' = pool
    BY DEF DayDone, jobVars, mergeVars
  <1>2. /\ job \in Job /\ pool \in Pool /\ blockIdx \in 1..Len(job.days) /\ EmptyHeap.q = {}
        /\ dayHeap.q \subseteq Path /\ dayPaths \subseteq Path
    BY <1>1, NoHeapsOK DEF PoolInv, Phases, PoolTypes, Heap
  <1>3. /\ pc' \in {"day", "join"} /\ offers' \in SUBSET DayPath
        /\ pc' = "day" => blockIdx + 1 \in 1..Len(job.days)
    <2>1. job.days \in Seq(SUBSET DayPath)
      BY <1>2, JobAssumption DEF DayPath
    <2>2. CASE blockIdx < Len(job.days)
      <3>1. blockIdx + 1 \in 1..Len(job.days)
        BY <1>2, <2>1, <2>2
      <3>2. pc' = "day" /\ offers' = job.days[blockIdx + 1]
        BY <1>1, <2>2 DEF DayDone
      <3> QED
        BY <2>1, <3>1, <3>2
    <2>3. CASE ~(blockIdx < Len(job.days))
      BY <2>3 DEF DayDone
    <2> QED
      BY <2>2, <2>3
  <1>4. joins' \in SUBSET DayPath
    <2>1. ASSUME NEW a \in DayPath, NEW p \in Path PROVE AddDay(a, p) \in DayPath
      BY DEF AddDay, DayPath, Path
    <2> QED
      BY <1>1, <1>2, <2>1 DEF PoolInv, PoolTypes
  <1>5. PoolTypes'
    BY <1>1, <1>2, <1>3, <1>4, NoHeapsOK DEF PoolInv, PoolTypes
  <1>6. Phases'
    BY <1>1, <1>2, <1>3 DEF PoolInv, Phases
  <1>7. HeapsOK'
    BY <1>1, EmptyOK, PoolAssumption DEF PoolInv, HeapsOK
  <1>8. Apart'
    BY <1>1, <1>2 DEF PoolInv, Apart, Held
  <1>9. \A x \in Pool : Live(x)' = Live(x)
    BY <1>1, <1>2 DEF Live
  <1> QED
    BY <1>1, <1>5, <1>6, <1>7, <1>8, <1>9, BalanceFrame DEF PoolInv

LEMMA PushPathPool ==
    ASSUME PoolInv, PushPath
    PROVE  PoolInv'
  <1>1. PICK o \in offers : offers' = offers \ {o} /\
            LET made == [miss |-> 0, clash |-> o.clash, score |-> o.score, hash |-> o.hash,
                         hot |-> 0, addr |-> NewAddr]
            IN IF CanPush(dayHeap, DayK, o.score, 0, 0)
               THEN NewAndDelete(dayHeap, DayK, made) /\ dayHeap' = Push(dayHeap, DayK, made)
               ELSE UNCHANGED <<free, born, dayHeap>>
    BY DEF PushPath
  <1>2. /\ pc = "day" /\ pc' = "day" /\ heaps' = heaps /\ merged' = merged /\ left' = left
        /\ job' = job /\ pool' = pool /\ blockIdx' = blockIdx /\ dayPaths' = dayPaths /\ joins' = joins
    BY DEF PushPath, jobVars, mergeVars
  <1>3. /\ job \in Job /\ pool \in Pool /\ HeapOK(dayHeap, DayK) /\ DayK \in Nat \ {0} /\ o \in DayPath
    BY <1>2, PoolAssumption DEF PoolInv, Phases, HeapsOK, PoolTypes
  <1> DEFINE made == [miss |-> 0, clash |-> o.clash, score |-> o.score, hash |-> o.hash,
                      hot |-> 0, addr |-> NewAddr]
             h == dayHeap
             V == Victim(h, DayK)
  <1>4. made \in Path /\ made.addr = NewAddr
    <2>1. NewAddr \in Nat
      BY <1>3, NewObject
    <2> QED
      BY <1>3, <2>1 DEF Path, DayPath
  <1>5. Phases'
    BY <1>2 DEF PoolInv, Phases
  <1>6. CASE ~CanPush(h, DayK, o.score, 0, 0)
    <2>1. free' = free /\ born' = born /\ dayHeap' = dayHeap /\ offers' = offers \ {o}
      BY <1>1, <1>6
    <2>2. PoolTypes' /\ HeapsOK' /\ Apart'
      BY <1>2, <2>1 DEF PoolInv, PoolTypes, HeapsOK, Apart, Held
    <2>3. \A x \in Pool : Live(x)' = Live(x)
      BY <1>2, <2>1 DEF Live
    <2> QED
      BY <1>5, <2>1, <2>2, <2>3, BalanceFrame DEF PoolInv
  <1>7. CASE CanPush(h, DayK, o.score, 0, 0)
    <2>1. NewAndDelete(h, DayK, made) /\ dayHeap' = Push(h, DayK, made)
      BY <1>1, <1>7
    <2> HIDE DEF made
    <2>2. h.q \subseteq Live(pool)
      BY LiveIs
    <2>3. /\ free' \in [Pool -> {SetToBag(S) : S \in SUBSET Nat}] /\ born' \in [Pool -> Nat]
          /\ \A p \in Pool : p # pool => free'[p] = free[p] /\ born'[p] = born[p]
          /\ made \notin Live(pool)
          /\ Balance(BagToSet(free'[pool]),
                     IF Pushes(h, DayK, made) THEN (Live(pool) \ V) \union {made} ELSE Live(pool),
                     born'[pool])
      BY <1>3, <1>4, <2>1, <2>2, PushBalance
    <2>4. HeapOK(dayHeap', DayK)
      BY <1>3, <1>4, <2>1, PushOK
    <2>5. PoolTypes'
      <3>1. dayHeap' \in Heap /\ offers' = offers \ {o}
        BY <1>1, <2>4 DEF HeapOK
      <3> QED
        BY <1>2, <2>3, <3>1 DEF PoolInv, PoolTypes
    <2>6. HeapsOK'
      BY <1>2, <2>4 DEF PoolInv, HeapsOK
    <2>7. \/ ~Pushes(h, DayK, made) /\ dayHeap' = h
          \/ Pushes(h, DayK, made) /\ V \subseteq h.q /\ dayHeap'.q = (h.q \ V) \union {made}
      BY <1>3, <2>1, PushCases
    <2>8. /\ Held(pool) \intersect (h.q \union dayPaths) = {} /\ h.q \intersect dayPaths = {}
          /\ Live(pool) = Held(pool) \union (h.q \union dayPaths)
          /\ Live(pool)' = Held(pool) \union (dayHeap'.q \union dayPaths)
      <3>1. Held(pool) \intersect (h.q \union dayPaths) = {} /\ h.q \intersect dayPaths = {}
        BY <1>3 DEF PoolInv, Apart
      <3>2. Live(pool) = Held(pool) \union (h.q \union dayPaths)
        BY LiveIs
      <3>3. Live(pool)' = Held(pool) \union (dayHeap'.q \union dayPaths)
        <4>1. Live(pool)' = Held(pool)' \union (dayHeap'.q \union dayPaths')
          BY DEF Live, Held
        <4>2. Held(pool)' = Held(pool)
          BY <1>2 DEF Held
        <4> QED
          BY <1>2, <4>1, <4>2
      <3> QED
        BY <3>1, <3>2, <3>3
    <2>9. Apart'
      <3>1. /\ Held(pool) \intersect (dayHeap'.q \union dayPaths) = {}
            /\ dayHeap'.q \intersect dayPaths = {}
        BY <2>3, <2>7, <2>8
      <3> QED
        BY <1>2, <3>1 DEF PoolInv, Apart, Held
    <2>10. Live(pool)' = IF Pushes(h, DayK, made) THEN (Live(pool) \ V) \union {made} ELSE Live(pool)
      BY <2>7, <2>8
    <2>11. ASSUME NEW p \in Pool PROVE Balance(Free(p), Live(p), born[p])'
      <3>1. CASE p = pool
        BY <1>2, <2>3, <2>10, <3>1 DEF Free
      <3>2. CASE p # pool
        <4>1. Live(p)' = Live(p) /\ Free(p)' = Free(p) /\ born'[p] = born[p]
          BY <1>2, <2>3, <3>2 DEF Live, Free
        <4> QED
          BY <4>1 DEF PoolInv, Balanced
      <3> QED
        BY <3>1, <3>2
    <2> QED
      BY <1>5, <2>5, <2>6, <2>9, <2>11 DEF PoolInv, Balanced
  <1> QED
    BY <1>6, <1>7

LEMMA JoinedPath ==
    ASSUME PoolInv, job \in Job, pool \in Pool, NEW a \in DayPath
    PROVE  Joined(a) \in Path /\ Joined(a).addr = NewAddr /\ Joined(a).score = a.score
  <1>1. NewAddr \in Nat
    BY NewObject
  <1>2. job.miss \in Nat /\ job.hot \in Int
    BY JobAssumption
  <1> QED
    BY <1>1, <1>2 DEF Joined, Path, DayPath

LEMMA JoinPool ==
    ASSUME PoolInv, Join
    PROVE  PoolInv'
  <1> DEFINE k == job.key
             h == heaps[pool][k]
             V == Victim(h, HeapK)
  <1>1. PICK a \in joins :
            /\ joins' = joins \ {a}
            /\ IF CanPush(h, HeapK, Joined(a).score, 0, 0)
               THEN /\ NewAndDelete(h, HeapK, Joined(a))
                    /\ heaps' = [heaps EXCEPT ![pool][k] = Push(h, HeapK, Joined(a))]
               ELSE UNCHANGED <<free, born, heaps>>
    BY DEF Join
  <1>2. /\ pc = "join" /\ pc' = "join" /\ merged' = merged /\ left' = left /\ offers' = offers
        /\ job' = job /\ pool' = pool /\ blockIdx' = blockIdx /\ dayPaths' = dayPaths /\ dayHeap' = dayHeap
    BY DEF Join, jobVars, dayVars, mergeVars
  <1>3. /\ job \in Job /\ pool \in Pool /\ k \in Key /\ HeapOK(h, HeapK) /\ HeapK \in Nat \ {0}
        /\ a \in DayPath /\ heaps \in [Pool -> [Key -> Heap]] /\ h.q \subseteq Held(pool)
    <2>1. job \in Job /\ pool \in Pool /\ k \in Key
      BY <1>2 DEF PoolInv, Phases, Key
    <2>2. HeapOK(h, HeapK) /\ h.q \subseteq Held(pool)
      BY <2>1 DEF PoolInv, HeapsOK, Held
    <2> QED
      BY <2>1, <2>2, PoolAssumption DEF PoolInv, PoolTypes
  <1>4. Joined(a) \in Path /\ Joined(a).addr = NewAddr
    BY <1>3, JoinedPath
  <1>5. Phases'
    BY <1>2 DEF PoolInv, Phases
  <1>6. CASE ~CanPush(h, HeapK, Joined(a).score, 0, 0)
    <2>1. free' = free /\ born' = born /\ heaps' = heaps /\ joins' = joins \ {a}
      BY <1>1, <1>6
    <2>2. PoolTypes' /\ HeapsOK' /\ Apart'
      BY <1>2, <2>1 DEF PoolInv, PoolTypes, HeapsOK, Apart, Held
    <2>3. \A x \in Pool : Live(x)' = Live(x)
      BY <1>2, <2>1 DEF Live
    <2> QED
      BY <1>5, <2>1, <2>2, <2>3, BalanceFrame DEF PoolInv
  <1>7. CASE CanPush(h, HeapK, Joined(a).score, 0, 0)
    <2> DEFINE made == Joined(a)
               g == Push(h, HeapK, made)
    <2>1. NewAndDelete(h, HeapK, made) /\ heaps' = [heaps EXCEPT ![pool][k] = g]
      BY <1>1, <1>7
    <2>2. h.q \subseteq Live(pool)
      BY <1>3, LiveIs
    <2> HIDE DEF made, k
    <2>3. /\ free' \in [Pool -> {SetToBag(S) : S \in SUBSET Nat}] /\ born' \in [Pool -> Nat]
          /\ \A p \in Pool : p # pool => free'[p] = free[p] /\ born'[p] = born[p]
          /\ made \notin Live(pool)
          /\ Balance(BagToSet(free'[pool]),
                     IF Pushes(h, HeapK, made) THEN (Live(pool) \ V) \union {made} ELSE Live(pool),
                     born'[pool])
      BY <1>3, <1>4, <2>1, <2>2, PushBalance DEF made
    <2>4. HeapOK(g, HeapK)
      BY <1>3, <1>4, PushOK DEF made
    <2>5. g \in Heap
      BY <2>4 DEF HeapOK
    <2>6. /\ heaps' \in [Pool -> [Key -> Heap]] /\ heaps'[pool][k] = g
          /\ \A p \in Pool, l \in Key : p # pool \/ l # k => heaps'[p][l] = heaps[p][l]
      BY <1>3, <2>1, <2>5
    <2>7. PoolTypes'
      BY <1>1, <1>2, <2>3, <2>6 DEF PoolInv, PoolTypes
    <2>8. HeapsOK'
      BY <1>2, <2>4, <2>6 DEF PoolInv, HeapsOK
    <2>9. \/ ~Pushes(h, HeapK, made) /\ g = h
          \/ Pushes(h, HeapK, made) /\ V \subseteq h.q /\ g.q = (h.q \ V) \union {made}
      BY <1>3, PushCases
    <2> HIDE DEF g, h, V
    <2>10. /\ Held(pool) \intersect (dayHeap.q \union dayPaths) = {}
           /\ dayHeap.q \intersect dayPaths = {}
           /\ \A l, m \in Key : l # m => heaps[pool][l].q \intersect heaps[pool][m].q = {}
           /\ Live(pool) = Held(pool) \union (dayHeap.q \union dayPaths)
           /\ Live(pool)' = Held(pool)' \union (dayHeap.q \union dayPaths)
      <3>1. /\ Held(pool) \intersect (dayHeap.q \union dayPaths) = {}
            /\ dayHeap.q \intersect dayPaths = {}
            /\ \A l, m \in Key : l # m => heaps[pool][l].q \intersect heaps[pool][m].q = {}
        BY <1>3 DEF PoolInv, Apart
      <3>2. Live(pool) = Held(pool) \union (dayHeap.q \union dayPaths)
        BY LiveIs
      <3>3. Live(pool)' = Held(pool)' \union (dayHeap.q \union dayPaths)
        <4>1. Live(pool)' = Held(pool)' \union (dayHeap'.q \union dayPaths')
          BY DEF Live, Held
        <4> QED
          BY <1>2, <4>1
      <3> QED
        BY <3>1, <3>2, <3>3
    <2>11. Held(pool)' = IF Pushes(h, HeapK, made) THEN (Held(pool) \ V) \union {made} ELSE Held(pool)
      <3> DEFINE R == UNION {heaps[pool][l].q : l \in Key \ {k}}
      <3>1. Held(pool) = R \union h.q
        BY <1>3 DEF Held, h
      <3>2. Held(pool)' = R \union g.q
        BY <1>2, <1>3, <2>6 DEF Held
      <3>3. R \intersect h.q = {}
        BY <1>3, <2>10 DEF h
      <3> HIDE DEF R
      <3> QED
        BY <2>9, <3>1, <3>2, <3>3
    <2>12. /\ made \notin Held(pool) /\ made \notin dayHeap.q \union dayPaths
           /\ V \intersect (dayHeap.q \union dayPaths) = {} \/ ~Pushes(h, HeapK, made)
      BY <1>3, <2>3, <2>9, <2>10
    <2>13. Live(pool)' = IF Pushes(h, HeapK, made) THEN (Live(pool) \ V) \union {made} ELSE Live(pool)
      BY <2>10, <2>11, <2>12
    <2>14. Apart'
      <3>1. Held(pool)' \intersect (dayHeap.q \union dayPaths) = {}
        BY <2>10, <2>11, <2>12
      <3>2. ASSUME NEW p \in Pool, NEW l \in Key, NEW m \in Key, l # m
            PROVE  heaps'[p][l].q \intersect heaps'[p][m].q = {}
        <4>1. g.q \subseteq h.q \union {made}
          BY <2>9
        <4>2. \A x \in Key : made \notin heaps[pool][x].q
          BY <2>12 DEF Held
        <4>3. CASE p = pool /\ l = k
          BY <2>6, <2>10, <3>2, <4>1, <4>2, <4>3 DEF h
        <4>4. CASE p = pool /\ m = k
          BY <2>6, <2>10, <3>2, <4>1, <4>2, <4>4 DEF h
        <4>5. CASE p # pool \/ (l # k /\ m # k)
          BY <2>6, <3>2, <4>5 DEF PoolInv, Apart
        <4> QED
          BY <4>3, <4>4, <4>5
      <3> QED
        BY <1>2, <2>10, <3>1, <3>2 DEF Apart
    <2>15. ASSUME NEW p \in Pool PROVE Balance(Free(p), Live(p), born[p])'
      <3>1. CASE p = pool
        BY <1>2, <2>3, <2>13, <3>1 DEF Free
      <3>2. CASE p # pool
        <4>1. \A l \in Key : heaps'[p][l] = heaps[p][l]
          BY <2>6, <3>2
        <4>2. Held(p)' = Held(p) /\ pool' # p
          BY <1>2, <3>2, <4>1 DEF Held
        <4>3. Live(p)' = Live(p) /\ Free(p)' = Free(p) /\ born'[p] = born[p]
          BY <2>3, <3>2, <4>2 DEF Live, Held, Free
        <4> QED
          BY <4>3 DEF PoolInv, Balanced
      <3> QED
        BY <3>1, <3>2
    <2> QED
      BY <1>5, <2>7, <2>8, <2>14, <2>15 DEF PoolInv, Balanced
  <1> QED
    BY <1>6, <1>7

LEMMA JobDonePool ==
    ASSUME PoolInv, JobDone
    PROVE  PoolInv'
  <1>1. /\ pc = "join" /\ pc' = "idle" /\ pool' = None /\ job' = None /\ dayPaths' = {} /\ blockIdx' = 0
        /\ free' = [free EXCEPT ![pool] = Deleted(free[pool], Addr(dayPaths))] /\ born' = born
        /\ heaps' = heaps /\ left' = left /\ offers' = offers /\ dayHeap' = dayHeap
        /\ joins' = joins /\ merged' = merged
    BY DEF JobDone, mergeVars
  <1>2. /\ pool \in Pool /\ pool # None /\ dayHeap = EmptyHeap /\ dayHeap.q = {}
        /\ Held(pool) \intersect dayPaths = {} /\ None \notin Pool
    BY <1>1, NoHeapsOK, PoolAssumption DEF PoolInv, Phases, Apart
  <1> DEFINE F == Free(pool)
             A == Addr(dayPaths)
  <1>3. Live(pool) = Held(pool) \union dayPaths
    BY <1>2, LiveIs
  <1>4. /\ Balance(F, Held(pool) \union dayPaths, born[pool])
        /\ free[pool] = SetToBag(F) /\ F \in SUBSET Nat /\ born[pool] \in Nat
    BY <1>2, <1>3, FreeIs DEF PoolInv, Balanced, PoolTypes
  <1>5. /\ F \intersect A = {} /\ Balance(F \union A, Held(pool), born[pool])
        /\ F \union A \in SUBSET Nat
    <2>1. /\ \A a, b \in Held(pool) \union dayPaths : a.addr = b.addr => a = b
          /\ F \intersect Addr(Held(pool) \union dayPaths) = {}
          /\ F \union Addr(Held(pool) \union dayPaths) = 1..born[pool]
          /\ 1..born[pool] \subseteq Nat
      <3>1. 1..born[pool] \subseteq Nat
        BY <1>4
      <3> HIDE DEF F
      <3> QED
        BY <1>4, <3>1 DEF Balance
    <2>2. Addr(Held(pool) \union dayPaths) = Addr(Held(pool)) \union A
      BY DEF Addr
    <2>3. Addr(Held(pool)) \intersect A = {}
      BY <1>2, <2>1 DEF Addr
    <2> HIDE DEF A, F
    <2> QED
      BY <2>1, <2>2, <2>3 DEF Balance
  <1>6. Deleted(free[pool], A) = SetToBag(F \union A)
    BY <1>4, <1>5, BagAdd DEF Deleted
  <1>7. /\ free' = [free EXCEPT ![pool] = SetToBag(F \union A)]
        /\ free \in [Pool -> {SetToBag(S) : S \in SUBSET Nat}]
    BY <1>1, <1>6 DEF PoolInv, PoolTypes
  <1>8. /\ free' \in [Pool -> {SetToBag(S) : S \in SUBSET Nat}]
        /\ BagToSet(free'[pool]) = F \union A
        /\ \A p \in Pool : p # pool => free'[p] = free[p]
    BY <1>2, <1>5, <1>7, BagFacts
  <1>9. PoolTypes' /\ Phases' /\ HeapsOK' /\ Apart'
    <2>1. PoolTypes'
      BY <1>1, <1>8 DEF PoolInv, PoolTypes
    <2>2. Phases'
      BY <1>1 DEF PoolInv, Phases
    <2>3. HeapsOK' /\ Apart'
      BY <1>1, <1>2 DEF PoolInv, HeapsOK, Apart
    <2> QED
      BY <2>1, <2>2, <2>3
  <1>10. ASSUME NEW p \in Pool PROVE Balance(Free(p), Live(p), born[p])'
    <2>1. Live(p)' = Held(p)
      BY <1>1, <1>2 DEF Live, Held
    <2>2. CASE p = pool
      BY <1>1, <1>5, <1>8, <2>1, <2>2 DEF Free
    <2>3. CASE p # pool
      <3>1. Live(p) = Held(p) /\ Free(p)' = Free(p)
        BY <1>8, <2>3, LiveIs DEF Free
      <3> QED
        BY <1>1, <2>1, <3>1 DEF PoolInv, Balanced
    <2> QED
      BY <2>2, <2>3
  <1> QED
    BY <1>9, <1>10 DEF PoolInv, Balanced

\* MergeDFS changes neither the pools nor their paths until it clears them.
LEMMA MergePool ==
    ASSUME PoolInv, Merge \/ MergePush
    PROVE  PoolInv'
  <1>1. /\ free' = free /\ born' = born /\ heaps' = heaps /\ left' = left /\ job' = job /\ pool' = pool
        /\ offers' = offers /\ dayHeap' = dayHeap /\ blockIdx' = blockIdx /\ dayPaths' = dayPaths
        /\ joins' = joins /\ pc' = "merge" /\ pc \in {"idle", "merge"}
    BY DEF Merge, MergePush, jobVars, dayVars
  <1>2. PoolTypes' /\ HeapsOK' /\ Apart'
    BY <1>1 DEF PoolInv, PoolTypes, HeapsOK, Apart, Held
  <1>3. Phases'
    BY <1>1 DEF PoolInv, Phases
  <1>4. \A x \in Pool : Live(x)' = Live(x)
    BY <1>1 DEF Live
  <1> QED
    BY <1>1, <1>2, <1>3, <1>4, BalanceFrame DEF PoolInv

LEMMA MergeDonePool ==
    ASSUME PoolInv, MergeDone
    PROVE  PoolInv'
  <1>1. /\ pc = "merge" /\ pc' = "done" /\ free' = [p \in Pool |-> Clear(p)]
        /\ heaps' = [p \in Pool |-> NoHeaps] /\ born' = born /\ left' = left /\ pool' = pool
        /\ offers' = offers /\ dayHeap' = dayHeap /\ blockIdx' = blockIdx /\ dayPaths' = dayPaths
        /\ joins' = joins
    BY DEF MergeDone, jobVars, dayVars
  <1>2. /\ pool = None /\ dayPaths = {} /\ dayHeap = EmptyHeap /\ dayHeap.q = {} /\ None \notin Pool
    BY <1>1, NoHeapsOK, PoolAssumption DEF PoolInv, Phases
  <1>3. ASSUME NEW p \in Pool
        PROVE  /\ Clear(p) \in {SetToBag(S) : S \in SUBSET Nat}
               /\ BagToSet(Clear(p)) = 1..born[p]
    <2> DEFINE F == Free(p)
               A == Addr(Held(p))
    <2>1. Live(p) = Held(p)
      BY <1>2, LiveIs
    <2>2. /\ free[p] = SetToBag(F) /\ born[p] \in Nat /\ Balance(F, Held(p), born[p])
      BY <2>1, FreeIs DEF PoolInv, Balanced, PoolTypes
    <2>3. F \intersect A = {} /\ F \union A = 1..born[p]
      BY <2>2 DEF Balance
    <2>4. Clear(p) = SetToBag(1..born[p])
      <3>1. SetToBag(F) (+) SetToBag(A) = SetToBag(F \union A)
        BY <2>3, BagAdd
      <3> QED
        BY <2>2, <2>3, <3>1 DEF Clear, Deleted, Held
    <2>5. 1..born[p] \in SUBSET Nat
      BY <2>2
    <2> QED
      BY <2>4, <2>5, BagFacts
  <1>4. PoolTypes'
    BY <1>1, <1>3, NoHeapsOK DEF PoolInv, PoolTypes
  <1>5. Phases'
    BY <1>1 DEF PoolInv, Phases
  <1>6. \A p \in Pool, k \in Key : heaps'[p][k] = EmptyHeap
    BY <1>1, NoHeapsOK
  <1>7. HeapsOK'
    BY <1>1, <1>6, EmptyOK, PoolAssumption DEF PoolInv, HeapsOK
  <1>8. Apart'
    BY <1>1, <1>2, <1>6, NoHeapsOK DEF Apart
  <1>9. ASSUME NEW p \in Pool PROVE Balance(Free(p), Live(p), born[p])'
    <2>1. Held(p)' = {}
      BY <1>6, NoHeapsOK DEF Held
    <2>2. Live(p)' = {}
      BY <1>1, <1>2, <2>1 DEF Live, Held
    <2>3. Free(p)' = 1..born[p]
      BY <1>1, <1>3 DEF Free
    <2> QED
      BY <1>1, <2>2, <2>3 DEF Balance, Addr
  <1> QED
    BY <1>4, <1>5, <1>7, <1>8, <1>9 DEF PoolInv, Balanced

LEMMA AgainPool ==
    ASSUME PoolInv, Again
    PROVE  PoolInv'
  <1>1. /\ free' = free /\ born' = born /\ heaps' = heaps /\ left' \in SUBSET Job /\ pool' = pool
        /\ offers' = offers /\ dayHeap' = dayHeap /\ blockIdx' = blockIdx /\ dayPaths' = dayPaths
        /\ joins' = joins /\ pc' = "idle" /\ pc = "done"
    BY DEF Again, dayVars
  <1>2. PoolTypes' /\ HeapsOK' /\ Apart'
    BY <1>1 DEF PoolInv, PoolTypes, HeapsOK, Apart, Held
  <1>3. Phases'
    BY <1>1 DEF PoolInv, Phases
  <1>4. \A x \in Pool : Live(x)' = Live(x)
    BY <1>1 DEF Live
  <1> QED
    BY <1>1, <1>2, <1>3, <1>4, BalanceFrame DEF PoolInv

LEMMA NextPool ==
    ASSUME PoolInv, [Next]_vars
    PROVE  PoolInv'
  <1>1. CASE UNCHANGED vars
    <2>1. \A x \in Pool : Live(x)' = Live(x)
      BY <1>1 DEF vars, Live
    <2>2. PoolTypes' /\ Phases' /\ HeapsOK' /\ Apart'
      BY <1>1 DEF PoolInv, vars, PoolTypes, Phases, HeapsOK, Apart, Held
    <2> QED
      BY <1>1, <2>1, <2>2, BalanceFrame DEF PoolInv, vars
  <1>2. CASE Next
    BY <1>2, StartPool, PushPathPool, DayDonePool, JoinPool, JobDonePool, MergePool, MergeDonePool,
       AgainPool DEF Next
  <1> QED
    BY <1>1, <1>2

\* Where the objects of the pools are is an inductive invariant.
THEOREM PoolInvariant == Spec => []PoolInv
  <1> QED
    BY InitPool, NextPool, PTL DEF Spec

\* SPathAlloc, SPathHeap::Push and ThreadMemPool::Clear together lose no path
\* object, free none twice and give out none that is in use, and nothing of a
\* request is left in the pools after it.
THEOREM Conservation == Spec => []Conserved
  <1>1. PoolInv => Conserved
    <2> SUFFICES ASSUME PoolInv, NEW p \in Pool
                 PROVE  /\ \A a \in BagToSet(free[p]) : free[p][a] = 1
                        /\ \A a, b \in Live(p) : a.addr = b.addr => a = b
                        /\ BagToSet(free[p]) \intersect Addr(Live(p)) = {}
                        /\ BagToSet(free[p]) \union Addr(Live(p)) = 1..born[p]
                        /\ pc = "done" => Live(p) = {}
      BY DEF Conserved
    <2>1. \A a \in BagToSet(free[p]) : free[p][a] = 1
      BY FreeIs, BagFacts DEF PoolInv, Free
    <2>2. /\ \A a, b \in Live(p) : a.addr = b.addr => a = b
          /\ BagToSet(free[p]) \intersect Addr(Live(p)) = {}
          /\ BagToSet(free[p]) \union Addr(Live(p)) = 1..born[p]
      BY DEF PoolInv, Balanced, Balance, Free
    <2>3. ASSUME pc = "done" PROVE Live(p) = {}
      <3>1. pool = None /\ heaps = [x \in Pool |-> NoHeaps]
        BY <2>3 DEF PoolInv, Phases
      <3>2. Live(p) = Held(p)
        BY <3>1, LiveIs, PoolAssumption
      <3>3. \A k \in Key : heaps[p][k].q = {}
        BY <3>1, NoHeapsOK
      <3> QED
        BY <3>2, <3>3 DEF Held
    <2> QED
      BY <2>1, <2>2, <2>3
  <1> QED
    BY <1>1, PoolInvariant, PTL

-----------------------------------------------------------------------------
(* BestInv: what is seen is kept. *)

\* A heap that covers what another one holds covers what that one covers.
LEMMA CoverTransitive ==
    ASSUME NEW topK \in Nat \ {0}, NEW h, HeapOK(h, topK), NEW g, HeapOK(g, topK),
           \A r \in h.q : Covers(g.q, topK, Plain(r)),
           NEW s \in PlainPath, Covers(h.q, topK, s)
    PROVE  Covers(g.q, topK, s)
  <1>1. /\ h.q \subseteq Path /\ g.q \subseteq Path /\ IsFiniteSet(h.q) /\ IsFiniteSet(g.q)
        /\ Cardinality(g.q) <= topK /\ Cardinality(h.q) \in Nat /\ Cardinality(g.q) \in Nat
    BY FS_CardinalityType DEF HeapOK, Heap
  <1>2. CASE \E r \in h.q : Plain(r) = s
    BY <1>2
  <1>3. CASE /\ Cardinality(h.q) >= topK /\ \A r \in h.q : SPathCmp(r, s)
             /\ \E r \in h.q : Cardinality(g.q) >= topK /\ \A x \in g.q : SPathCmp(x, Plain(r))
    <2>1. PICK r \in h.q : Cardinality(g.q) >= topK /\ \A x \in g.q : SPathCmp(x, Plain(r))
      BY <1>3
    <2>2. SPathCmp(r, s) /\ Keyed(r) /\ Keyed(s) /\ \A x \in g.q : Keyed(x)
      BY <1>1, <1>3, PathKeyed, PlainKeyed
    <2>3. \A x \in g.q : SPathCmp(x, r)
      BY <2>1, PlainCmp
    <2>4. \A x \in g.q : SPathCmp(x, s)
      BY <2>2, <2>3, CmpTransitive
    <2> QED
      BY <2>1, <2>4 DEF Covers
  <1>4. CASE /\ Cardinality(h.q) >= topK /\ \A r \in h.q : SPathCmp(r, s)
             /\ \A r \in h.q : \E x \in g.q : Plain(x) = Plain(r)
    <2> DEFINE f == [r \in h.q |-> CHOOSE x \in g.q : Plain(x) = Plain(r)]
    <2>1. \A r \in h.q : f[r] \in g.q /\ Plain(f[r]) = Plain(r)
      BY <1>4
    <2>2. f \in [h.q -> g.q]
      BY <2>1
    <2> HIDE DEF f
    <2>3. \A r, x \in h.q : f[r] = f[x] => r = x
      <3>1. \A r, x \in h.q : Plain(r) = Plain(x) => r.hash = x.hash
        BY PlainCmp
      <3> QED
        BY <2>1, <3>1 DEF HeapOK
    <2>4. f \in Injection(h.q, g.q)
      BY <2>2, <2>3 DEF Injection, IsInjective
    <2>5. Cardinality(h.q) <= Cardinality(g.q)
      BY <1>1, <2>4, FS_Injection
    <2>6. Cardinality(g.q) = topK /\ Cardinality(h.q) = Cardinality(g.q)
      BY <1>1, <1>4, <2>5
    <2>7. f \in Surjection(h.q, g.q)
      BY <1>1, <2>4, <2>6, FS_Injection
    <2>8. ASSUME NEW x \in g.q PROVE SPathCmp(x, s)
      <3>1. PICK r \in h.q : f[r] = x
        BY <2>7 DEF Surjection
      <3>2. Plain(x) = Plain(r) /\ SPathCmp(r, s)
        BY <1>4, <2>1, <3>1
      <3>3. SPathCmp(Plain(r), s)
        BY <3>2, PlainCmp
      <3> QED
        BY <3>2, <3>3, PlainCmp
    <2> QED
      BY <2>6, <2>8 DEF Covers
  <1> QED
    BY <1>2, <1>3, <1>4 DEF Covers

LEMMA StockedEmpty == \A S : Stocked(EmptyHeap, HeapK, S)
  BY NoHeapsOK, EmptyOK, PoolAssumption DEF Stocked

LEMMA InitBest == Init => BestInv
  <1> SUFFICES ASSUME Init PROVE BestInv
    OBVIOUS
  <1>1. PoolInv
    BY InitPool
  <1>2. SeenOK
    BY FS_EmptySet DEF Init, SeenOK
  <1>3. /\ pc = "idle" /\ merged = NoHeaps /\ merging = {} /\ \A k \in Key : seen[k] = {}
        /\ \A p \in Pool, k \in Key : heaps[p][k] = EmptyHeap
    BY NoHeapsOK DEF Init
  <1>4. PoolsCover
    BY <1>3, StockedEmpty DEF PoolsCover
  <1>5. MergeCovers
    BY <1>3, NoHeapsOK, StockedEmpty DEF MergeCovers
  <1>6. MergedBest
    BY <1>3 DEF MergedBest
  <1> QED
    BY <1>1, <1>2, <1>4, <1>5, <1>6 DEF BestInv

\* A step of a job that joins nothing.
LEMMA BestFrame ==
    ASSUME BestInv, PoolInv', heaps' = heaps, seen' = seen, merged' = merged, merging' = merging,
           pc \notin {"merge", "done"}, pc' \notin {"merge", "done"}
    PROVE  BestInv'
  <1>1. SeenOK'
    BY DEF BestInv, SeenOK
  <1>2. PoolsCover'
    BY DEF BestInv, PoolsCover
  <1>3. MergeCovers'
    BY DEF BestInv, MergeCovers
  <1>4. MergedBest'
    BY DEF MergedBest
  <1> QED
    BY <1>1, <1>2, <1>3, <1>4 DEF BestInv

LEMMA JoinBest ==
    ASSUME BestInv, PoolInv', NoCollision', Join
    PROVE  BestInv'
  <1> DEFINE k == job.key
             h == heaps[pool][k]
  <1>1. PICK a \in joins :
            /\ IF CanPush(h, HeapK, Joined(a).score, 0, 0)
               THEN heaps' = [heaps EXCEPT ![pool][k] = Push(h, HeapK, Joined(a))]
               ELSE heaps' = heaps
            /\ seen' = [seen EXCEPT ![k] = @ \union {Plain(Joined(a))}]
    BY DEF Join
  <1>2. pc = "join" /\ pc' = "join" /\ merged' = merged /\ merging' = merging
    BY DEF Join, mergeVars
  <1>3. /\ job \in Job /\ pool \in Pool /\ k \in Key /\ a \in DayPath /\ HeapK \in Nat \ {0}
        /\ heaps \in [Pool -> [Key -> Heap]] /\ seen \in [Key -> SUBSET PlainPath]
    BY <1>2, PoolAssumption DEF BestInv, PoolInv, Phases, PoolTypes, SeenOK, Key
  <1> DEFINE made == Joined(a)
             S == seen[k] \union {Plain(made)}
             g == heaps'[pool][k]
  <1>4. made \in Path /\ Plain(made) \in PlainPath
    BY <1>3, JoinedPath, PathKeyed DEF BestInv
  <1> HIDE DEF made, k
  <1>5. /\ seen'[k] = S /\ S \in SUBSET PlainPath /\ Distinct(S)
        /\ \A l \in Key : seen[l] \subseteq seen'[l] /\ (l # k => seen'[l] = seen[l])
        /\ seen' \in [Key -> SUBSET PlainPath]
    <2>1. /\ seen'[k] = S /\ S \in SUBSET PlainPath
          /\ \A l \in Key : l # k => seen'[l] = seen[l]
          /\ seen' \in [Key -> SUBSET PlainPath]
      BY <1>1, <1>3, <1>4 DEF made, k
    <2>2. Distinct(seen'[k])
      BY <1>3 DEF NoCollision
    <2> QED
      BY <1>3, <2>1, <2>2
  <1>6. Stocked(h, HeapK, S) /\ HeapOK(h, HeapK)
    <2>1. Stocked(h, HeapK, seen[k])
      BY <1>3 DEF BestInv, PoolsCover
    <2> QED
      BY <2>1, StockedMore DEF Stocked
  <1>7. /\ Stocked(g, HeapK, S) /\ Covers(g.q, HeapK, Plain(made))
        /\ \A s \in S : Covers(h.q, HeapK, s) => Covers(g.q, HeapK, s)
        /\ \A p \in Pool, l \in Key : p # pool \/ l # k => heaps'[p][l] = heaps[p][l]
    <2>1. CASE CanPush(h, HeapK, made.score, 0, 0)
      <3>1. heaps' = [heaps EXCEPT ![pool][k] = Push(h, HeapK, made)]
        BY <1>1, <2>1 DEF made, k
      <3>2. /\ g = Push(h, HeapK, made)
            /\ \A p \in Pool, l \in Key : p # pool \/ l # k => heaps'[p][l] = heaps[p][l]
        BY <1>3, <3>1
      <3>3. Plain(made) \in S
        OBVIOUS
      <3>4. Covers(g.q, HeapK, Plain(made)) /\ Stocked(g, HeapK, S)
        BY <1>3, <1>4, <1>5, <1>6, <3>2, <3>3, PushKeeps
      <3>5. \A s \in S : Covers(h.q, HeapK, s) => Covers(g.q, HeapK, s)
        BY <1>3, <1>4, <1>5, <1>6, <3>2, PushCovers
      <3> QED
        BY <3>2, <3>4, <3>5
    <2>2. CASE ~CanPush(h, HeapK, made.score, 0, 0)
      <3>1. heaps' = heaps
        BY <1>1, <2>2 DEF made, k
      <3>2. Covers(h.q, HeapK, Plain(made))
        BY <1>3, <1>4, <1>6, <2>2, TurnedAway
      <3> QED
        BY <1>6, <3>1, <3>2
    <2> QED
      BY <2>1, <2>2
  <1>8. SeenOK'
    <2>1. ASSUME NEW l \in Key PROVE IsFiniteSet(seen'[l])
      <3>1. IsFiniteSet(seen[l])
        BY DEF BestInv, SeenOK
      <3>2. IsFiniteSet(seen[l] \union {Plain(made)})
        BY <3>1, FS_AddElement
      <3> QED
        BY <1>5, <3>1, <3>2
    <2> QED
      BY <1>5, <2>1 DEF SeenOK
  <1> HIDE DEF g, h, S
  <1>9. PoolsCover'
    <2>1. ASSUME NEW p \in Pool, NEW l \in Key PROVE Stocked(heaps'[p][l], HeapK, seen'[l])
      <3>1. CASE p = pool /\ l = k
        BY <1>5, <1>7, <3>1 DEF g
      <3>2. CASE p # pool \/ l # k
        <4>1. Stocked(heaps[p][l], HeapK, seen[l])
          BY DEF BestInv, PoolsCover
        <4>2. heaps'[p][l] = heaps[p][l] /\ seen[l] \subseteq seen'[l]
          BY <1>5, <1>7, <3>2
        <4> QED
          BY <4>1, <4>2, StockedMore
      <3> QED
        BY <3>1, <3>2
    <2>2. ASSUME NEW l \in Key, NEW s \in seen'[l]
          PROVE  \E p \in Pool : Covers(heaps'[p][l].q, HeapK, s)
      <3>1. CASE l = k /\ s = Plain(made)
        BY <1>3, <1>7, <3>1 DEF g
      <3>2. CASE s \in seen[l]
        <4>1. PICK p \in Pool : Covers(heaps[p][l].q, HeapK, s)
          BY <1>2, <3>2 DEF BestInv, PoolsCover
        <4>2. CASE p = pool /\ l = k
          BY <1>5, <1>7, <2>2, <4>1, <4>2 DEF g, h
        <4>3. CASE p # pool \/ l # k
          BY <1>7, <4>1, <4>3
        <4> QED
          BY <4>2, <4>3
      <3> QED
        BY <1>5, <3>1, <3>2 DEF S
    <2> QED
      BY <2>1, <2>2 DEF PoolsCover
  <1>10. MergeCovers'
    <2>1. merged = NoHeaps /\ merging = {} /\ merged \in [Key -> Heap]
      BY <1>2 DEF BestInv, MergeCovers
    <2> QED
      BY <1>2, <2>1, NoHeapsOK, StockedEmpty DEF MergeCovers
  <1>11. MergedBest'
    BY <1>2 DEF MergedBest
  <1> QED
    BY <1>8, <1>9, <1>10, <1>11 DEF BestInv

LEMMA MergeBest ==
    ASSUME BestInv, PoolInv', Merge
    PROVE  BestInv'
  <1>1. /\ pc = "idle" /\ pc' = "merge" /\ heaps' = heaps /\ seen' = seen /\ merged' = merged
        /\ merging' = UNION {{<<p, k, r>> : r \in heaps[p][k].q} : p \in Pool, k \in Key}
    BY DEF Merge
  <1>2. SeenOK' /\ PoolsCover'
    BY <1>1 DEF BestInv, SeenOK, PoolsCover
  <1>3. \A m \in merging' : m[1] \in Pool /\ m[2] \in Key /\ m[3] \in heaps[m[1]][m[2]].q
    BY <1>1
  <1>4. ASSUME NEW p \in Pool, NEW k \in Key, NEW r \in heaps[p][k].q PROVE <<p, k, r>> \in merging'
    <2> DEFINE Of(a, b) == {<<a, b, x>> : x \in heaps[a][b].q}
               All == {Of(a, b) : a \in Pool, b \in Key}
    <2>1. merging' = UNION All
      BY <1>1
    <2>2. <<p, k, r>> \in Of(p, k)
      OBVIOUS
    <2>3. Of(p, k) \in All
      <3> HIDE DEF Of
      <3> QED
        OBVIOUS
    <2> HIDE DEF Of, All
    <2> QED
      BY <2>1, <2>2, <2>3
  <1>5. MergeCovers'
    BY <1>1, <1>3, <1>4 DEF BestInv, MergeCovers
  <1>6. MergedBest'
    BY <1>1 DEF MergedBest
  <1> QED
    BY <1>2, <1>5, <1>6 DEF BestInv

LEMMA MergePushBest ==
    ASSUME BestInv, PoolInv', NoCollision, MergePush
    PROVE  BestInv'
  <1>1. PICK m \in merging :
            /\ merging' = merging \ {m}
            /\ merged' = [merged EXCEPT ![m[2]] = Push(@, HeapK, m[3])]
    BY DEF MergePush
  <1>2. pc = "merge" /\ pc' = "merge" /\ heaps' = heaps /\ seen' = seen
    BY DEF MergePush
  <1> DEFINE k == m[2]
             h == merged[k]
             g == merged'[k]
             made == m[3]
  <1>3. /\ m[1] \in Pool /\ k \in Key /\ made \in heaps[m[1]][k].q
        /\ merged \in [Key -> Heap] /\ Stocked(h, HeapK, seen[k])
    BY DEF BestInv, MergeCovers
  <1>4. /\ seen[k] \in SUBSET PlainPath /\ Distinct(seen[k]) /\ HeapK \in Nat \ {0}
        /\ HeapOK(h, HeapK)
    BY <1>3, PoolAssumption DEF BestInv, SeenOK, NoCollision, Stocked
  <1>5. made \in Path /\ Plain(made) \in seen[k]
    <2>1. Stocked(heaps[m[1]][k], HeapK, seen[k])
      BY <1>3 DEF BestInv, PoolsCover
    <2> QED
      BY <1>3, <2>1 DEF Stocked, HeapOK, Heap
  <1> HIDE DEF made, k
  <1>6. /\ g = Push(h, HeapK, made) /\ merged' = [merged EXCEPT ![k] = Push(h, HeapK, made)]
        /\ \A l \in Key : l # k => merged'[l] = merged[l]
    BY <1>1, <1>3 DEF made, k
  <1>7. Covers(g.q, HeapK, Plain(made)) /\ Stocked(g, HeapK, seen[k])
    BY <1>3, <1>4, <1>5, <1>6, PushKeeps
  <1>8. \A s \in PlainPath : Covers(h.q, HeapK, s) => Covers(g.q, HeapK, s)
    BY <1>4, <1>5, <1>6, PushCovers
  <1>9. merged' \in [Key -> Heap]
    <2>1. g \in Heap
      BY <1>7 DEF Stocked, HeapOK
    <2> QED
      BY <1>3, <1>6, <2>1
  <1>10. SeenOK' /\ PoolsCover' /\ MergedBest'
    BY <1>2 DEF BestInv, SeenOK, PoolsCover, MergedBest
  <1>11. \A l \in Key : Stocked(merged'[l], HeapK, seen[l])
    BY <1>6, <1>7 DEF BestInv, MergeCovers
  <1>12. ASSUME NEW p \in Pool, NEW l \in Key, NEW r \in heaps[p][l].q
         PROVE  <<p, l, r>> \in merging' \/ Covers(merged'[l].q, HeapK, Plain(r))
    <2>1. CASE <<p, l, r>> = m
      <3>1. l = k /\ r = made
        BY <2>1 DEF k, made
      <3> QED
        BY <1>7, <3>1
    <2>2. CASE <<p, l, r>> \in merging /\ <<p, l, r>> # m
      BY <1>1, <2>2
    <2>3. CASE Covers(merged[l].q, HeapK, Plain(r))
      <3>1. Plain(r) \in PlainPath
        <4>1. HeapOK(heaps[p][l], HeapK)
          BY DEF BestInv, PoolInv, HeapsOK
        <4> QED
          BY <4>1, PathKeyed DEF HeapOK, Heap
      <3> QED
        BY <1>6, <1>8, <2>3, <3>1
    <2> QED
      BY <1>2, <2>1, <2>2, <2>3 DEF BestInv, MergeCovers
  <1>13. MergeCovers'
    <2>1. \A x \in merging' : x[1] \in Pool /\ x[2] \in Key /\ x[3] \in heaps[x[1]][x[2]].q
      BY <1>1 DEF BestInv, MergeCovers
    <2> QED
      BY <1>2, <1>9, <1>11, <1>12, <2>1 DEF MergeCovers
  <1> QED
    BY <1>10, <1>13 DEF BestInv

LEMMA MergeDoneBest ==
    ASSUME BestInv, PoolInv', MergeDone
    PROVE  BestInv'
  <1>1. /\ pc = "merge" /\ merging = {} /\ pc' = "done" /\ seen' = seen /\ merging' = merging
        /\ dfsList' = Cut({Plain(p) : p \in UNION {merged[k].q : k \in Key}})
        /\ merged' = NoHeaps /\ heaps' = [p \in Pool |-> NoHeaps]
    BY DEF MergeDone
  <1>2. HeapK \in Nat \ {0}
    BY PoolAssumption
  <1>3. ASSUME NEW k \in Key PROVE {Plain(p) : p \in merged[k].q} = Best(seen[k], HeapK)
    <2>1. /\ Stocked(merged[k], HeapK, seen[k]) /\ HeapOK(merged[k], HeapK)
          /\ seen[k] \in SUBSET PlainPath /\ IsFiniteSet(seen[k])
      BY DEF BestInv, MergeCovers, SeenOK, Stocked
    <2>2. ASSUME NEW s \in seen[k] PROVE Covers(merged[k].q, HeapK, s)
      <3>1. PICK p \in Pool : Covers(heaps[p][k].q, HeapK, s)
        BY <1>1 DEF BestInv, PoolsCover
      <3>2. HeapOK(heaps[p][k], HeapK)
        BY DEF BestInv, PoolInv, HeapsOK
      <3>3. \A r \in heaps[p][k].q : Covers(merged[k].q, HeapK, Plain(r))
        BY <1>1 DEF BestInv, MergeCovers
      <3> QED
        BY <1>2, <2>1, <3>1, <3>2, <3>3, CoverTransitive
    <2> QED
      BY <1>2, <2>1, <2>2, HeapIsBest
  <1>4. {Plain(p) : p \in UNION {merged[k].q : k \in Key}} = UNION {Best(seen[k], HeapK) : k \in Key}
    <2>1. \A p, k : k \in Key /\ p \in merged[k].q => Plain(p) \in Best(seen[k], HeapK)
      BY <1>3
    <2>2. \A s, k : k \in Key /\ s \in Best(seen[k], HeapK) => \E p \in merged[k].q : Plain(p) = s
      BY <1>3
    <2> QED
      BY <2>1, <2>2
  <1>5. MergedBest'
    BY <1>1, <1>4 DEF MergedBest
  <1>6. SeenOK'
    BY <1>1 DEF BestInv, SeenOK
  <1>7. \A p \in Pool, k \in Key : heaps'[p][k] = EmptyHeap
    BY <1>1, NoHeapsOK
  <1>8. PoolsCover'
    BY <1>1, <1>7, StockedEmpty DEF PoolsCover
  <1>9. MergeCovers'
    BY <1>1, NoHeapsOK, StockedEmpty DEF MergeCovers
  <1> QED
    BY <1>5, <1>6, <1>8, <1>9 DEF BestInv

LEMMA AgainBest ==
    ASSUME BestInv, PoolInv', Again
    PROVE  BestInv'
  <1>1. /\ pc = "done" /\ pc' = "idle" /\ seen' = [k \in Key |-> {}] /\ merging' = merging
        /\ merged' = merged /\ heaps' = heaps
    BY DEF Again
  <1>2. heaps = [p \in Pool |-> NoHeaps] /\ merged = NoHeaps /\ merging = {}
    BY <1>1 DEF BestInv, PoolInv, Phases, MergeCovers
  <1>3. \A p \in Pool, k \in Key : heaps'[p][k] = EmptyHeap /\ seen'[k] = {}
    BY <1>1, <1>2, NoHeapsOK
  <1>4. SeenOK'
    BY <1>1, FS_EmptySet DEF SeenOK
  <1>5. PoolsCover'
    <2>1. \A k \in Key : seen'[k] = {}
      BY <1>1
    <2> QED
      BY <1>3, <2>1, StockedEmpty DEF PoolsCover
  <1>6. MergeCovers'
    BY <1>1, <1>2, NoHeapsOK, StockedEmpty DEF MergeCovers
  <1>7. MergedBest'
    BY <1>1 DEF MergedBest
  <1> QED
    BY <1>4, <1>5, <1>6, <1>7 DEF BestInv

LEMMA NextBest ==
    ASSUME BestInv, NoCollision, NoCollision', [Next]_vars
    PROVE  BestInv'
  <1>0. PoolInv'
    BY NextPool DEF BestInv
  <1>1. CASE UNCHANGED vars
    <2>1. SeenOK' /\ PoolsCover' /\ MergeCovers' /\ MergedBest'
      BY <1>1 DEF BestInv, vars, SeenOK, PoolsCover, MergeCovers, MergedBest
    <2> QED
      BY <1>0, <2>1 DEF BestInv
  <1>2. CASE Start \/ PushPath \/ DayDone \/ JobDone
    <2>1. /\ heaps' = heaps /\ seen' = seen /\ merged' = merged /\ merging' = merging
          /\ pc \notin {"merge", "done"} /\ pc' \notin {"merge", "done"}
      BY <1>2 DEF Start, PushPath, DayDone, JobDone, mergeVars
    <2> QED
      BY <1>0, <2>1, BestFrame
  <1>3. CASE Join \/ Merge \/ MergePush \/ MergeDone \/ Again
    BY <1>0, <1>3, JoinBest, MergeBest, MergePushBest, MergeDoneBest, AgainBest
  <1> QED
    BY <1>1, <1>2, <1>3 DEF Next

\* The list that the route stage gets holds the best paths of every point set,
\* however the jobs are spread over the pools and in whichever order the paths
\* come, as long as CalHashPointOrder gives the orders of a point set
\* different hashes: SPathHeap takes paths of the same hash for the same.
THEOREM BestKept == Spec /\ []NoCollision => []MergedBest
  <1>1. BestInv => MergedBest
    BY DEF BestInv
  <1>2. BestInv /\ NoCollision /\ NoCollision' /\ [Next]_vars => BestInv'
    BY NextBest
  <1> QED
    BY <1>1, <1>2, InitBest, PTL DEF Spec

=============================================================================
