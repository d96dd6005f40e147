--------------------------- MODULE DaySearchProofs ---------------------------
(***************************************************************************)
(* Proofs about PathHeap and DaySearch, for days of any number of places,  *)
(* any traffic, opening hours, penalties and heap limit: the running       *)
(* totals are those of the path, the search ends, what it returns is sound *)
(* and, unless it ran out of time, optimal, and its clashes are exact.     *)
(***************************************************************************)
EXTENDS DaySearch, FiniteSetTheorems, SequenceTheorems, WellFoundedInduction, TLAPS

-----------------------------------------------------------------------------
(* Induction and recursion over an interval.  The sets are the ones the     *)
(* induction is about.                                                      *)

\* A set of numbers that is not empty has a least one.
LEMMA LeastNumber ==
    ASSUME NEW S \in SUBSET Nat, S # {}
    PROVE  \E x \in S : \A y \in S : x <= y
  <1> DEFINE R == {ss \in Nat \X Nat : ss[1] < ss[2]}
  <1>1. IsWellFoundedOn(R, Nat)
    BY NatLessThanWellFounded DEF OpToRel
  <1>2. \A y, z \in Nat : y < z => <<y, z>> \in R
    OBVIOUS
  <1> HIDE DEF R
  <1>3. PICK x \in S : \A y \in S : ~(<<y, x>> \in R)
    BY <1>1, WFMin
  <1>4. \A y \in S : ~(y < x) /\ y \in Nat /\ x \in Nat
    BY <1>2, <1>3
  <1> QED
    BY <1>4

\* A set with b in it, and with every number up to n whose predecessor it has,
\* has all of b..n: there is no least number it misses.
LEMMA Upwards ==
    ASSUME NEW b \in Nat, NEW n \in Nat, NEW I, b \in I,
           \A k \in b..n : k # b /\ k - 1 \in I => k \in I
    PROVE  \A k \in b..n : k \in I
  <1> DEFINE T == {k \in b..n : k \notin I}
  <1>1. SUFFICES ASSUME T # {} PROVE FALSE
    OBVIOUS
  <1>2. T \in SUBSET Nat
    OBVIOUS
  <1>3. PICK x \in T : \A y \in T : x <= y
    <2> HIDE DEF T
    <2> QED
      BY <1>1, <1>2, LeastNumber
  <1>4. x \in b..n /\ x # b /\ x - 1 \in b..n /\ x - 1 \notin T
    BY <1>3
  <1> QED
    BY <1>4

\* A recursion over b..n with values in S: where it begins, and the steps.
Recursive(b, n, S, a, step) ==
    b \in Nat /\ n \in Nat /\ b <= n /\ a \in S /\ step \in [b..n -> [S -> S]]

\* It has a solution: the lengths to which there is one are closed under going
\* one further.
LEMMA Recursion ==
    ASSUME NEW b, NEW n, NEW S, NEW a, NEW step, Recursive(b, n, S, a, step)
    PROVE  \E f \in [b..n -> S] :
              f[b] = a /\ \A k \in b..n : k # b => f[k] = step[k][f[k - 1]]
  <1> USE DEF Recursive
  <1> DEFINE Solves(f, m) == f[b] = a /\ \A k \in b..m : k # b => f[k] = step[k][f[k - 1]]
             I == {m \in b..n : \E f \in [b..n -> S] : Solves(f, m)}
  <1>1. b \in I
    <2> DEFINE f == [k \in b..n |-> a]
    <2>1. b \in b..n /\ \A k \in b..b : k = b
      OBVIOUS
    <2>2. f \in [b..n -> S] /\ f[b] = a
      BY <2>1
    <2> HIDE DEF f
    <2>3. Solves(f, b)
      BY <2>1, <2>2
    <2> QED
      BY <2>1, <2>2, <2>3
  <1>2. ASSUME NEW m \in b..n, m # b, m - 1 \in I PROVE m \in I
    <2> USE <1>2
    <2>1. PICK f \in [b..n -> S] : Solves(f, m - 1)
      BY <1>2
    <2> DEFINE g == [f EXCEPT ![m] = step[m][f[m - 1]]]
    <2>2. m - 1 \in b..n /\ m \in b..n /\ f[m - 1] \in S /\ step[m] \in [S -> S]
      OBVIOUS
    <2>3. step[m][f[m - 1]] \in S
      BY <2>2
    <2>4. g \in [b..n -> S] /\ g[m] = step[m][f[m - 1]] /\ \A k \in b..n : k # m => g[k] = f[k]
      BY <2>3
    <2> HIDE DEF g
    <2>5. \A k \in b..m : k # b => g[k] = step[k][g[k - 1]]
      <3> SUFFICES ASSUME NEW k \in b..m, k # b PROVE g[k] = step[k][g[k - 1]]
        OBVIOUS
      <3>1. CASE k = m
        <4>1. m - 1 \in b..n /\ m - 1 # m
          BY <2>2
        <4> QED
          BY <2>4, <3>1, <4>1
      <3>2. CASE k # m
        <4>1. k \in b..(m - 1) /\ k \in b..n /\ k - 1 \in b..n /\ k - 1 # m
          BY <3>2
        <4> QED
          BY <2>1, <2>4, <3>2, <4>1
      <3> QED
        BY <3>1, <3>2
    <2>6. Solves(g, m)
      <3>1. b \in b..n /\ b # m
        OBVIOUS
      <3> QED
        BY <2>1, <2>4, <2>5, <3>1
    <2> QED
      BY <2>2, <2>4, <2>6
  <1> HIDE DEF I
  <1>3. n \in I
    <2>1. \A k \in b..n : k \in I
      BY <1>1, <1>2, Upwards
    <2> QED
      BY <2>1
  <1> QED
    BY <1>3 DEF I

-----------------------------------------------------------------------------
(* The order of the paths. *)

\* What SPathCmp looks at.
Keyed(p) == p.miss \in Int /\ p.clash \in Int /\ p.score \in Int /\ p.hash \in Int

LEMMA CmpTransitive ==
    ASSUME NEW a, NEW b, NEW c, Keyed(a), Keyed(b), Keyed(c), SPathCmp(a, b), SPathCmp(b, c)
    PROVE  SPathCmp(a, c)
  BY DEF Keyed, SPathCmp

LEMMA CmpAsymmetric ==
    ASSUME NEW a, NEW b, Keyed(a), Keyed(b), SPathCmp(a, b)
    PROVE  ~SPathCmp(b, a)
  BY DEF Keyed, SPathCmp

LEMMA CmpTotal ==
    ASSUME NEW a, NEW b, Keyed(a), Keyed(b), a.hash # b.hash
    PROVE  SPathCmp(a, b) \/ SPathCmp(b, a)
  BY DEF Keyed, SPathCmp

\* A heap that is not empty has a last path: of the sets of the paths behind
\* a path, one is minimal, and it is empty.
LEMMA TopLast ==
    ASSUME NEW q, IsFiniteSet(q), q # {}, \A p \in q : Keyed(p)
    PROVE  top(q) \in q /\ \A r \in q : ~SPathCmp(top(q), r)
  <1> DEFINE Behind(p) == {r \in q : SPathCmp(p, r)}
             Sets == {Behind(p) : p \in q}
  <1>1. Sets \subseteq FiniteSubsetsOf(q) /\ Sets # {}
    <2>1. ASSUME NEW p \in q PROVE Behind(p) \in FiniteSubsetsOf(q)
      <3>1. Behind(p) \in SUBSET q
        OBVIOUS
      <3> QED
        BY <3>1, FS_Subset DEF FiniteSubsetsOf
    <2> QED
      BY <2>1
  <1>2. PICK B \in Sets : \A C \in Sets : <<C, B>> \notin StrictSubsetOrdering(q)
    BY <1>1, WFMin, FS_StrictSubsetOrderingWellFounded
  <1>3. PICK p \in q : B = Behind(p)
    OBVIOUS
  <1>4. ASSUME NEW r \in q, SPathCmp(p, r) PROVE FALSE
    <2>1. Behind(r) \subseteq Behind(p)
      BY <1>4, CmpTransitive
    <2>2. r \in Behind(p) /\ r \notin Behind(r)
      BY <1>4, CmpAsymmetric
    <2>3. Behind(r) \in Sets
      OBVIOUS
    <2>4. Behind(r) \in SUBSET q /\ Behind(p) \in SUBSET q
      OBVIOUS
    <2>5. <<Behind(r), Behind(p)>> \in StrictSubsetOrdering(q)
      BY <2>1, <2>2, <2>4 DEF StrictSubsetOrdering
    <2> QED
      BY <1>2, <1>3, <2>3, <2>5
  <1>5. \E x \in q : \A r \in q : ~SPathCmp(x, r)
    BY <1>4
  <1> QED
    BY <1>5 DEF top

-----------------------------------------------------------------------------
(* Heaps. *)

\* Paths P, each of which stands for a value plain[p] of R that SPathCmp does not
\* tell from it (a path object stands for the path without its address).
Stands(P, R, plain) ==
    /\ plain \in [P -> R]
    /\ \A s \in R : Keyed(s)
    /\ \A p \in P :
          /\ p.miss \in Nat /\ p.clash \in Nat /\ p.score \in Int /\ p.hash \in Nat
          /\ plain[p].miss = p.miss /\ plain[p].clash = p.clash
          /\ plain[p].score = p.score /\ plain[p].hash = p.hash

\* A heap of at most topK paths of P, with different hashes, all of them noted.
HeapOf(P, h, topK) ==
    /\ h \in [q : SUBSET P, hashes : SUBSET Nat]
    /\ IsFiniteSet(h.q) /\ Cardinality(h.q) <= topK
    /\ \A p \in h.q : p.hash \in h.hashes
    /\ \A p, r \in h.q : p.hash = r.hash => p = r

LEMMA StandsKeyed ==
    ASSUME NEW P, NEW R, NEW plain, Stands(P, R, plain)
    PROVE  /\ \A p \in P : Keyed(p) /\ plain[p] \in R /\ plain[p].hash = p.hash
           /\ \A s \in R : Keyed(s)
  BY DEF Stands, Keyed

LEMMA StandsCmp ==
    ASSUME NEW P, NEW R, NEW plain, Stands(P, R, plain), NEW p \in P
    PROVE  \A s : /\ SPathCmp(plain[p], s) <=> SPathCmp(p, s)
                  /\ SPathCmp(s, plain[p]) <=> SPathCmp(s, p)
  BY DEF Stands, SPathCmp

LEMMA EmptyHeapOf ==
    ASSUME NEW P, NEW topK \in Nat
    PROVE  HeapOf(P, EmptyHeap, topK)
  BY FS_EmptySet DEF HeapOf, EmptyHeap

\* A full heap has a last path, and the others go before it.
LEMMA LastOfFull ==
    ASSUME NEW P, NEW R, NEW plain, Stands(P, R, plain),
           NEW topK \in Nat \ {0}, NEW h, HeapOf(P, h, topK), Cardinality(h.q) >= topK
    PROVE  /\ top(h.q) \in h.q /\ Cardinality(h.q) = topK
           /\ \A r \in h.q : r = top(h.q) \/ SPathCmp(r, top(h.q))
  <1>1. IsFiniteSet(h.q) /\ h.q \subseteq P /\ Cardinality(h.q) <= topK
    BY DEF HeapOf
  <1>2. Cardinality(h.q) \in Nat /\ h.q # {}
    BY <1>1, FS_CardinalityType, FS_EmptySet
  <1>3. \A p \in h.q : Keyed(p)
    BY <1>1, StandsKeyed
  <1>4. top(h.q) \in h.q /\ \A r \in h.q : ~SPathCmp(top(h.q), r)
    BY <1>1, <1>2, <1>3, TopLast
  <1>5. ASSUME NEW r \in h.q, r # top(h.q) PROVE SPathCmp(r, top(h.q))
    <2>1. r.hash # top(h.q).hash
      BY <1>4, <1>5 DEF HeapOf
    <2> QED
      BY <1>3, <1>4, <2>1, CmpTotal
  <1> QED
    BY <1>1, <1>2, <1>4, <1>5

\* Push: either the path comes back and nothing changes, or it takes the place
\* of what comes back.
LEMMA PushEither ==
    ASSUME NEW P, NEW R, NEW plain, Stands(P, R, plain),
           NEW topK \in Nat \ {0}, NEW h, HeapOf(P, h, topK), NEW p
    PROVE  \/ ~Pushes(h, topK, p) /\ Push(h, topK, p) = h /\ PushReturns(h, topK, p) = {p}
           \/ /\ Pushes(h, topK, p)
              /\ PushReturns(h, topK, p) = Victim(h, topK) /\ Victim(h, topK) \subseteq h.q
              /\ Push(h, topK, p).q = (h.q \ Victim(h, topK)) \union {p}
              /\ Push(h, topK, p).hashes = h.hashes \union {p.hash}
  <1>1. Victim(h, topK) \subseteq h.q
    BY LastOfFull DEF Victim
  <1> QED
    BY <1>1 DEF Push, PushReturns

\* Push keeps a heap within its limit and its hashes different.
LEMMA PushHeapOf ==
    ASSUME NEW P, NEW R, NEW plain, Stands(P, R, plain),
           NEW topK \in Nat \ {0}, NEW h, HeapOf(P, h, topK), NEW p \in P
    PROVE  HeapOf(P, Push(h, topK, p), topK)
  <1>1. CASE ~Pushes(h, topK, p)
    BY <1>1 DEF Push
  <1>2. CASE Pushes(h, topK, p)
    <2> DEFINE V == Victim(h, topK)
               g == Push(h, topK, p)
    <2>1. g = [q |-> (h.q \ V) \union {p}, hashes |-> h.hashes \union {p.hash}]
      BY <1>2 DEF Push
    <2>2. g.q = (h.q \ V) \union {p} /\ g.hashes = h.hashes \union {p.hash}
      BY <2>1
    <2>3. p.hash \notin h.hashes /\ p.hash \in Nat
      BY <1>2 DEF Pushes, Stands
    <2>4. h.q \subseteq P /\ h.hashes \subseteq Nat /\ IsFiniteSet(h.q) /\ Cardinality(h.q) <= topK
      BY DEF HeapOf
    <2>5. g \in [q : SUBSET P, hashes : SUBSET Nat]
      <3>1. (h.q \ V) \union {p} \in SUBSET P /\ h.hashes \union {p.hash} \in SUBSET Nat
        BY <2>3, <2>4
      <3> QED
        BY <2>1, <3>1
    <2>6. IsFiniteSet(g.q) /\ Cardinality(g.q) <= topK
      <3>1. IsFiniteSet(h.q \ V) /\ Cardinality(h.q \ V) < topK /\ Cardinality(h.q \ V) \in Nat
        <4>1. CASE Cardinality(h.q) >= topK
          <5>1. V = {top(h.q)} /\ top(h.q) \in h.q /\ Cardinality(h.q) = topK
            BY <4>1, LastOfFull DEF Victim
          <5>2. /\ IsFiniteSet(h.q \ {top(h.q)})
                /\ Cardinality(h.q \ {top(h.q)}) = Cardinality(h.q) - 1
            BY <2>4, <5>1, FS_RemoveElement
          <5>3. topK - 1 < topK /\ topK - 1 \in Nat
            OBVIOUS
          <5> QED
            BY <5>1, <5>2, <5>3
        <4>2. CASE ~(Cardinality(h.q) >= topK)
          <5>1. V = {}
            BY <4>2 DEF Victim
          <5>2. h.q \ V = h.q /\ Cardinality(h.q) \in Nat
            BY <2>4, <5>1, FS_CardinalityType
          <5> QED
            BY <2>4, <4>2, <5>2
        <4> QED
          BY <4>1, <4>2
      <3>2. p \notin h.q \ V
        BY <2>3 DEF HeapOf
      <3> HIDE DEF V
      <3>3. /\ IsFiniteSet((h.q \ V) \union {p})
            /\ Cardinality((h.q \ V) \union {p}) = Cardinality(h.q \ V) + 1
        BY <3>1, <3>2, FS_AddElement
      <3>4. Cardinality(h.q \ V) + 1 <= topK
        BY <3>1
      <3> QED
        BY <2>2, <3>3, <3>4
    <2>7. \A r \in g.q : r.hash \in g.hashes
      BY <2>2 DEF HeapOf
    <2>8. \A r, s \in g.q : r.hash = s.hash => r = s
      BY <2>2, <2>3 DEF HeapOf
    <2> QED
      BY <2>5, <2>6, <2>7, <2>8 DEF HeapOf
  <1> QED
    BY <1>1, <1>2

-----------------------------------------------------------------------------
(* What a heap keeps. *)

\* Path s is in the heap, or the heap is full of paths that go before it.
Kept(plain, q, topK, s) ==
    \/ \E p \in q : plain[p] = s
    \/ Cardinality(q) >= topK /\ \A p \in q : SPathCmp(p, s)

\* A heap of paths of S that has lost none it should have: a path whose hash
\* is noted is in it or behind it.
Stored(P, plain, h, topK, S) ==
    /\ HeapOf(P, h, topK)
    /\ \A p \in h.q : plain[p] \in S
    /\ \A x \in h.hashes : \E s \in S : s.hash = x /\ Kept(plain, h.q, topK, s)

\* The hashes of the paths of S are different.
Distinct(S) == \A r, s \in S : r.hash = s.hash => r = s

\* What was in a heap or behind it still is after a push.
LEMMA PushStillKept ==
    ASSUME NEW P, NEW R, NEW plain, Stands(P, R, plain),
           NEW topK \in Nat \ {0}, NEW h, HeapOf(P, h, topK), NEW p \in P,
           NEW s \in R, Kept(plain, h.q, topK, s)
    PROVE  Kept(plain, Push(h, topK, p).q, topK, s)
  <1> DEFINE g == Push(h, topK, p)
  <1>1. CASE ~Pushes(h, topK, p)
    BY <1>1, PushEither
  <1>2. CASE Pushes(h, topK, p) /\ ~(Cardinality(h.q) >= topK)
    <2>1. g.q = h.q \union {p}
      BY <1>2, PushEither DEF Victim
    <2> QED
      BY <1>2, <2>1 DEF Kept
  <1>3. CASE Pushes(h, topK, p) /\ Cardinality(h.q) >= topK
    <2> DEFINE t == top(h.q)
    <2>1. /\ t \in h.q /\ Cardinality(h.q) = topK
          /\ \A r \in h.q : r = t \/ SPathCmp(r, t)
      BY <1>3, LastOfFull
    <2>2. SPathCmp(p, t) /\ p.hash \notin h.hashes
      BY <1>3 DEF Pushes
    <2>3. g.q = (h.q \ {t}) \union {p}
      BY <1>3, PushEither DEF Victim
    <2>4. h.q \subseteq P /\ IsFiniteSet(h.q) /\ p \notin h.q
      BY <2>2 DEF HeapOf
    <2>5. Cardinality(g.q) = topK
      <3>1. IsFiniteSet(h.q \ {t}) /\ Cardinality(h.q \ {t}) = topK - 1
        BY <2>1, <2>4, FS_RemoveElement
      <3>2. Cardinality((h.q \ {t}) \union {p}) = Cardinality(h.q \ {t}) + 1
        BY <2>4, <3>1, FS_AddElement
      <3>3. topK - 1 + 1 = topK
        OBVIOUS
      <3> QED
        BY <2>3, <3>1, <3>2, <3>3
    <2>6. Keyed(s) /\ Keyed(t) /\ Keyed(p) /\ \A r \in h.q : Keyed(r)
      BY <2>1, <2>4, StandsKeyed
    <2>7. CASE \E r \in h.q : plain[r] = s /\ r # t
      BY <2>3, <2>7 DEF Kept
    <2>8. CASE plain[t] = s
      <3>1. \A r \in g.q : SPathCmp(r, t)
        BY <2>1, <2>2, <2>3
      <3>2. \A r \in g.q : SPathCmp(r, s)
        <4>1. t \in P
          BY <2>1, <2>4
        <4> HIDE DEF t
        <4>2. \A r : SPathCmp(r, plain[t]) <=> SPathCmp(r, t)
          BY <4>1, StandsCmp
        <4> QED
          BY <2>8, <3>1, <4>2
      <3> QED
        BY <2>5, <3>2 DEF Kept
    <2>9. CASE \A r \in h.q : SPathCmp(r, s)
      <3>1. SPathCmp(p, s)
        BY <2>1, <2>2, <2>6, <2>9, CmpTransitive
      <3>2. \A r \in g.q : SPathCmp(r, s)
        BY <2>3, <2>9, <3>1
      <3> QED
        BY <2>5, <3>2 DEF Kept
    <2> QED
      BY <2>1, <2>7, <2>8, <2>9 DEF Kept
  <1> QED
    BY <1>1, <1>2, <1>3

\* Push itself loses nothing: the path is in the heap afterwards, or behind it.
LEMMA PushIsKept ==
    ASSUME NEW P, NEW R, NEW plain, Stands(P, R, plain),
           NEW topK \in Nat \ {0}, NEW S \in SUBSET R, Distinct(S),
           NEW h, Stored(P, plain, h, topK, S), NEW p \in P, plain[p] \in S
    PROVE  Kept(plain, Push(h, topK, p).q, topK, plain[p]) /\ Stored(P, plain, Push(h, topK, p), topK, S)
  <1> DEFINE g == Push(h, topK, p)
  <1>0. HeapOf(P, h, topK) /\ HeapOf(P, g, topK)
    BY PushHeapOf DEF Stored
  <1>1. CASE Pushes(h, topK, p)
    <2>1. p \in g.q /\ g.q \subseteq h.q \union {p} /\ g.hashes = h.hashes \union {p.hash}
      BY <1>0, <1>1, PushEither
    <2>2. Kept(plain, g.q, topK, plain[p])
      BY <2>1 DEF Kept
    <2>3. \A r \in g.q : plain[r] \in S
      BY <2>1 DEF Stored
    <2>4. ASSUME NEW x \in g.hashes PROVE \E s \in S : s.hash = x /\ Kept(plain, g.q, topK, s)
      <3>1. CASE x = p.hash
        BY <2>2, <3>1, StandsKeyed
      <3>2. CASE x \in h.hashes
        <4>1. PICK s \in S : s.hash = x /\ Kept(plain, h.q, topK, s)
          BY <3>2 DEF Stored
        <4> QED
          BY <1>0, <4>1, PushStillKept
      <3> QED
        BY <2>1, <3>1, <3>2
    <2> QED
      BY <1>0, <2>2, <2>3, <2>4 DEF Stored
  <1>2. CASE ~Pushes(h, topK, p)
    <2>1. g = h
      BY <1>0, <1>2, PushEither
    <2>2. CASE p.hash \in h.hashes
      <3>1. PICK s \in S : s.hash = p.hash /\ Kept(plain, h.q, topK, s)
        BY <2>2 DEF Stored
      <3>2. s = plain[p]
        BY <3>1, StandsKeyed DEF Distinct
      <3> QED
        BY <2>1, <3>1, <3>2
    <2>3. CASE p.hash \notin h.hashes
      <3> DEFINE t == top(h.q)
      <3>1. Cardinality(h.q) >= topK /\ ~SPathCmp(p, t)
        BY <1>2, <2>3 DEF Pushes
      <3>2. t \in h.q /\ \A r \in h.q : r = t \/ SPathCmp(r, t)
        BY <1>0, <3>1, LastOfFull
      <3>3. p.hash # t.hash
        BY <2>3, <3>2 DEF Stored, HeapOf
      <3>4. Keyed(p) /\ \A r \in h.q : Keyed(r)
        BY <1>0, StandsKeyed DEF HeapOf
      <3>5. SPathCmp(t, p)
        BY <3>1, <3>2, <3>3, <3>4, CmpTotal
      <3>6. \A r \in h.q : SPathCmp(r, p)
        BY <3>2, <3>4, <3>5, CmpTransitive
      <3>7. \A r \in h.q : SPathCmp(r, plain[p])
        BY <3>6, StandsCmp
      <3> QED
        BY <2>1, <3>1, <3>7 DEF Kept
    <2> QED
      BY <2>1, <2>2, <2>3
  <1> QED
    BY <1>1, <1>2

\* A path whose score is no better than one that CanPush turns away is behind
\* the heap.
LEMMA TurnedAwayKept ==
    ASSUME NEW P, NEW R, NEW plain, Stands(P, R, plain),
           NEW topK \in Nat \ {0}, NEW h, HeapOf(P, h, topK), NEW p \in P,
           NEW score \in Int, p.score <= score, ~CanPush(h, topK, score, 0, 0)
    PROVE  Kept(plain, h.q, topK, plain[p])
  <1> DEFINE t == top(h.q)
  <1>1. Cardinality(h.q) >= topK
    BY DEF CanPush
  <1>2. t \in h.q /\ \A r \in h.q : r = t \/ SPathCmp(r, t)
    BY <1>1, LastOfFull
  <1>3. t \in P /\ \A r \in h.q : Keyed(r)
    BY <1>2, StandsKeyed DEF HeapOf
  <1>4. SPathCmp(t, p)
    <2>1. /\ ~(0 < t.miss) /\ ~(0 = t.miss /\ 0 < t.clash)
          /\ ~(0 = t.miss /\ 0 = t.clash /\ score >= t.score)
      BY DEF CanPush
    <2>2. /\ t.miss \in Nat /\ t.clash \in Nat /\ t.score \in Int
          /\ p.miss \in Nat /\ p.clash \in Nat /\ p.score \in Int
      BY <1>3 DEF Stands
    <2> HIDE DEF t
    <2> QED
      BY <2>1, <2>2 DEF SPathCmp
  <1>5. \A r \in h.q : SPathCmp(r, p)
    BY <1>2, <1>3, <1>4, StandsKeyed, CmpTransitive
  <1>6. \A r \in h.q : SPathCmp(r, plain[p])
    BY <1>5, StandsCmp
  <1> QED
    BY <1>1, <1>6 DEF Kept

\* A heap of paths of S that has every path of S in it or behind it is what a
\* heap is for: the best of S.
LEMMA KeptIsBest ==
    ASSUME NEW P, NEW R, NEW plain, Stands(P, R, plain),
           NEW topK \in Nat \ {0}, NEW S \in SUBSET R, IsFiniteSet(S),
           NEW h, Stored(P, plain, h, topK, S), \A s \in S : Kept(plain, h.q, topK, s)
    PROVE  {plain[p] : p \in h.q} = Best(S, topK)
  <1> DEFINE Q == {plain[p] : p \in h.q}
             Before(s) == {r \in S : SPathCmp(r, s)}
  <1>1. /\ HeapOf(P, h, topK) /\ IsFiniteSet(h.q) /\ Cardinality(h.q) <= topK
        /\ \A p \in h.q : p \in P /\ Keyed(p) /\ plain[p] \in S
        /\ \A s \in S : Keyed(s)
    BY StandsKeyed DEF Stored, HeapOf
  <1>2. IsFiniteSet(Q) /\ Cardinality(Q) = Cardinality(h.q) /\ Cardinality(h.q) \in Nat
    <2> DEFINE f == [p \in h.q |-> plain[p]]
    <2>1. \A p, r \in h.q : plain[p] = plain[r] => p = r
      BY <1>1, StandsKeyed DEF HeapOf
    <2>2. f \in Bijection(h.q, Q)
      <3>1. f \in [h.q -> Q]
        OBVIOUS
      <3>2. \A p, r \in h.q : f[p] = f[r] => p = r
        BY <2>1
      <3>3. \A y \in Q : \E p \in h.q : f[p] = y
        OBVIOUS
      <3> QED
        BY <3>1, <3>2, <3>3 DEF Bijection, Injection, IsInjective, Surjection
    <2>3. ExistsBijection(h.q, Q)
      BY <2>2 DEF ExistsBijection
    <2> QED
      BY <1>1, <2>3, FS_Bijection, FS_CardinalityType
  <1>3. \A s \in S : IsFiniteSet(Before(s)) /\ Cardinality(Before(s)) \in Nat
    <2>1. \A s \in S : Before(s) \in SUBSET S
      OBVIOUS
    <2> HIDE DEF Before
    <2> QED
      BY <2>1, FS_Subset, FS_CardinalityType
  <1>4. ASSUME NEW p \in h.q PROVE plain[p] \in Best(S, topK)
    <2> DEFINE s == plain[p]
    <2>1. s \in S /\ s \in Q
      BY <1>1
    <2>2. ASSUME NEW r \in S, SPathCmp(r, s) PROVE r \in Q \ {s}
      <3>1. r # s
        BY <1>1, <2>1, <2>2, CmpAsymmetric
      <3>2. ~SPathCmp(p, r)
        BY <1>1, <2>1, <2>2, CmpAsymmetric, StandsCmp
      <3>3. \E x \in h.q : plain[x] = r
        BY <3>2 DEF Kept
      <3> QED
        BY <3>1, <3>3
    <2>3. Before(s) \in SUBSET (Q \ {s})
      BY <2>2
    <2>4. IsFiniteSet(Q \ {s}) /\ Cardinality(Q \ {s}) = Cardinality(Q) - 1
      BY <1>2, <2>1, FS_RemoveElement
    <2> HIDE DEF Q, Before, s
    <2>5. Cardinality(Before(s)) <= Cardinality(Q \ {s})
      BY <2>3, <2>4, FS_Subset
    <2>6. Cardinality(Before(s)) < topK
      BY <1>1, <1>2, <1>3, <2>1, <2>4, <2>5
    <2> QED
      BY <2>1, <2>6 DEF Best, Before, s
  <1>5. ASSUME NEW s \in Best(S, topK) PROVE s \in Q
    <2>1. s \in S /\ Cardinality(Before(s)) < topK
      BY DEF Best
    <2>2. CASE Cardinality(h.q) >= topK /\ \A p \in h.q : SPathCmp(p, s)
      <3>1. \A p \in h.q : SPathCmp(plain[p], s)
        BY <1>1, <2>2, StandsCmp
      <3>2. Q \in SUBSET Before(s)
        BY <1>1, <3>1
      <3> HIDE DEF Q, Before
      <3>3. Cardinality(Q) <= Cardinality(Before(s))
        BY <1>3, <2>1, <3>2, FS_Subset
      <3> QED
        BY <1>1, <1>2, <1>3, <2>1, <2>2, <3>3
    <2>3. CASE \E p \in h.q : plain[p] = s
      BY <2>3
    <2> QED
      BY <2>1, <2>2, <2>3 DEF Kept
  <1> QED
    BY <1>4, <1>5

-----------------------------------------------------------------------------
(* The totals along an order. *)

Sum == [dist : Nat, non : Nat, walk : Nat]

\* There is traffic for every leg of s.
Linked(d, s) == \A k \in 2..Len(s) : Item(d, s[k - 1], s[k]) # NULL

\* The totals with a leg more.
Plus(sum, item) ==
    [dist |-> sum.dist + item.dist,
     non |-> sum.non + (IF item.walk THEN 0 ELSE 1),
     walk |-> sum.walk + (IF item.walk THEN item.dist ELSE 0)]
NoSum == [dist |-> 0, non |-> 0, walk |-> 0]

\* The totals of the prefixes of s.
Along(d, s) ==
    CHOOSE f : f = [k \in 1..Len(s) |->
        IF k = 1 THEN NoSum ELSE Plus(f[k - 1], Item(d, s[k - 1], s[k]))]

LEMMA SumsAlong == \A d, s : Sums(d, s) = Along(d, s)[Len(s)]
  BY DEF Sums, Along, Plus, NoSum

LEMMA PlusType ==
    ASSUME NEW sum \in Sum, NEW item \in Traffic
    PROVE  /\ Plus(sum, item) \in Sum
           /\ sum.dist <= Plus(sum, item).dist /\ sum.non <= Plus(sum, item).non
           /\ sum.walk <= Plus(sum, item).walk
  BY DEF Plus, Sum, Traffic

LEMMA LegType ==
    ASSUME NEW d \in Day, NEW a \in Node, NEW b \in Node, Item(d, a, b) # NULL
    PROVE  Item(d, a, b) \in Traffic
  <1>1. d.traf \in [Node \X Node -> Traffic \union {NULL}]
    BY DayAssumption
  <1>2. <<a, b>> \in Node \X Node
    OBVIOUS
  <1> QED
    BY <1>1, <1>2 DEF Item

LEMMA LinkedLegs ==
    ASSUME NEW d \in Day, NEW s \in Seq(Node), Linked(d, s), NEW k \in 2..Len(s)
    PROVE  Item(d, s[k - 1], s[k]) \in Traffic
  <1>0. Len(s) \in Nat /\ s \in [1..Len(s) -> Node]
    BY LenProperties
  <1>1. k \in 1..Len(s) /\ k - 1 \in 1..Len(s)
    BY <1>0
  <1>2. s[k] \in Node /\ s[k - 1] \in Node
    BY <1>0, <1>1
  <1>3. Item(d, s[k - 1], s[k]) # NULL
    BY DEF Linked
  <1> QED
    BY <1>2, <1>3, LegType

LEMMA AlongIs ==
    ASSUME NEW d \in Day, NEW s \in Seq(Node), s # <<>>, Linked(d, s)
    PROVE  /\ Along(d, s) \in [1..Len(s) -> Sum]
           /\ Along(d, s)[1] = NoSum
           /\ \A k \in 2..Len(s) : Along(d, s)[k] = Plus(Along(d, s)[k - 1], Item(d, s[k - 1], s[k]))
  <1> DEFINE n == Len(s)
             item(k) == Item(d, s[k - 1], s[k])
             step == [k \in 1..n |-> [v \in Sum |-> IF k = 1 THEN v ELSE Plus(v, item(k))]]
             A == Along(d, s)
  <1>1. n \in Nat /\ 1 <= n
    OBVIOUS
  <1>2. \A k \in 2..n : item(k) \in Traffic
    BY LinkedLegs
  <1>3. NoSum \in Sum
    BY DEF NoSum, Sum
  <1> HIDE DEF item, n
  <1>4. step \in [1..n -> [Sum -> Sum]]
    <2> SUFFICES ASSUME NEW k \in 1..n, NEW v \in Sum
                 PROVE  (IF k = 1 THEN v ELSE Plus(v, item(k))) \in Sum
      OBVIOUS
    <2>1. k = 1 \/ k \in 2..n
      BY <1>1
    <2> QED
      BY <1>2, <2>1, PlusType
  <1>5. PICK f \in [1..n -> Sum] :
            f[1] = NoSum /\ \A k \in 1..n : k # 1 => f[k] = step[k][f[k - 1]]
    <2> HIDE DEF step
    <2>1. Recursive(1, n, Sum, NoSum, step)
      BY <1>1, <1>3, <1>4 DEF Recursive
    <2> QED
      BY <2>1, Recursion
  <1>6. \A k \in 2..n : f[k] = Plus(f[k - 1], item(k))
    <2> SUFFICES ASSUME NEW k \in 2..n PROVE f[k] = Plus(f[k - 1], item(k))
      OBVIOUS
    <2>1. k \in 1..n /\ k - 1 \in 1..n /\ k # 1
      BY <1>1
    <2>2. step[k] = [v \in Sum |-> Plus(v, item(k))]
      BY <2>1
    <2> QED
      BY <1>5, <2>1, <2>2
  <1>7. f = [k \in 1..n |-> IF k = 1 THEN NoSum ELSE Plus(f[k - 1], item(k))]
    <2>1. \A k \in 1..n : k = 1 \/ k \in 2..n
      BY <1>1
    <2> QED
      BY <1>5, <1>6, <2>1
  <1>8. A = [k \in 1..n |-> IF k = 1 THEN NoSum ELSE Plus(A[k - 1], item(k))]
    BY <1>7 DEF Along, item, n
  <1> HIDE DEF A
  <1>9. A[1] = NoSum /\ \A k \in 2..n : A[k] = Plus(A[k - 1], item(k))
    <2>1. 1 \in 1..n /\ \A k \in 2..n : k \in 1..n /\ k # 1
      BY <1>1
    <2> QED
      BY <1>8, <2>1
  <1>10. \A k \in 1..n : A[k] \in Sum
    <2> DEFINE I == {k \in 1..n : A[k] \in Sum}
    <2>1. 1 \in I
      BY <1>1, <1>3, <1>9
    <2>2. ASSUME NEW k \in 1..n, k # 1, k - 1 \in I PROVE k \in I
      <3>0. k \in 2..n
        BY <1>1, <2>2
      <3>1. Plus(A[k - 1], item(k)) \in Sum
        BY <1>2, <2>2, <3>0, PlusType
      <3> QED
        BY <1>9, <3>0, <3>1
    <2> HIDE DEF I
    <2>3. \A k \in 1..n : k \in I
      BY <1>1, <2>1, <2>2, Upwards
    <2> QED
      BY <2>3 DEF I
  <1> QED
    BY <1>8, <1>9, <1>10 DEF A, item, n


\* s and t begin with the same n nodes.
Agree(s, t, n) == \A k \in 1..n : s[k] = t[k]

LEMMA LinkedPrefix ==
    ASSUME NEW d \in Day, NEW s \in Seq(Node), NEW t \in Seq(Node), Linked(d, s),
           Len(t) <= Len(s), Agree(s, t, Len(t))
    PROVE  Linked(d, t)
  <1> SUFFICES ASSUME NEW k \in 2..Len(t) PROVE Item(d, t[k - 1], t[k]) # NULL
    BY DEF Linked
  <1>1. Len(s) \in Nat /\ Len(t) \in Nat
    BY LenProperties
  <1>2. k \in 2..Len(s) /\ k \in 1..Len(t) /\ k - 1 \in 1..Len(t)
    BY <1>1
  <1>3. t[k] = s[k] /\ t[k - 1] = s[k - 1]
    BY <1>2 DEF Agree
  <1>4. Item(d, s[k - 1], s[k]) # NULL
    BY <1>2 DEF Linked
  <1> QED
    BY <1>3, <1>4

\* The totals of a prefix.
LEMMA SumsPrefix ==
    ASSUME NEW d \in Day, NEW s \in Seq(Node), NEW t \in Seq(Node), Linked(d, s),
           t # <<>>, Len(t) <= Len(s), Agree(s, t, Len(t))
    PROVE  Sums(d, t) = Along(d, s)[Len(t)]
  <1> DEFINE A == Along(d, s)
             B == Along(d, t)
             m == Len(t)
             I == {k \in 1..m : A[k] = B[k]}
  <1>1. /\ m \in Nat /\ 1 <= m /\ Len(s) \in Nat /\ s # <<>>
        /\ \A k \in 1..m : s[k] = t[k]
    BY LenProperties DEF Agree
  <1>2. Linked(d, t)
    BY LinkedPrefix
  <1>3. A[1] = NoSum /\ \A k \in 2..Len(s) : A[k] = Plus(A[k - 1], Item(d, s[k - 1], s[k]))
    BY <1>1, AlongIs
  <1>4. B[1] = NoSum /\ \A k \in 2..m : B[k] = Plus(B[k - 1], Item(d, t[k - 1], t[k]))
    BY <1>2, AlongIs
  <1> HIDE DEF A, B, m
  <1>5. 1 \in I
    <2>1. 1 \in 1..m
      BY <1>1
    <2> QED
      BY <1>3, <1>4, <2>1
  <1>6. ASSUME NEW k \in 1..m, k # 1, k - 1 \in I PROVE k \in I
    <2>1. k \in 2..m /\ k \in 2..Len(s) /\ k - 1 \in 1..m
      BY <1>1, <1>6 DEF m
    <2>2. A[k - 1] = B[k - 1] /\ s[k - 1] = t[k - 1] /\ s[k] = t[k]
      BY <1>1, <1>6, <2>1
    <2> QED
      BY <1>3, <1>4, <2>1, <2>2
  <1> HIDE DEF I
  <1>7. \A k \in 1..m : k \in I
    BY <1>1, <1>5, <1>6, Upwards
  <1>8. m \in 1..m
    BY <1>1
  <1>9. A[m] = B[m]
    BY <1>7, <1>8 DEF I
  <1> QED
    BY <1>9, SumsAlong DEF A, B, m

\* The totals of a prefix are not above those of the whole.
LEMMA SumsGrow ==
    ASSUME NEW d \in Day, NEW s \in Seq(Node), NEW t \in Seq(Node), Linked(d, s),
           t # <<>>, Len(t) <= Len(s), Agree(s, t, Len(t))
    PROVE  /\ Sums(d, t) \in Sum /\ Sums(d, s) \in Sum
           /\ Sums(d, t).dist <= Sums(d, s).dist
           /\ Sums(d, t).non <= Sums(d, s).non
           /\ Sums(d, t).walk <= Sums(d, s).walk
  <1> DEFINE A == Along(d, s)
             n == Len(s)
             m == Len(t)
             I == {k \in m..n : /\ A[m].dist <= A[k].dist /\ A[m].non <= A[k].non
                                /\ A[m].walk <= A[k].walk}
  <1>1. m \in Nat /\ 1 <= m /\ n \in Nat /\ s # <<>> /\ m <= n
    BY LenProperties
  <1>2. /\ A \in [1..n -> Sum]
        /\ \A k \in 2..n : A[k] = Plus(A[k - 1], Item(d, s[k - 1], s[k]))
    BY <1>1, AlongIs
  <1>3. Sums(d, t) = A[m] /\ Sums(d, s) = A[n]
    BY SumsPrefix, SumsAlong
  <1>4. \A k \in 2..n : Item(d, s[k - 1], s[k]) \in Traffic
    BY LinkedLegs
  <1> HIDE DEF A, m, n
  <1>5. \A k \in m..n : A[k] \in Sum /\ A[k].dist \in Nat /\ A[k].non \in Nat /\ A[k].walk \in Nat
    <2>1. \A k \in m..n : k \in 1..n
      BY <1>1
    <2> QED
      BY <1>2, <2>1 DEF Sum
  <1>6. m \in I /\ m \in m..n /\ n \in m..n
    BY <1>1, <1>5
  <1>7. ASSUME NEW k \in m..n, k # m, k - 1 \in I PROVE k \in I
    <2>1. k \in 2..n /\ k - 1 \in m..n
      BY <1>1, <1>7
    <2>2. /\ A[k - 1].dist <= A[k].dist /\ A[k - 1].non <= A[k].non
          /\ A[k - 1].walk <= A[k].walk
      BY <1>2, <1>4, <1>5, <2>1, PlusType
    <2>3. /\ A[m].dist <= A[k - 1].dist /\ A[m].non <= A[k - 1].non
          /\ A[m].walk <= A[k - 1].walk
      BY <1>7
    <2>4. /\ A[m].dist <= A[k].dist /\ A[m].non <= A[k].non
          /\ A[m].walk <= A[k].walk
      <3>1. \A x \in {m, k - 1, k} : A[x].dist \in Nat /\ A[x].non \in Nat /\ A[x].walk \in Nat
        BY <1>5, <1>6, <2>1
      <3>2. \A x, y, z \in Nat : x <= y /\ y <= z => x <= z
        OBVIOUS
      <3> QED
        BY <2>2, <2>3, <3>1, <3>2, Zenon
    <2> QED
      BY <2>4
  <1> HIDE DEF I
  <1>8. \A k \in m..n : k \in I
    BY <1>1, <1>6, <1>7, Upwards
  <1>9. n \in I
    BY <1>6, <1>8
  <1> QED
    BY <1>3, <1>5, <1>6, <1>9 DEF I

\* The totals with a node more.
LEMMA SumsAppend ==
    ASSUME NEW d \in Day, NEW s \in Seq(Node), s # <<>>, NEW i \in Node, Linked(d, s),
           Item(d, s[Len(s)], i) # NULL
    PROVE  /\ Linked(d, Append(s, i))
           /\ Sums(d, s) \in Sum
           /\ Item(d, s[Len(s)], i) \in Traffic
           /\ Sums(d, Append(s, i)) = Plus(Sums(d, s), Item(d, s[Len(s)], i))
  <1> DEFINE t == Append(s, i)
             n == Len(s)
  <1>0. n \in Nat /\ 1 <= n
    BY LenProperties
  <1>1. /\ t \in Seq(Node) /\ t # <<>> /\ Len(t) = n + 1
        /\ t[n + 1] = i /\ \A k \in 1..n : t[k] = s[k]
    BY AppendProperties
  <1> HIDE DEF t, n
  <1>2. Agree(t, s, n) /\ n <= Len(t)
    BY <1>0, <1>1 DEF Agree
  <1>3. Linked(d, t)
    <2> SUFFICES ASSUME NEW k \in 2..(n + 1) PROVE Item(d, t[k - 1], t[k]) # NULL
      BY <1>1 DEF Linked
    <2>1. CASE k = n + 1
      <3>1. k - 1 = n /\ n \in 1..n
        BY <1>0, <2>1
      <3>2. t[k - 1] = s[n] /\ t[k] = i
        BY <1>1, <2>1, <3>1
      <3> QED
        BY <3>2 DEF n
    <2>2. CASE k # n + 1
      <3>1. k \in 2..n /\ k \in 1..n /\ k - 1 \in 1..n
        BY <1>0, <2>2
      <3>2. t[k - 1] = s[k - 1] /\ t[k] = s[k]
        BY <1>1, <3>1
      <3>3. Item(d, s[k - 1], s[k]) # NULL
        BY <3>1 DEF Linked, n
      <3> QED
        BY <3>2, <3>3
    <2> QED
      BY <2>1, <2>2
  <1>4. Sums(d, s) = Along(d, t)[n]
    BY <1>1, <1>2, <1>3, SumsPrefix DEF n
  <1>5. Sums(d, t) = Along(d, t)[n + 1]
    BY <1>1, SumsAlong
  <1>6. /\ Along(d, t) \in [1..(n + 1) -> Sum]
        /\ \A k \in 2..(n + 1) : Along(d, t)[k] = Plus(Along(d, t)[k - 1], Item(d, t[k - 1], t[k]))
    BY <1>1, <1>3, AlongIs
  <1>7. n \in 1..n /\ n \in 1..(n + 1) /\ n + 1 \in 2..(n + 1) /\ n + 1 - 1 = n
    BY <1>0
  <1>8. Along(d, t)[n + 1] = Plus(Along(d, t)[n], Item(d, t[n], t[n + 1]))
    BY <1>6, <1>7
  <1>9. t[n] = s[n] /\ t[n + 1] = i /\ s[n] \in Node
    BY <1>1, <1>7, ElementOfSeq DEF n
  <1>10. Item(d, s[n], i) \in Traffic
    BY <1>9, LegType DEF n
  <1> QED
    BY <1>3, <1>4, <1>5, <1>6, <1>7, <1>8, <1>9, <1>10 DEF t, n


-----------------------------------------------------------------------------
(* DFS::GetScore and DFS::CalClash *)

LEMMA Product ==
    ASSUME NEW a \in Nat, NEW b \in Nat, NEW c \in Nat, a <= b
    PROVE  a * c \in Nat /\ b * c \in Nat /\ a * c <= b * c
  <1>1. PICK x \in Nat : b = a + x
    <2>1. b - a \in Nat /\ b = a + (b - a)
      OBVIOUS
    <2> QED
      BY <2>1
  <1>2. (a + x) * c = a * c + x * c /\ a * c \in Nat /\ x * c \in Nat
    BY SMT
  <1> QED
    BY <1>1, <1>2

\* The longer a path, the lower its score, and a late lunch or supper takes off
\* more.
LEMMA ScoreFalls ==
    ASSUME NEW s \in Sum, NEW t \in Sum, NEW f \in {0, 1},
           s.dist <= t.dist, s.non <= t.non, s.walk <= t.walk
    PROVE  /\ GetScore(s.dist, s.non, s.walk, 0) \in Int
           /\ GetScore(t.dist, t.non, t.walk, f) \in Int
           /\ GetScore(t.dist, t.non, t.walk, f) <= GetScore(s.dist, s.non, s.walk, 0)
  <1> DEFINE w == Penalty.nonWalk
             m == Penalty.maxWalk
             l == Penalty.firstL
             a == Over(s.non, 1)
             b == Over(t.non, 1)
             g == Over(s.walk, m)
             h == Over(t.walk, m)
  <1>1. w \in Nat /\ m \in Nat /\ l \in Nat
    BY DayAssumption
  <1>2. /\ s.dist \in Nat /\ s.non \in Nat /\ s.walk \in Nat
        /\ t.dist \in Nat /\ t.non \in Nat /\ t.walk \in Nat
    BY DEF Sum
  <1>3. a \in Nat /\ b \in Nat /\ a <= b
    <2> HIDE DEF w, m, l
    <2> QED
      BY <1>2 DEF Over
  <1>4. g \in Nat /\ h \in Nat /\ g <= h
    <2> HIDE DEF m
    <2> QED
      BY <1>1, <1>2 DEF Over
  <1> HIDE DEF w, m, l, a, b, g, h
  <1>5. a * w \in Nat /\ b * w \in Nat /\ a * w <= b * w
    BY <1>1, <1>3, Product
  <1>6. f * l \in Nat /\ 0 * l = 0
    BY <1>1
  <1> DEFINE x == a * w
             y == b * w
             z == f * l
  <1> HIDE DEF x, y, z
  <1>7. /\ GetScore(s.dist, s.non, s.walk, 0) = -(s.dist + x + g + 0)
        /\ GetScore(t.dist, t.non, t.walk, f) = -(t.dist + y + h + z)
    BY <1>6 DEF GetScore, w, m, l, a, b, g, h, x, y, z
  <1>8. x \in Nat /\ y \in Nat /\ z \in Nat /\ x <= y
    BY <1>5, <1>6 DEF x, y, z
  <1> QED
    BY <1>2, <1>4, <1>7, <1>8


\* A bounded set of numbers that is not empty has a greatest one.
LEMMA GreatestNumber ==
    ASSUME NEW n \in Nat, NEW S \in SUBSET (0..n), S # {}
    PROVE  \E x \in S : \A y \in S : y <= x
  <1> DEFINE T == {n - y : y \in S}
  <1>1. T \in SUBSET Nat /\ T # {}
    <2>1. \A y \in 0..n : n - y \in Nat
      OBVIOUS
    <2> QED
      BY <2>1
  <1> HIDE DEF T
  <1>2. PICK z \in T : \A y \in T : z <= y
    BY <1>1, LeastNumber
  <1>3. PICK x \in S : z = n - x
    BY DEF T
  <1>4. \A y \in S : n - x <= n - y
    BY <1>2, <1>3 DEF T
  <1>5. \A y \in S : y <= x
    BY <1>4
  <1> QED
    BY <1>5

LEMMA MealsOne ==
    ASSUME NEW S \in SUBSET Meals, Cardinality(S) = 1
    PROVE  Meals \ S # {}
  <1>1. Cardinality({"lunch"}) = 1 /\ IsFiniteSet({"lunch"})
    BY FS_Singleton
  <1>2. Cardinality({"lunch"} \union {"supper"}) = Cardinality({"lunch"}) + 1
    BY <1>1, FS_AddElement
  <1>3. {"lunch"} \union {"supper"} = Meals
    BY DEF Meals
  <1>4. Cardinality(Meals) = 2
    BY <1>1, <1>2, <1>3
  <1>5. S # Meals
    BY <1>4
  <1> QED
    BY <1>5

\* DFS::Init gives every restaurant at least one meal, and a view none.
LEMMA TypesType ==
    ASSUME NEW d \in Day
    PROVE  /\ Types(d) \in [Place -> SUBSET Meals]
           /\ \A i \in Place : Types(d)[i] = {} <=> d.type[i] = {}
           /\ BlockNeed(d) \in SUBSET Meals
  <1> DEFINE raw == d.type
             rests == {i \in Place : IsRest(raw[i])}
             first == CHOOSE i \in rests : \A k \in rests : i <= k
             last == CHOOSE i \in rests : \A k \in rests : k <= i
  <1>1. raw \in [Place -> SUBSET Meals]
    BY DayAssumption
  <1>2. rests # {} => first \in rests /\ last \in rests
    <2>1. Place \subseteq 0..Mid /\ Mid \in Nat /\ 0..Mid \subseteq Nat
      BY DayAssumption DEF Place
    <2>2. rests \in SUBSET Nat /\ rests \in SUBSET (0..Mid)
      BY <2>1
    <2> HIDE DEF rests
    <2> QED
      BY <2>1, <2>2, LeastNumber, GreatestNumber
  <1>4. \A i \in rests : i \in Place /\ raw[i] # {}
    BY DEF IsRest
  <1>3. ~(Cardinality(rests) < 2) => rests # {}
    <2>1. Cardinality({}) = 0
      BY FS_EmptySet
    <2> HIDE DEF rests
    <2> QED
      BY <2>1
  <1> HIDE DEF raw, rests, first, last
  <1>5. Types(d) = IF Cardinality(rests) < 2 THEN raw
                   ELSE IF Cardinality(raw[first]) = 1 THEN [raw EXCEPT ![last] = Meals \ raw[first]]
                   ELSE IF Cardinality(raw[last]) = 1 THEN [raw EXCEPT ![first] = Meals \ raw[last]]
                   ELSE raw
    BY DEF Types, raw, rests, first, last
  <1>6. /\ Types(d) \in [Place -> SUBSET Meals]
        /\ \A i \in Place : Types(d)[i] = {} <=> raw[i] = {}
    <2>1. CASE Types(d) = raw
      BY <1>1, <2>1
    <2>2. CASE /\ ~(Cardinality(rests) < 2) /\ Cardinality(raw[first]) = 1
               /\ Types(d) = [raw EXCEPT ![last] = Meals \ raw[first]]
      <3>1. rests # {}
        BY <1>3, <2>2
      <3>2. first \in Place /\ last \in Place /\ raw[first] \in SUBSET Meals /\ raw[last] # {}
        BY <1>1, <1>2, <1>4, <3>1
      <3>3. Meals \ raw[first] # {}
        BY <2>2, <3>2, MealsOne
      <3> QED
        BY <1>1, <2>2, <3>2, <3>3
    <2>3. CASE /\ ~(Cardinality(rests) < 2) /\ Cardinality(raw[last]) = 1
               /\ Types(d) = [raw EXCEPT ![first] = Meals \ raw[last]]
      <3>1. rests # {}
        BY <1>3, <2>3
      <3>2. first \in Place /\ last \in Place /\ raw[last] \in SUBSET Meals /\ raw[first] # {}
        BY <1>1, <1>2, <1>4, <3>1
      <3>3. Meals \ raw[last] # {}
        BY <2>3, <3>2, MealsOne
      <3> QED
        BY <1>1, <2>3, <3>2, <3>3
    <2> QED
      BY <1>5, <2>1, <2>2, <2>3
  <1>7. BlockNeed(d) \in SUBSET Meals
    BY <1>6 DEF BlockNeed
  <1> QED
    BY <1>6, <1>7 DEF raw


\* The windows that count have their hours.
LEMMA WindowType ==
    ASSUME NEW d \in Day, NEW i \in Place, NEW left
    PROVE  \A w \in Windows(d, i, left) :
              /\ w \in DOMAIN d.win[i] /\ w \in Nat /\ w >= 1 /\ w <= Len(d.win[i])
              /\ d.win[i][w] \in OpenClose
              /\ d.win[i][w].open \in Int /\ d.win[i][w].close \in Int
  <1> SUFFICES ASSUME NEW w \in Windows(d, i, left)
               PROVE  /\ w \in DOMAIN d.win[i] /\ w \in Nat /\ w >= 1 /\ w <= Len(d.win[i])
                      /\ d.win[i][w] \in OpenClose
    BY DEF OpenClose
  <1>1. d.win[i] \in Seq(OpenClose \union {NULL})
    BY DayAssumption
  <1>2. w \in 1..Len(d.win[i]) /\ (IsRest(Types(d)[i]) => d.win[i][w] # NULL)
    BY DEF Windows
  <1>3. w \in Nat /\ d.win[i][w] \in OpenClose \union {NULL} /\ w \in DOMAIN d.win[i]
        /\ w >= 1 /\ w <= Len(d.win[i])
    BY <1>1, <1>2
  <1>4. CASE Types(d)[i] = {}
    <2>1. d.win[i] \in Seq(OpenClose)
      BY <1>4, DayAssumption, TypesType
    <2> QED
      BY <1>2, <1>3, <2>1
  <1>5. CASE Types(d)[i] # {}
    BY <1>2, <1>3, <1>5 DEF IsRest
  <1> QED
    BY <1>4, <1>5

\* What CalClash keeps from place to place.
Acc == [offset : Int, left : SUBSET Meals, clash : {0, 1}, firstL : {0, 1}, fail : BOOLEAN]

LEMMA VisitType ==
    ASSUME NEW d \in Day, NEW acc \in Acc, NEW s, NEW k, s[k] \in Place,
           Item(d, s[k - 1], s[k]) \in Traffic
    PROVE  Visit(d, acc, s, k) \in Acc
  <1> DEFINE i == s[k]
             arv == acc.offset + Item(d, s[k - 1], i).time
             W == Windows(d, i, acc.left)
             fits == {w \in W : Begin(d, i, w, arv) + d.zip[i] <= d.win[i][w].close}
             j == CHOOSE x \in fits : \A y \in fits : x <= y
             out == Begin(d, i, j, arv) + d.zip[i]
             left == IF IsRest(Types(d)[i]) THEN acc.left \ {MealOf(j)} ELSE acc.left
             fl == IF k = 2 /\ IsRest(Types(d)[i]) /\ Begin(d, i, j, arv) - arv > Hour
                   THEN 1 ELSE acc.firstL
  <1>1. /\ acc.offset \in Int /\ acc.left \in SUBSET Meals /\ acc.clash \in {0, 1}
        /\ acc.firstL \in {0, 1} /\ acc.fail \in BOOLEAN
        /\ acc = [offset |-> acc.offset, left |-> acc.left, clash |-> acc.clash,
                  firstL |-> acc.firstL, fail |-> acc.fail]
    BY DEF Acc
  <1>2. arv \in Int
    BY <1>1 DEF Traffic
  <1>3. d.zip[i] \in Int /\ d.win[i] \in Seq(OpenClose \union {NULL})
    BY DayAssumption
  <1>4. \A w \in W : w \in Nat /\ d.win[i][w] \in OpenClose
    BY WindowType
  <1>5. fits # {} => j \in W
    <2>1. fits \in SUBSET Nat /\ fits \subseteq W
      BY <1>4
    <2> HIDE DEF fits
    <2> QED
      BY <2>1, LeastNumber
  <1>6. fits # {} => out \in Int
    <2> SUFFICES ASSUME fits # {} PROVE out \in Int
      OBVIOUS
    <2>1. d.win[i][j].open \in Int
      BY <1>4, <1>5 DEF OpenClose
    <2> HIDE DEF j
    <2>2. Begin(d, i, j, arv) \in Int
      BY <1>2, <2>1 DEF Begin
    <2> QED
      BY <1>3, <2>2
  <1>7. left \in SUBSET Meals /\ fl \in {0, 1}
    BY <1>1
  <1> HIDE DEF W, fits, j, out, left, fl, arv
  <1>8. Visit(d, acc, s, k) =
            IF acc.fail \/ acc.clash = 1 THEN acc
            ELSE IF d.zip[i] = -1 /\ W # {} THEN [acc EXCEPT !.fail = TRUE]
            ELSE IF fits = {} \/ out > d.stop THEN [acc EXCEPT !.clash = 1]
            ELSE [acc EXCEPT !.offset = out, !.left = left, !.firstL = fl]
    BY DEF Visit, W, fits, j, out, left, fl, arv
  <1>9. [acc EXCEPT !.fail = TRUE] \in Acc /\ [acc EXCEPT !.clash = 1] \in Acc
    BY DEF Acc
  <1>10. fits # {} => [acc EXCEPT !.offset = out, !.left = left, !.firstL = fl] \in Acc
    BY <1>6, <1>7 DEF Acc
  <1> QED
    BY <1>8, <1>9, <1>10


LEMMA OrderType ==
    ASSUME NEW s \in Orders
    PROVE  /\ s \in Seq(Node) /\ Len(s) = Mid + 2 /\ s # <<>>
           /\ s[1] = 0 /\ s[Mid + 2] = End
           /\ \A k \in 2..(Mid + 1) : s[k] \in Place
           /\ \A k, l \in 2..(Mid + 1) : s[k] = s[l] => k = l
  <1>1. s \in [1..(Mid + 2) -> Node] /\ Mid \in Nat
    BY DayAssumption DEF Orders
  <1>2. s \in Seq(Node) /\ Len(s) = Mid + 2
    BY <1>1
  <1> QED
    BY <1>1, <1>2 DEF Orders

\* The steps of CalClash.
FirstAcc(d) ==
    [offset |-> d.start, left |-> BlockNeed(d), clash |-> 0, firstL |-> 0, fail |-> FALSE]

Accs(d, s) ==
    CHOOSE f : f = [k \in 1..(Len(s) - 1) |->
                       IF k = 1 THEN FirstAcc(d) ELSE Visit(d, f[k - 1], s, k)]

Verdict(d, s, last) ==
    IF ~last.fail /\ last.clash = 0 /\ last.offset + Item(d, s[Len(s) - 1], s[Len(s)]).time > d.stop
    THEN [last EXCEPT !.clash = 1] ELSE last

LEMMA ClashAccs == \A d, s : CalClash(d, s) = Verdict(d, s, Accs(d, s)[Len(s) - 1])
  BY DEF CalClash, Verdict, Accs, FirstAcc

LEMMA OrderLegs ==
    ASSUME NEW d \in Day, NEW s \in Orders, Linked(d, s)
    PROVE  /\ Mid \in Nat /\ Len(s) - 1 = Mid + 1 /\ Len(s) = Mid + 2 /\ Mid + 1 \in 1..(Mid + 1)
           /\ \A k \in 2..(Mid + 1) : s[k] \in Place /\ Item(d, s[k - 1], s[k]) \in Traffic
           /\ Item(d, s[Mid + 1], s[Mid + 2]) \in Traffic
  <1>1. Len(s) = Mid + 2 /\ Mid \in Nat /\ s \in Seq(Node) /\ \A k \in 2..(Mid + 1) : s[k] \in Place
    BY OrderType, DayAssumption
  <1>2. \A k \in 2..(Mid + 1) : k \in 2..Len(s)
    BY <1>1
  <1>3. \A k \in 2..Len(s) : Item(d, s[k - 1], s[k]) \in Traffic
    BY <1>1, LinkedLegs
  <1>4. Mid + 2 \in 2..Len(s) /\ (Mid + 2) - 1 = Mid + 1
    BY <1>1
  <1>5. Item(d, s[Mid + 1], s[Mid + 2]) \in Traffic
    BY <1>3, <1>4
  <1> QED
    BY <1>1, <1>2, <1>3, <1>5

LEMMA AccsAre ==
    ASSUME NEW d \in Day, NEW s \in Orders, Linked(d, s)
    PROVE  /\ Accs(d, s) \in [1..(Mid + 1) -> Acc]
           /\ Accs(d, s)[1] = FirstAcc(d)
           /\ \A k \in 2..(Mid + 1) : Accs(d, s)[k] = Visit(d, Accs(d, s)[k - 1], s, k)
  <1> DEFINE n == Mid + 1
             a == FirstAcc(d)
             step == [k \in 1..n |-> [v \in Acc |-> IF k = 1 THEN v ELSE Visit(d, v, s, k)]]
             A == Accs(d, s)
  <1>1. Len(s) - 1 = n /\ n \in Nat /\ 1 <= n
    BY OrderLegs
  <1>2. \A k \in 2..n : s[k] \in Place /\ Item(d, s[k - 1], s[k]) \in Traffic
    BY OrderLegs
  <1>3. a \in Acc
    BY TypesType, DayAssumption DEF Acc, FirstAcc
  <1> HIDE DEF n, a
  <1>4. \A k \in 1..n, v \in Acc : k # 1 => Visit(d, v, s, k) \in Acc
    <2>1. \A k \in 1..n : k # 1 => k \in 2..n
      BY <1>1
    <2> QED
      BY <1>2, <2>1, VisitType
  <1>5. PICK f \in [1..n -> Acc] : f[1] = a /\ \A k \in 1..n : k # 1 => f[k] = step[k][f[k - 1]]
    <2>1. step \in [1..n -> [Acc -> Acc]]
      BY <1>4
    <2> HIDE DEF step
    <2>2. Recursive(1, n, Acc, a, step)
      BY <1>1, <1>3, <2>1 DEF Recursive
    <2> QED
      BY <2>2, Recursion
  <1>6. \A k \in 1..n : k # 1 => k - 1 \in 1..n
    BY <1>1
  <1>7. f = [k \in 1..n |-> IF k = 1 THEN a ELSE Visit(d, f[k - 1], s, k)]
    BY <1>5, <1>6
  <1>8. A = [k \in 1..n |-> IF k = 1 THEN a ELSE Visit(d, A[k - 1], s, k)]
    BY <1>1, <1>7 DEF Accs, a
  <1> HIDE DEF A
  <1>9. \A k \in 1..n : A[k] \in Acc
    <2> DEFINE I == {k \in 1..n : A[k] \in Acc}
    <2>1. 1 \in 1..n
      BY <1>1
    <2>2. 1 \in I
      BY <1>3, <1>8, <2>1
    <2>3. ASSUME NEW k \in 1..n, k # 1, k - 1 \in I PROVE k \in I
      BY <1>4, <1>8, <2>3
    <2> HIDE DEF I
    <2>4. \A k \in 1..n : k \in I
      BY <1>1, <2>2, <2>3, Upwards
    <2> QED
      BY <2>4 DEF I
  <1>10. A \in [1..n -> Acc]
    BY <1>8, <1>9
  <1>11. A[1] = a
    BY <1>1, <1>8
  <1>12. ASSUME NEW k \in 2..n PROVE A[k] = Visit(d, A[k - 1], s, k)
    <2>1. k \in 1..n /\ k # 1
      OBVIOUS
    <2> QED
      BY <1>8, <2>1
  <1> QED
    BY <1>10, <1>11, <1>12 DEF A, n, a

LEMMA ClashType ==
    ASSUME NEW d \in Day, NEW s \in Orders, Linked(d, s)
    PROVE  CalClash(d, s) \in Acc
  <1> DEFINE last == Accs(d, s)[Mid + 1]
  <1>1. last \in Acc /\ Len(s) - 1 = Mid + 1
    BY AccsAre, OrderLegs
  <1> HIDE DEF last
  <1>2. [last EXCEPT !.clash = 1] \in Acc
    BY <1>1 DEF Acc
  <1>3. CalClash(d, s) = last \/ CalClash(d, s) = [last EXCEPT !.clash = 1]
    BY <1>1, ClashAccs DEF Verdict, last
  <1> QED
    BY <1>1, <1>2, <1>3

-----------------------------------------------------------------------------
(* Numbers and their digits. *)

LEMMA DigitLess ==
    ASSUME NEW a \in Nat, NEW b \in Nat, NEW B \in Nat, NEW x \in Nat, NEW y \in Nat, x < B, a < b
    PROVE  a * B + x < b * B + y
  <1>1. (a + 1) * B <= b * B /\ b * B \in Nat
    <2>1. a + 1 \in Nat /\ a + 1 <= b
      OBVIOUS
    <2> QED
      BY <2>1, Product
  <1>2. (a + 1) * B = a * B + B /\ a * B \in Nat
    BY SMT
  <1> DEFINE p == a * B
             q == b * B
  <1>3. p + B <= q /\ p \in Nat /\ q \in Nat
    BY <1>1, <1>2
  <1> HIDE DEF p, q
  <1>4. p + x < q + y
    BY <1>3
  <1> QED
    BY <1>4 DEF p, q

\* a and b followed by the digits x and y, to the base B, are the same number.
SameNumber(a, x, b, y, B) ==
    /\ a \in Nat /\ b \in Nat /\ B \in Nat /\ x \in Nat /\ y \in Nat /\ x < B /\ y < B
    /\ a * B + x = b * B + y

LEMMA DigitsEqual ==
    ASSUME NEW a, NEW x, NEW b, NEW y, NEW B, SameNumber(a, x, b, y, B)
    PROVE  a = b /\ x = y
  <1> USE DEF SameNumber
  <1>1. a * B \in Nat /\ b * B \in Nat
    BY SMT
  <1>2. a * B + x \in Nat /\ b * B + y \in Nat
    BY <1>1
  <1>3. CASE a < b
    <2>1. a * B + x < b * B + y
      BY <1>3, DigitLess
    <2> DEFINE p == a * B + x
    <2> HIDE DEF p
    <2>2. p < p /\ p \in Nat
      BY <1>2, <2>1 DEF p
    <2> QED
      BY <2>2
  <1>4. CASE b < a
    <2>1. b * B + y < a * B + x
      BY <1>4, DigitLess
    <2> DEFINE p == a * B + x
    <2> HIDE DEF p
    <2>2. p < p /\ p \in Nat
      BY <1>2, <2>1 DEF p
    <2> QED
      BY <2>2
  <1>5. CASE a = b
    <2> DEFINE p == a * B
    <2> HIDE DEF p
    <2>1. p \in Nat /\ p + x = p + y
      BY <1>1, <1>5 DEF p
    <2> QED
      BY <1>5, <2>1
  <1> QED
    BY <1>3, <1>4, <1>5

\* The hashes of the ends of s.
Codes(s) ==
    CHOOSE f : f = [k \in 1..Len(s) |->
        IF k = 1 THEN s[Len(s)] ELSE f[k - 1] * (End + 1) + s[Len(s) + 1 - k]]

LEMMA HashCodes == \A s : Hash(s) = Codes(s)[Len(s)]
  BY DEF Hash, Codes

LEMMA CodesIs ==
    ASSUME NEW s \in Seq(Node), s # <<>>
    PROVE  /\ Codes(s) \in [1..Len(s) -> Nat]
           /\ Codes(s)[1] = s[Len(s)]
           /\ \A k \in 1..Len(s) : k # 1 => Codes(s)[k] = Codes(s)[k - 1] * (End + 1) + s[Len(s) + 1 - k]
           /\ \A k \in 1..Len(s) : s[k] \in Nat /\ s[k] < End + 1
           /\ End + 1 \in Nat
  <1> DEFINE n == Len(s)
             B == End + 1
             x(k) == s[n + 1 - k]
             step == [k \in 1..n |-> [v \in Nat |-> IF k = 1 THEN v ELSE v * B + x(k)]]
             A == Codes(s)
  <1>0. n \in Nat /\ 1 <= n /\ s \in [1..n -> Node]
    BY LenProperties
  <1>1. B \in Nat /\ \A i \in Node : i \in Nat /\ i < B
    BY DayAssumption DEF End, Node
  <1>2. \A k \in 1..n : s[k] \in Nat /\ s[k] < B
    BY <1>0, <1>1
  <1>3. \A k \in 1..n : n + 1 - k \in 1..n /\ (k # 1 => k - 1 \in 1..n)
    BY <1>0
  <1>4. \A k \in 1..n : x(k) \in Nat
    BY <1>2, <1>3
  <1> HIDE DEF n, B, x
  <1>5. \A v \in Nat, k \in 1..n : v * B + x(k) \in Nat
    <2>1. \A v \in Nat : v * B \in Nat
      BY <1>1
    <2>2. \A u, v \in Nat : u + v \in Nat
      OBVIOUS
    <2> QED
      BY <1>4, <2>1, <2>2
  <1>6. s[n] \in Nat /\ n \in 1..n /\ 1 \in 1..n
    BY <1>0, <1>2
  <1>7. PICK f \in [1..n -> Nat] : f[1] = s[n] /\ \A k \in 1..n : k # 1 => f[k] = step[k][f[k - 1]]
    <2>1. step \in [1..n -> [Nat -> Nat]]
      BY <1>5
    <2> HIDE DEF step
    <2>2. Recursive(1, n, Nat, s[n], step)
      BY <1>0, <1>6, <2>1 DEF Recursive
    <2> QED
      BY <2>2, Recursion
  <1>8. f = [k \in 1..n |-> IF k = 1 THEN s[n] ELSE f[k - 1] * B + x(k)]
    BY <1>3, <1>7
  <1>9. A = [k \in 1..n |-> IF k = 1 THEN s[n] ELSE A[k - 1] * B + x(k)]
    BY <1>8 DEF Codes, n, B, x
  <1> HIDE DEF A
  <1>10. \A k \in 1..n : A[k] \in Nat
    <2> DEFINE I == {k \in 1..n : A[k] \in Nat}
    <2>1. 1 \in I
      BY <1>6, <1>9
    <2>2. ASSUME NEW k \in 1..n, k # 1, k - 1 \in I PROVE k \in I
      BY <1>5, <1>9, <2>2
    <2> HIDE DEF I
    <2>3. \A k \in 1..n : k \in I
      BY <1>0, <2>1, <2>2, Upwards
    <2> QED
      BY <2>3 DEF I
  <1> QED
    BY <1>1, <1>2, <1>6, <1>9, <1>10 DEF A, n, B, x

\* Different orders have different hashes.
LEMMA HashInjective ==
    ASSUME NEW s \in Orders, NEW t \in Orders
    PROVE  Hash(s) \in Nat /\ (Hash(s) = Hash(t) => s = t)
  <1> DEFINE n == Mid + 2
             B == End + 1
             C == Codes(s)
             D == Codes(t)
             I == {m \in 0..(n - 1) : C[n - m] = D[n - m]}
  <1>0. n \in Nat /\ 1 <= n /\ n - 1 \in Nat /\ n \in 1..n
    BY DayAssumption
  <1>1. /\ s \in Seq(Node) /\ Len(s) = n /\ s # <<>> /\ t \in Seq(Node) /\ Len(t) = n /\ t # <<>>
        /\ s \in [1..n -> Node] /\ t \in [1..n -> Node]
    BY OrderType DEF Orders
  <1>2. /\ C \in [1..n -> Nat] /\ D \in [1..n -> Nat] /\ C[1] = s[n] /\ D[1] = t[n]
        /\ \A k \in 1..n : k # 1 => C[k] = C[k - 1] * B + s[n + 1 - k]
        /\ \A k \in 1..n : k # 1 => D[k] = D[k - 1] * B + t[n + 1 - k]
        /\ \A k \in 1..n : s[k] \in Nat /\ s[k] < B /\ t[k] \in Nat /\ t[k] < B
        /\ B \in Nat
    BY <1>1, CodesIs
  <1>3. Hash(s) = C[n] /\ Hash(t) = D[n]
    BY <1>1, HashCodes
  <1> HIDE DEF n, B, C, D
  <1>4. Hash(s) \in Nat
    BY <1>0, <1>2, <1>3
  <1>5. ASSUME C[n] = D[n] PROVE s = t
    <2>1. ASSUME NEW k \in 1..n, k # 1, C[k] = D[k]
          PROVE  C[k - 1] = D[k - 1] /\ s[n + 1 - k] = t[n + 1 - k]
      <3>1. k - 1 \in 1..n /\ n + 1 - k \in 1..n
        BY <1>0, <2>1
      <3>2. C[k - 1] * B + s[n + 1 - k] = D[k - 1] * B + t[n + 1 - k]
        BY <1>2, <2>1
      <3>3. /\ C[k - 1] \in Nat /\ D[k - 1] \in Nat /\ s[n + 1 - k] \in Nat /\ t[n + 1 - k] \in Nat
            /\ s[n + 1 - k] < B /\ t[n + 1 - k] < B /\ B \in Nat
        BY <1>2, <3>1
      <3> DEFINE a == C[k - 1]
                 b == D[k - 1]
                 x == s[n + 1 - k]
                 y == t[n + 1 - k]
      <3> HIDE DEF a, b, x, y
      <3>4. SameNumber(a, x, b, y, B)
        BY <3>2, <3>3 DEF SameNumber, a, b, x, y
      <3>5. a = b /\ x = y
        BY <3>4, DigitsEqual
      <3> QED
        BY <3>5 DEF a, b, x, y
    <2>2. 0 \in I
      BY <1>0, <1>5
    <2>3. ASSUME NEW m \in 0..(n - 1), m # 0, m - 1 \in I PROVE m \in I
      <3>1. n - (m - 1) \in 1..n /\ n - (m - 1) # 1 /\ n - (m - 1) - 1 = n - m
        BY <1>0, <2>3
      <3>2. C[n - (m - 1)] = D[n - (m - 1)]
        BY <2>3
      <3>3. C[n - (m - 1) - 1] = D[n - (m - 1) - 1]
        BY <2>1, <3>1, <3>2
      <3> QED
        BY <3>1, <3>3
    <2> HIDE DEF I
    <2>4. \A m \in 0..(n - 1) : m \in I
      BY <1>0, <2>2, <2>3, Upwards
    <2>5. ASSUME NEW k \in 1..n PROVE C[k] = D[k]
      <3>1. n - k \in 0..(n - 1) /\ n - (n - k) = k
        BY <1>0
      <3>2. n - k \in I
        BY <2>4, <3>1
      <3> QED
        BY <3>1, <3>2 DEF I
    <2>6. ASSUME NEW k \in 1..n PROVE s[k] = t[k]
      <3>1. CASE k = n
        <4>1. 1 \in 1..n
          BY <1>0
        <4> QED
          BY <1>2, <2>5, <3>1, <4>1
      <3>2. CASE k # n
        <4>1. n + 1 - k \in 1..n /\ n + 1 - k # 1 /\ n + 1 - (n + 1 - k) = k
          BY <1>0, <3>2
        <4>2. C[n + 1 - k] = D[n + 1 - k]
          BY <2>5, <4>1
        <4>3. s[n + 1 - (n + 1 - k)] = t[n + 1 - (n + 1 - k)]
          BY <2>1, <4>1, <4>2
        <4> QED
          BY <4>1, <4>3
      <3> QED
        BY <3>1, <3>2
    <2> QED
      BY <1>1, <2>6
  <1> QED
    BY <1>3, <1>4, <1>5


-----------------------------------------------------------------------------
(* The restaurants of an order and their meals. *)

\* The meals that are left after n restaurants.
LeftMeals(d, n) == {Menu(d)[k] : k \in (n + 1)..Len(Menu(d))}
RestCount(d, s, n) == Cardinality(Rests(d, s, n))

\* Restaurants with types T, visited after n others, serve the meal they are for.
Serves(d, n, T) == n + 1 <= Len(Menu(d)) /\ Menu(d)[n + 1] \in T

LEMMA MenuIs ==
    ASSUME NEW d \in Day
    PROVE  \/ BlockNeed(d) = {} /\ Menu(d) = <<>>
           \/ BlockNeed(d) = {"lunch"} /\ Menu(d) = <<"lunch">>
           \/ BlockNeed(d) = {"supper"} /\ Menu(d) = <<"supper">>
           \/ BlockNeed(d) = {"lunch", "supper"} /\ Menu(d) = <<"lunch", "supper">>
  <1>1. BlockNeed(d) \in SUBSET {"lunch", "supper"}
    BY TypesType DEF Meals
  <1>2. CASE "lunch" \in BlockNeed(d) /\ "supper" \in BlockNeed(d)
    BY <1>1, <1>2 DEF Menu, Meals
  <1>3. CASE "lunch" \in BlockNeed(d) /\ "supper" \notin BlockNeed(d)
    BY <1>1, <1>3 DEF Menu, Meals
  <1>4. CASE "lunch" \notin BlockNeed(d) /\ "supper" \in BlockNeed(d)
    BY <1>1, <1>4 DEF Menu, Meals
  <1>5. CASE "lunch" \notin BlockNeed(d) /\ "supper" \notin BlockNeed(d)
    BY <1>1, <1>5 DEF Menu, Meals
  <1> QED
    BY <1>2, <1>3, <1>4, <1>5

\* SearchRest takes the meals in the order of the menu.
LEMMA MenuOrder ==
    ASSUME NEW d \in Day, NEW n \in Nat
    PROVE  /\ LeftMeals(d, 0) = BlockNeed(d) /\ LeftMeals(d, n) \in SUBSET Meals
           /\ LeftMeals(d, n) # {} <=> n + 1 <= Len(Menu(d))
           /\ LeftMeals(d, n) # {} =>
                /\ Menu(d)[n + 1] = IF "lunch" \in LeftMeals(d, n) THEN "lunch" ELSE "supper"
                /\ LeftMeals(d, n + 1) =
                      LeftMeals(d, n) \ (IF "lunch" \in LeftMeals(d, n) THEN {"lunch"} ELSE {"supper"})
  <1>1. CASE BlockNeed(d) = {} /\ Menu(d) = <<>>
    BY <1>1 DEF LeftMeals, Meals
  <1>2. CASE BlockNeed(d) = {"lunch"} /\ Menu(d) = <<"lunch">>
    <2>1. Len(Menu(d)) = 1 /\ Menu(d)[1] = "lunch"
      BY <1>2
    <2>2. LeftMeals(d, 0) = {"lunch"} /\ \A k \in Nat : k >= 1 => LeftMeals(d, k) = {}
      BY <2>1 DEF LeftMeals
    <2>3. n = 0 \/ n >= 1
      OBVIOUS
    <2> QED
      BY <1>2, <2>1, <2>2, <2>3 DEF Meals
  <1>3. CASE BlockNeed(d) = {"supper"} /\ Menu(d) = <<"supper">>
    <2>1. Len(Menu(d)) = 1 /\ Menu(d)[1] = "supper"
      BY <1>3
    <2>2. LeftMeals(d, 0) = {"supper"} /\ \A k \in Nat : k >= 1 => LeftMeals(d, k) = {}
      BY <2>1 DEF LeftMeals
    <2>3. n = 0 \/ n >= 1
      OBVIOUS
    <2> QED
      BY <1>3, <2>1, <2>2, <2>3 DEF Meals
  <1>4. CASE BlockNeed(d) = {"lunch", "supper"} /\ Menu(d) = <<"lunch", "supper">>
    <2>1. Len(Menu(d)) = 2 /\ Menu(d)[1] = "lunch" /\ Menu(d)[2] = "supper"
      BY <1>4
    <2>2. /\ LeftMeals(d, 0) = {"lunch", "supper"} /\ LeftMeals(d, 1) = {"supper"}
          /\ \A k \in Nat : k >= 2 => LeftMeals(d, k) = {}
      BY <2>1 DEF LeftMeals
    <2>3. n = 0 \/ n = 1 \/ n >= 2
      OBVIOUS
    <2> QED
      BY <1>4, <2>1, <2>2, <2>3 DEF Meals
  <1> QED
    BY <1>1, <1>2, <1>3, <1>4, MenuIs

\* The test of SearchRest is the one for the next meal of the menu.
LEMMA ServesMeans ==
    ASSUME NEW d \in Day, NEW n \in Nat, NEW T
    PROVE  Serves(d, n, T) <=>
             /\ LeftMeals(d, n) # {}
             /\ IF "lunch" \in LeftMeals(d, n) THEN "lunch" \in T ELSE "supper" \in T
  BY MenuOrder DEF Serves

LEMMA RestsAgree ==
    ASSUME NEW d, NEW s, NEW t, NEW n \in Nat, Agree(s, t, n)
    PROVE  \A k \in 0..n : Rests(d, s, k) = Rests(d, t, k)
  <1> SUFFICES ASSUME NEW k \in 0..n PROVE Rests(d, s, k) = Rests(d, t, k)
    OBVIOUS
  <1>1. \A j \in 1..k : s[j] = t[j]
    BY DEF Agree
  <1> QED
    BY <1>1 DEF Rests

LEMMA RestsNext ==
    ASSUME NEW d, NEW s, NEW n \in Nat
    PROVE  /\ IsFiniteSet(Rests(d, s, n)) /\ RestCount(d, s, n) \in Nat
           /\ RestCount(d, s, n + 1) =
                RestCount(d, s, n) + (IF s[n + 1] \in Place /\ IsRest(Types(d)[s[n + 1]]) THEN 1 ELSE 0)
  <1>1. IsFiniteSet(Rests(d, s, n)) /\ RestCount(d, s, n) \in Nat
    <2>1. Rests(d, s, n) \in SUBSET (1..n) /\ 1 \in Int /\ n \in Int
      BY DEF Rests
    <2>2. IsFiniteSet(1..n)
      BY <2>1, FS_Interval
    <2> QED
      BY <2>1, <2>2, FS_Subset, FS_CardinalityType DEF RestCount
  <1>2. 1..(n + 1) = (1..n) \union {n + 1} /\ n + 1 \notin 1..n
    OBVIOUS
  <1>3. CASE s[n + 1] \in Place /\ IsRest(Types(d)[s[n + 1]])
    <2>1. Rests(d, s, n + 1) = Rests(d, s, n) \union {n + 1} /\ n + 1 \notin Rests(d, s, n)
      BY <1>2, <1>3 DEF Rests
    <2>2. Cardinality(Rests(d, s, n) \union {n + 1}) = Cardinality(Rests(d, s, n)) + 1
      BY <1>1, <2>1, FS_AddElement
    <2>3. RestCount(d, s, n + 1) = RestCount(d, s, n) + 1
      BY <2>1, <2>2 DEF RestCount
    <2> QED
      BY <1>1, <1>3, <2>3
  <1>4. CASE ~(s[n + 1] \in Place /\ IsRest(Types(d)[s[n + 1]]))
    <2>1. Rests(d, s, n + 1) = Rests(d, s, n)
      BY <1>2, <1>4 DEF Rests
    <2> QED
      BY <1>1, <1>4, <2>1 DEF RestCount
  <1> QED
    BY <1>1, <1>3, <1>4

LEMMA MealPrefix ==
    ASSUME NEW d, NEW s \in Seq(Node), NEW t \in Seq(Node), MealOrder(d, s),
           Len(t) <= Len(s), Agree(s, t, Len(t))
    PROVE  MealOrder(d, t)
  <1>1. Len(s) \in Nat /\ Len(t) \in Nat
    BY LenProperties
  <1> SUFFICES ASSUME NEW k \in Rests(d, t, Len(t))
               PROVE  /\ RestCount(d, t, k) <= Len(Menu(d))
                      /\ Menu(d)[RestCount(d, t, k)] \in Types(d)[t[k]]
    BY DEF MealOrder, RestCount
  <1>2. k \in 1..Len(t) /\ k \in 0..Len(t) /\ k \in 1..Len(s)
    BY <1>1 DEF Rests
  <1>3. s[k] = t[k] /\ Rests(d, s, k) = Rests(d, t, k)
    BY <1>1, <1>2, RestsAgree DEF Agree
  <1>4. k \in Rests(d, s, Len(s))
    BY <1>2, <1>3 DEF Rests
  <1> QED
    BY <1>3, <1>4 DEF MealOrder, RestCount

\* A node more keeps the order of the meals if it serves the next one.
LEMMA MealAppend ==
    ASSUME NEW d \in Day, NEW s \in Seq(Node), NEW i \in Node
    PROVE  MealOrder(d, Append(s, i)) <=>
             /\ MealOrder(d, s)
             /\ i \in Place /\ IsRest(Types(d)[i]) => Serves(d, RestCount(d, s, Len(s)), Types(d)[i])
  <1> DEFINE t == Append(s, i)
             n == Len(s)
             c == RestCount(d, s, n)
             Ok(u, k) == /\ RestCount(d, u, k) <= Len(Menu(d))
                         /\ Menu(d)[RestCount(d, u, k)] \in Types(d)[u[k]]
  <1>0. n \in Nat
    BY LenProperties
  <1>1. t \in Seq(Node) /\ Len(t) = n + 1 /\ t[n + 1] = i /\ \A k \in 1..n : t[k] = s[k]
    BY AppendProperties
  <1> HIDE DEF t, n
  <1>2. \A k \in 0..n : Rests(d, t, k) = Rests(d, s, k)
    <2>1. Agree(t, s, n)
      BY <1>1 DEF Agree
    <2> QED
      BY <1>0, <2>1, RestsAgree
  <1>3. \A k \in 1..n : Ok(t, k) <=> Ok(s, k)
    <2>1. \A k \in 1..n : k \in 0..n
      BY <1>0
    <2> QED
      BY <1>1, <1>2, <2>1 DEF RestCount
  <1>4. MealOrder(d, t) <=> \A k \in 1..(n + 1) : k \in Rests(d, t, n + 1) => Ok(t, k)
    BY <1>1 DEF MealOrder, RestCount, Rests
  <1>5. MealOrder(d, s) <=> \A k \in 1..n : k \in Rests(d, s, n) => Ok(s, k)
    BY DEF MealOrder, RestCount, Rests, n
  <1>6. /\ \A k \in 1..n : k \in Rests(d, t, n + 1) <=> k \in Rests(d, s, n)
        /\ n + 1 \in Rests(d, t, n + 1) <=> i \in Place /\ IsRest(Types(d)[i])
        /\ \A k \in 1..(n + 1) : k \in 1..n \/ k = n + 1
        /\ \A k \in 1..n : k \in 1..(n + 1)
        /\ n + 1 \in 1..(n + 1)
    <2>1. /\ \A k \in 1..(n + 1) : k \in 1..n \/ k = n + 1
          /\ \A k \in 1..n : k \in 1..(n + 1)
          /\ n + 1 \in 1..(n + 1)
      BY <1>0
    <2> QED
      BY <1>1, <2>1 DEF Rests
  <1>7. i \in Place /\ IsRest(Types(d)[i]) => (Ok(t, n + 1) <=> Serves(d, c, Types(d)[i]))
    <2>1. RestCount(d, t, n) = c /\ n \in 0..n
      BY <1>0, <1>2 DEF RestCount
    <2>2. i \in Place /\ IsRest(Types(d)[i]) => RestCount(d, t, n + 1) = c + 1
      BY <1>0, <1>1, <2>1, RestsNext
    <2> HIDE DEF c
    <2> QED
      BY <1>1, <2>2 DEF Serves
  <1> HIDE DEF Ok, c
  <1>8. MealOrder(d, t) <=>
            /\ \A k \in 1..n : k \in Rests(d, s, n) => Ok(s, k)
            /\ i \in Place /\ IsRest(Types(d)[i]) => Ok(t, n + 1)
    BY <1>3, <1>4, <1>6
  <1> QED
    BY <1>5, <1>7, <1>8 DEF t, n, c


-----------------------------------------------------------------------------
(* The possible orders and their paths. *)

LEMMA OrdersFinite == IsFiniteSet(Orders)
  <1> DEFINE D == 1..(Mid + 2)
             T == SUBSET (D \X Node)
             g == [s \in Orders |-> {<<k, s[k]>> : k \in D}]
  <1>1. IsFiniteSet(D) /\ IsFiniteSet(Node)
    <2>1. Mid + 2 \in Int /\ End \in Int /\ 0 \in Int /\ 1 \in Int
      BY DayAssumption DEF End
    <2> QED
      BY <2>1, FS_Interval DEF Node
  <1>2. \A s \in Orders : s \in [D -> Node]
    BY DEF Orders
  <1> HIDE DEF D
  <1>3. IsFiniteSet(T)
    <2>1. IsFiniteSet(D \X Node)
      BY <1>1, FS_Product
    <2> QED
      BY <2>1, FS_SUBSET
  <1>4. g \in [Orders -> T]
    BY <1>2
  <1>5. ASSUME NEW s \in Orders, NEW t \in Orders, g[s] = g[t] PROVE s = t
    <2>1. ASSUME NEW k \in D PROVE s[k] = t[k]
      <3>1. <<k, s[k]>> \in g[t]
        BY <1>5
      <3> QED
        BY <3>1
    <2> QED
      BY <1>2, <2>1
  <1> HIDE DEF g, T
  <1>6. g \in Injection(Orders, T)
    BY <1>4, <1>5 DEF Injection, IsInjective
  <1> QED
    BY <1>3, <1>6, FS_Injection

LEMMA GoodType ==
    ASSUME NEW d \in Day, NEW s \in Good(d)
    PROVE  /\ s \in Orders /\ s \in Seq(Node) /\ Len(s) = Mid + 2 /\ s # <<>>
           /\ Linked(d, s) /\ MealOrder(d, s) /\ ~CalClash(d, s).fail
           /\ Judge(d, s) \in AllPaths(d)
  BY OrderType DEF Good, Possible, Linked, AllPaths

LEMMA JudgeType ==
    ASSUME NEW d \in Day, NEW s \in Good(d)
    PROVE  /\ Judge(d, s).miss = 0 /\ Judge(d, s).clash \in Nat /\ Judge(d, s).score \in Int
           /\ Judge(d, s).hash = Hash(s) /\ Hash(s) \in Nat /\ Judge(d, s).order = s
           /\ Sums(d, s) \in Sum /\ CalClash(d, s).firstL \in {0, 1}
           /\ Judge(d, s).score = GetScore(Sums(d, s).dist, Sums(d, s).non, Sums(d, s).walk,
                                           CalClash(d, s).firstL)
  <1>1. s \in Orders /\ s \in Seq(Node) /\ s # <<>> /\ Linked(d, s)
    BY GoodType
  <1>2. CalClash(d, s) \in Acc
    BY <1>1, ClashType
  <1>3. CalClash(d, s).clash \in Nat /\ CalClash(d, s).firstL \in {0, 1}
    BY <1>2 DEF Acc
  <1>4. Len(s) \in Nat /\ Agree(s, s, Len(s))
    BY <1>1, LenProperties DEF Agree
  <1>5. Sums(d, s) \in Sum
    BY <1>1, <1>4, SumsGrow
  <1>6. GetScore(Sums(d, s).dist, Sums(d, s).non, Sums(d, s).walk, CalClash(d, s).firstL) \in Int
    <2>1. Sums(d, s).dist \in Nat /\ Sums(d, s).non \in Nat /\ Sums(d, s).walk \in Nat
      BY <1>5 DEF Sum
    <2>2. /\ Sums(d, s).dist <= Sums(d, s).dist /\ Sums(d, s).non <= Sums(d, s).non
          /\ Sums(d, s).walk <= Sums(d, s).walk
      BY <2>1
    <2> QED
      BY <1>3, <1>5, <2>2, ScoreFalls
  <1>7. Hash(s) \in Nat
    BY <1>1, HashInjective
  <1>8. Judge(d, s) = [miss |-> 0, clash |-> CalClash(d, s).clash,
                       score |-> GetScore(Sums(d, s).dist, Sums(d, s).non, Sums(d, s).walk,
                                          CalClash(d, s).firstL),
                       hash |-> Hash(s), order |-> s]
    BY DEF Judge, SPath
  <1> QED
    BY <1>3, <1>5, <1>6, <1>7, <1>8

\* Each path as itself.
Self(S) == [p \in S |-> p]

LEMMA PathsStand ==
    ASSUME NEW d \in Day
    PROVE  /\ Stands(AllPaths(d), AllPaths(d), Self(AllPaths(d)))
           /\ \A r, s \in AllPaths(d) : r.hash = s.hash => r = s
           /\ IsFiniteSet(AllPaths(d))
           /\ \A p \in AllPaths(d) : Self(AllPaths(d))[p] = p
           /\ d.topK \in Nat \ {0}
  <1> DEFINE P == AllPaths(d)
  <1>1. \A p \in P : p.miss \in Nat /\ p.clash \in Nat /\ p.score \in Int /\ p.hash \in Nat
    BY JudgeType DEF AllPaths
  <1>2. \A p \in P : Self(P)[p] = p
    BY DEF Self
  <1>3. Self(P) \in [P -> P]
    BY DEF Self
  <1>4. \A r, s \in P : r.hash = s.hash => r = s
    <2> SUFFICES ASSUME NEW r \in P, NEW s \in P, r.hash = s.hash PROVE r = s
      OBVIOUS
    <2>1. PICK a \in Good(d) : r = Judge(d, a)
      BY DEF AllPaths
    <2>2. PICK b \in Good(d) : s = Judge(d, b)
      BY DEF AllPaths
    <2>3. Hash(a) = Hash(b) /\ a \in Orders /\ b \in Orders
      BY <2>1, <2>2, JudgeType, GoodType
    <2> QED
      BY <2>1, <2>2, <2>3, HashInjective
  <1>5. IsFiniteSet(P)
    <2> DEFINE f == [s \in Good(d) |-> Judge(d, s)]
    <2>1. Good(d) \in SUBSET Orders
      BY DEF Good
    <2>2. IsFiniteSet(Good(d))
      BY <2>1, OrdersFinite, FS_Subset
    <2>3. f \in Surjection(Good(d), P)
      BY DEF Surjection, AllPaths
    <2> HIDE DEF f
    <2> QED
      BY <2>2, <2>3, FS_Surjection
  <1>6. d.topK \in Nat \ {0}
    BY DayAssumption
  <1> HIDE DEF P
  <1>7. Stands(P, P, Self(P))
    BY <1>1, <1>2, <1>3 DEF Stands, Keyed
  <1> QED
    BY <1>2, <1>4, <1>5, <1>6, <1>7 DEF P


-----------------------------------------------------------------------------
(* The beginnings of the possible orders. *)

\* p is a path that the search can be on.
Begins(d, p) ==
    /\ p \in Seq(Node) /\ Len(p) \in 1..(Mid + 1) /\ p[1] = 0
    /\ \A k \in 2..Len(p) : p[k] \in Place
    /\ \A k, l \in 2..Len(p) : p[k] = p[l] => k = l
    /\ Linked(d, p) /\ MealOrder(d, p)

\* Place i can come after p.
Follows(d, p, i) ==
    /\ i \in Place /\ \A k \in 1..Len(p) : p[k] # i
    /\ Item(d, p[Len(p)], i) # NULL
    /\ IsRest(Types(d)[i]) => Serves(d, RestCount(d, p, Len(p)), Types(d)[i])

LEMMA NodeFacts ==
    /\ Mid \in Nat /\ End = Mid + 1 /\ End \in Nat /\ Node \subseteq Nat
    /\ 0 \in Node /\ End \in Node /\ End \notin Place /\ 0 \notin Place
    /\ \A i \in Place : i \in Node /\ i \in Nat /\ 1 <= i /\ i <= Mid
  BY DayAssumption DEF End, Node, Place

LEMMA BeginsFirst ==
    ASSUME NEW d \in Day
    PROVE  Begins(d, <<0>>) /\ Sums(d, <<0>>) = NoSum /\ RestCount(d, <<0>>, 1) = 0
  <1> DEFINE p == <<0>>
  <1>1. p \in Seq(Node) /\ Len(p) = 1 /\ p[1] = 0 /\ p # <<>>
    BY NodeFacts
  <1> HIDE DEF p
  <1>2. Linked(d, p)
    BY <1>1 DEF Linked
  <1>3. Sums(d, p) = NoSum
    BY <1>1, <1>2, AlongIs, SumsAlong
  <1>4. Rests(d, p, 1) = {}
    BY <1>1, NodeFacts DEF Rests
  <1>5. RestCount(d, p, 1) = 0
    BY <1>4, FS_EmptySet DEF RestCount
  <1>6. MealOrder(d, p)
    BY <1>1, <1>4 DEF MealOrder
  <1>7. Len(p) \in 1..(Mid + 1)
    BY <1>1, NodeFacts
  <1> QED
    BY <1>1, <1>2, <1>3, <1>5, <1>6, <1>7 DEF Begins, p

LEMMA BeginsStep ==
    ASSUME NEW d \in Day, NEW p, Begins(d, p), Len(p) <= Mid, NEW i, Follows(d, p, i)
    PROVE  Begins(d, Append(p, i))
  <1> DEFINE t == Append(p, i)
             n == Len(p)
  <1>0. n \in Nat /\ 1 <= n /\ n <= Mid /\ Mid \in Nat /\ p \in Seq(Node) /\ i \in Node /\ p # <<>>
    BY NodeFacts, LenProperties DEF Begins, Follows
  <1>1. t \in Seq(Node) /\ Len(t) = n + 1 /\ t[n + 1] = i /\ \A k \in 1..n : t[k] = p[k]
    BY <1>0, AppendProperties
  <1>2. Linked(d, t)
    BY <1>0, SumsAppend DEF Begins, Follows
  <1>3. MealOrder(d, t)
    BY <1>0, MealAppend DEF Begins, Follows
  <1> HIDE DEF t
  <1>4. \A k \in 2..(n + 1) : (k \in 2..n /\ k \in 1..n) \/ k = n + 1
    BY <1>0
  <1>5. i \in Place /\ \A k \in 1..n : p[k] # i
    BY DEF Follows
  <1>6. \A k \in 2..(n + 1) : t[k] \in Place
    BY <1>1, <1>4, <1>5 DEF Begins
  <1>7. \A k, l \in 2..(n + 1) : t[k] = t[l] => k = l
    <2> SUFFICES ASSUME NEW k \in 2..(n + 1), NEW l \in 2..(n + 1), t[k] = t[l] PROVE k = l
      OBVIOUS
    <2>1. CASE k \in 2..n /\ k \in 1..n /\ l \in 2..n /\ l \in 1..n
      BY <1>1, <2>1 DEF Begins
    <2>2. CASE k = n + 1 /\ l \in 1..n
      BY <1>1, <1>5, <2>2
    <2>3. CASE l = n + 1 /\ k \in 1..n
      BY <1>1, <1>5, <2>3
    <2> QED
      BY <1>4, <2>1, <2>2, <2>3
  <1>8. n + 1 \in 1..(Mid + 1) /\ 1 \in 1..n
    BY <1>0
  <1>9. t[1] = 0
    BY <1>1, <1>8 DEF Begins
  <1> QED
    BY <1>1, <1>2, <1>3, <1>6, <1>7, <1>8, <1>9 DEF Begins, t

LEMMA BeginsBack ==
    ASSUME NEW d \in Day, NEW p, Begins(d, p), Len(p) > 1,
           NEW q, q = SubSeq(p, 1, Len(p) - 1)
    PROVE  /\ Begins(d, q) /\ Len(q) = Len(p) - 1 /\ Agree(p, q, Len(p) - 1)
           /\ p = Append(q, p[Len(p)]) /\ p[Len(p) - 1] = q[Len(q)] /\ q # <<>>
  <1> DEFINE n == Len(p)
  <1>0. n \in Nat /\ 1 < n /\ n <= Mid + 1 /\ Mid \in Nat /\ p \in Seq(Node)
    BY NodeFacts, LenProperties DEF Begins
  <1>1. q \in Seq(Node) /\ Len(q) = n - 1 /\ \A k \in 1..(n - 1) : q[k] = p[k]
    BY <1>0
  <1>2. Agree(p, q, Len(q)) /\ Agree(p, q, n - 1) /\ Len(q) <= Len(p) /\ q # <<>>
    <2>1. Agree(p, q, n - 1)
      BY <1>1, Zenon DEF Agree
    <2>2. n - 1 <= n /\ n - 1 # 0
      BY <1>0
    <2>3. q # <<>>
      BY <1>1, <2>2
    <2> QED
      BY <1>1, <2>1, <2>2, <2>3
  <1>3. Linked(d, q) /\ MealOrder(d, q)
    <2>1. Linked(d, p) /\ MealOrder(d, p)
      BY DEF Begins
    <2> QED
      BY <1>0, <1>1, <1>2, <2>1, LinkedPrefix, MealPrefix
  <1>4. \A k \in 2..(n - 1) : k \in 2..n /\ k \in 1..(n - 1)
    BY <1>0
  <1>5. 1 \in 1..(n - 1) /\ n - 1 \in 1..(n - 1) /\ n - 1 \in 1..(Mid + 1) /\ n \in 1..n
    BY <1>0
  <1>6. Begins(d, q)
    <2>1. q[1] = 0 /\ \A k \in 2..(n - 1) : q[k] \in Place
      BY <1>1, <1>4, <1>5 DEF Begins
    <2>2. \A k, l \in 2..(n - 1) : q[k] = q[l] => k = l
      BY <1>1, <1>4 DEF Begins
    <2> QED
      BY <1>1, <1>3, <1>5, <2>1, <2>2 DEF Begins
  <1>7. p = Append(q, p[n])
    <2> DEFINE t == Append(q, p[n])
    <2>0. p[n] \in Node
      BY <1>0, <1>5, ElementOfSeq
    <2>1. t \in Seq(Node) /\ Len(t) = n - 1 + 1 /\ t[n - 1 + 1] = p[n] /\ \A k \in 1..(n - 1) : t[k] = q[k]
      BY <1>1, <2>0, AppendProperties
    <2> HIDE DEF t
    <2>2. n - 1 + 1 = n /\ \A k \in 1..n : k \in 1..(n - 1) \/ k = n
      BY <1>0
    <2>3. Len(t) = n /\ \A k \in 1..n : t[k] = p[k]
      BY <1>1, <2>1, <2>2
    <2>4. t = p
      BY <1>0, <2>1, <2>3, SeqEqual
    <2> QED
      BY <2>4 DEF t
  <1> QED
    BY <1>1, <1>2, <1>5, <1>6, <1>7

\* The end of the day completes a path of all places.
LEMMA BeginsEnd ==
    ASSUME NEW d \in Day, NEW p, Begins(d, p), Len(p) = Mid + 1, Item(d, p[Len(p)], End) # NULL
    PROVE  /\ Append(p, End) \in Orders /\ Possible(d, Append(p, End))
           /\ Sums(d, Append(p, End)) = Plus(Sums(d, p), Item(d, p[Len(p)], End))
  <1> DEFINE t == Append(p, End)
             n == Mid + 1
  <1>0. n \in Nat /\ 1 <= n /\ Mid \in Nat /\ p \in Seq(Node) /\ p # <<>> /\ End \in Node /\ n + 1 = Mid + 2
    BY NodeFacts, LenProperties DEF Begins
  <1>1. t \in Seq(Node) /\ Len(t) = n + 1 /\ t[n + 1] = End /\ \A k \in 1..n : t[k] = p[k]
    BY <1>0, AppendProperties
  <1>2. Linked(d, t) /\ Sums(d, t) = Plus(Sums(d, p), Item(d, p[Len(p)], End))
    BY <1>0, SumsAppend DEF Begins
  <1>3. MealOrder(d, t)
    BY <1>0, NodeFacts, MealAppend DEF Begins
  <1>4. Possible(d, t)
    BY <1>2, <1>3 DEF Possible, Linked
  <1> HIDE DEF t
  <1>5. \A k \in 2..n : k \in 1..n
    BY <1>0
  <1>6. 1 \in 1..n
    BY <1>0
  <1>7. t[1] = 0 /\ \A k \in 2..n : t[k] = p[k] /\ t[k] \in Place
    BY <1>1, <1>5, <1>6 DEF Begins
  <1>8. \A k, l \in 2..n : t[k] = t[l] => k = l
    BY <1>7 DEF Begins
  <1>9. t \in [1..(Mid + 2) -> Node]
    BY <1>0, <1>1, LenProperties
  <1>10. t \in Orders
    BY <1>0, <1>1, <1>7, <1>8, <1>9 DEF Orders
  <1> QED
    BY <1>2, <1>4, <1>10 DEF t

\* What comes after p in a possible order is a place that can.
LEMMA NextNode ==
    ASSUME NEW d \in Day, NEW p, Begins(d, p), Len(p) <= Mid,
           NEW s \in Good(d), Agree(s, p, Len(p))
    PROVE  Follows(d, p, s[Len(p) + 1])
  <1> DEFINE n == Len(p)
             i == s[n + 1]
             t == Append(p, i)
  <1>0. n \in Nat /\ 1 <= n /\ n <= Mid /\ Mid \in Nat /\ p \in Seq(Node) /\ p # <<>>
    BY NodeFacts, LenProperties DEF Begins
  <1>1. /\ s \in Orders /\ s \in Seq(Node) /\ Len(s) = Mid + 2 /\ s # <<>>
        /\ Linked(d, s) /\ MealOrder(d, s)
        /\ \A k \in 2..(Mid + 1) : s[k] \in Place
        /\ \A k, l \in 2..(Mid + 1) : s[k] = s[l] => k = l
        /\ s[1] = 0
    BY GoodType, OrderType
  <1>2. n + 1 \in 2..(Mid + 1) /\ n \in 1..n /\ n + 1 \in 2..Len(s) /\ n + 1 - 1 = n /\ n + 1 <= Mid + 2
    BY <1>0, <1>1
  <1>3. \A k \in 1..n : s[k] = p[k]
    BY DEF Agree
  <1> HIDE DEF n
  <1>4. i \in Place /\ i \in Node
    BY <1>1, <1>2, NodeFacts
  <1>5. ASSUME NEW k \in 1..n PROVE p[k] # i
    <2>1. CASE k = 1
      BY <1>1, <1>3, <1>4, <2>1, NodeFacts
    <2>2. CASE k # 1
      <3>1. k \in 2..(Mid + 1) /\ k # n + 1
        BY <1>0, <2>2
      <3> QED
        BY <1>1, <1>2, <1>3, <3>1
    <2> QED
      BY <2>1, <2>2
  <1>6. Item(d, p[n], i) # NULL
    <2>1. Item(d, s[n + 1 - 1], s[n + 1]) # NULL
      BY <1>1, <1>2 DEF Linked
    <2> QED
      BY <1>2, <1>3, <2>1
  <1>7. IsRest(Types(d)[i]) => Serves(d, RestCount(d, p, n), Types(d)[i])
    <2>1. t \in Seq(Node) /\ Len(t) = n + 1 /\ t[n + 1] = i /\ \A k \in 1..n : t[k] = p[k]
      BY <1>0, <1>4, AppendProperties DEF n
    <2> HIDE DEF t
    <2>2. \A k \in 1..(n + 1) : k \in 1..n \/ k = n + 1
      BY <1>0
    <2>3. Agree(s, t, Len(t)) /\ Len(t) <= Len(s)
      BY <1>1, <1>2, <1>3, <2>1, <2>2 DEF Agree
    <2>4. MealOrder(d, t)
      BY <1>1, <2>1, <2>3, MealPrefix
    <2> QED
      BY <1>0, <1>4, <2>4, MealAppend DEF t, n
  <1> QED
    BY <1>4, <1>5, <1>6, <1>7 DEF Follows, n

\* A possible order that begins with all places of p ends there.
LEMMA LastNode ==
    ASSUME NEW d \in Day, NEW p, Begins(d, p), Len(p) = Mid + 1,
           NEW s \in Good(d), Agree(s, p, Len(p))
    PROVE  s = Append(p, End) /\ Item(d, p[Len(p)], End) # NULL
  <1> DEFINE t == Append(p, End)
             n == Mid + 1
  <1>0. n \in Nat /\ 1 <= n /\ Mid \in Nat /\ p \in Seq(Node) /\ End \in Node /\ n + 1 = Mid + 2
    BY NodeFacts DEF Begins
  <1>1. t \in Seq(Node) /\ Len(t) = n + 1 /\ t[n + 1] = End /\ \A k \in 1..n : t[k] = p[k]
    BY <1>0, AppendProperties
  <1>2. s \in Seq(Node) /\ Len(s) = n + 1 /\ s[n + 1] = End /\ Linked(d, s)
    BY <1>0, GoodType, OrderType
  <1>3. \A k \in 1..n : s[k] = p[k]
    BY DEF Agree
  <1> HIDE DEF t
  <1>4. \A k \in 1..(n + 1) : k \in 1..n \/ k = n + 1
    BY <1>0
  <1>5. s = t
    <2>1. \A k \in 1..Len(s) : s[k] = t[k]
      BY <1>1, <1>2, <1>3, <1>4
    <2> QED
      BY <1>1, <1>2, <2>1, SeqEqual
  <1>6. n + 1 \in 2..(n + 1) /\ n + 1 - 1 = n /\ n \in 1..n
    BY <1>0
  <1>7. Item(d, s[n + 1 - 1], s[n + 1]) # NULL
    BY <1>2, <1>6 DEF Linked
  <1> QED
    BY <1>2, <1>3, <1>5, <1>6, <1>7 DEF t


-----------------------------------------------------------------------------
(* The invariant of the search: its stack. *)

PathOK == Begins(day, path)

\* A loop that has called Search is at the node that comes next in the path, and
\* has noted the meals that were left before it.
FramesOK ==
    /\ Len(frames) <= Mid
    /\ dfsPc = "loop" => frames # <<>>
    /\ dfsPc = "done" => frames = <<>>
    /\ \A k \in 1..Len(frames) :
          k < Len(path) => /\ frames[k].idx = path[k + 1]
                           /\ frames[k].need = LeftMeals(day, RestCount(day, path, k))

\* Time is up as soon as m_sCnt goes over its limit with IsDFSTimeOut() true.
Clock == late <=> sCnt > CheckEvery

StackInv == DFSTypeOK /\ PathOK /\ FramesOK /\ Consistent /\ Clock

Frame == [idx : 1..End, need : SUBSET Meals]

LEMMA ConsistentIs ==
    Consistent <=>
        /\ [dist |-> totDist, non |-> nonWalk, walk |-> walkDist] = Sums(day, path)
        /\ need = LeftMeals(day, RestCount(day, path, Len(path)))
        /\ Len(frames) = Len(path) - (IF dfsPc = "loop" THEN 0 ELSE 1)
  BY DEF Consistent, LeftMeals, RestCount

\* What the proofs need to know of a state.
LEMMA StackFacts ==
    ASSUME StackInv
    PROVE  /\ day \in Day /\ path \in Seq(Node) /\ frames \in Seq(Frame) /\ path # <<>>
           /\ Len(path) \in Nat /\ 1 <= Len(path) /\ Len(path) <= Mid + 1 /\ Mid \in Nat
           /\ Len(frames) \in Nat /\ Len(frames) <= Mid
           /\ dfsPc = "loop" => Len(frames) = Len(path) /\ Len(frames) # 0
           /\ dfsPc # "loop" => Len(path) = Len(frames) + 1
           /\ \A k \in 1..Len(frames) : frames[k].idx \in 1..End /\ frames[k].need \in SUBSET Meals
           /\ sCnt \in Nat /\ CheckEvery \in Nat /\ Linked(day, path)
           /\ totDist \in Nat /\ nonWalk \in Nat /\ walkDist \in Nat
  <1>1. /\ day \in Day /\ path \in Seq(Node) /\ frames \in Seq(Frame)
        /\ sCnt \in Nat /\ CheckEvery \in Nat
        /\ totDist \in Nat /\ nonWalk \in Nat /\ walkDist \in Nat
    BY DayAssumption DEF StackInv, DFSTypeOK, Frame
  <1>2. Len(frames) \in Nat /\ \A k \in 1..Len(frames) : frames[k] \in Frame
    BY <1>1, LenProperties, ElementOfSeq
  <1>3. Len(path) \in 1..(Mid + 1) /\ Mid \in Nat /\ Linked(day, path)
    BY NodeFacts DEF StackInv, PathOK, Begins
  <1>4. Len(frames) <= Mid /\ (dfsPc = "loop" => frames # <<>>)
    BY DEF StackInv, FramesOK
  <1>5. Len(frames) = Len(path) - (IF dfsPc = "loop" THEN 0 ELSE 1)
    BY ConsistentIs DEF StackInv
  <1>6. frames # <<>> => Len(frames) # 0
    BY <1>1
  <1>7. path # <<>>
    BY <1>1, <1>3
  <1> QED
    BY <1>1, <1>2, <1>3, <1>4, <1>5, <1>6, <1>7 DEF Frame

LEMMA StackInit == DFSInit => StackInv
  <1> SUFFICES ASSUME DFSInit PROVE StackInv
    OBVIOUS
  <1>1. /\ day \in Day /\ need = BlockNeed(day) /\ path = <<0>>
        /\ totDist = 0 /\ nonWalk = 0 /\ walkDist = 0
        /\ frames = <<>> /\ sCnt = 0 /\ late = FALSE /\ dfsPc = "search"
    BY DEF DFSInit
  <1>2. Begins(day, path) /\ Sums(day, path) = NoSum /\ RestCount(day, path, 1) = 0
    BY <1>1, BeginsFirst
  <1>3. Len(path) = 1 /\ Len(frames) = 0
    BY <1>1
  <1>4. need = LeftMeals(day, 0) /\ need \in SUBSET Meals
    BY <1>1, MenuOrder
  <1>5. Consistent
    BY <1>1, <1>2, <1>3, <1>4, ConsistentIs DEF NoSum
  <1>6. FramesOK
    BY <1>1, <1>3, NodeFacts DEF FramesOK
  <1>7. DFSTypeOK
    <2>1. path \in Seq(Node)
      BY <1>2 DEF Begins
    <2>2. frames \in Seq([idx : 1..End, need : SUBSET Meals])
      BY <1>1, EmptySeq
    <2> QED
      BY <1>1, <1>4, <2>1, <2>2 DEF DFSTypeOK
  <1>8. Clock
    BY <1>1, DayAssumption DEF Clock
  <1> QED
    BY <1>2, <1>5, <1>6, <1>7, <1>8 DEF StackInv, PathOK

\* A step that leaves the stack alone and lets a call return.
LEMMA QuietStep ==
    ASSUME StackInv,
           day' = day, path' = path, need' = need, totals' = totals, frames' = frames,
           dfsPc # "loop", dfsPc' = "return" \/ (dfsPc' = "done" /\ frames = <<>>),
           sCnt' \in Nat, late' \in BOOLEAN, Clock'
    PROVE  StackInv'
  <1>1. DFSTypeOK'
    BY DEF StackInv, DFSTypeOK, totals
  <1>2. PathOK'
    BY DEF StackInv, PathOK
  <1>3. FramesOK'
    BY DEF StackInv, FramesOK
  <1>4. Consistent'
    BY DEF StackInv, Consistent, totals
  <1> QED
    BY <1>1, <1>2, <1>3, <1>4 DEF StackInv

LEMMA CountedClock ==
    ASSUME StackInv, Counted, late' = late
    PROVE  sCnt' \in Nat /\ late' \in BOOLEAN /\ ~late /\ Clock' /\ dfsPc = "search"
  <1>1. sCnt \in Nat /\ CheckEvery \in Nat
    BY StackFacts
  <1>2. late \in BOOLEAN /\ (late <=> sCnt > CheckEvery)
    BY DEF StackInv, DFSTypeOK, Clock
  <1>3. dfsPc = "search" /\ (sCnt + 1 > CheckEvery => ~late)
    BY DEF Counted
  <1>4. sCnt' = IF sCnt + 1 > CheckEvery THEN 0 ELSE sCnt + 1
    BY DEF Counted
  <1>5. ~late
    BY <1>1, <1>2, <1>3
  <1>6. sCnt' \in Nat /\ sCnt' <= CheckEvery
    BY <1>1, <1>4
  <1>7. Clock'
    BY <1>1, <1>5, <1>6 DEF Clock
  <1> QED
    BY <1>2, <1>3, <1>5, <1>6, <1>7

LEMMA GiveUpStack == ASSUME StackInv, GiveUp PROVE StackInv'
  <1>1. sCnt' \in Nat /\ late' \in BOOLEAN /\ Clock'
    <2>1. sCnt \in Nat /\ CheckEvery \in Nat
      BY StackFacts
    <2> QED
      BY <2>1 DEF GiveUp, Clock
  <1>2. /\ day' = day /\ path' = path /\ need' = need /\ totals' = totals /\ frames' = frames
        /\ dfsPc # "loop" /\ dfsPc' = "return"
    BY DEF GiveUp
  <1> QED
    BY <1>1, <1>2, QuietStep

LEMMA CompleteStack == ASSUME StackInv, Complete PROVE StackInv'
  <1>1. /\ Counted /\ late' = late /\ dfsPc' = "return"
        /\ day' = day /\ path' = path /\ need' = need /\ totals' = totals /\ frames' = frames
    BY DEF Complete
  <1>2. sCnt' \in Nat /\ late' \in BOOLEAN /\ Clock' /\ dfsPc # "loop"
    BY <1>1, CountedClock
  <1> QED
    BY <1>1, <1>2, QuietStep

LEMMA PruneStack == ASSUME StackInv, Prune PROVE StackInv'
  <1>1. /\ Counted /\ late' = late /\ dfsPc' = "return"
        /\ day' = day /\ path' = path /\ need' = need /\ totals' = totals /\ frames' = frames
    BY DEF Prune
  <1>2. sCnt' \in Nat /\ late' \in BOOLEAN /\ Clock' /\ dfsPc # "loop"
    BY <1>1, CountedClock
  <1> QED
    BY <1>1, <1>2, QuietStep

LEMMA DoneStack == ASSUME StackInv, Done PROVE StackInv'
  <1>1. sCnt' \in Nat /\ late' \in BOOLEAN /\ Clock'
    BY DEF Done, StackInv, DFSTypeOK, Clock
  <1>2. /\ day' = day /\ path' = path /\ need' = need /\ totals' = totals /\ frames' = frames
        /\ dfsPc # "loop" /\ dfsPc' = "done" /\ frames = <<>>
    BY DEF Done
  <1> QED
    BY <1>1, <1>2, QuietStep


\* The loop variable of the innermost loop moves on.
LEMMA NextIdxIs ==
    ASSUME frames \in Seq(Frame), Len(frames) # 0, Idx \in 1..Mid
    PROVE  LET n == Len(frames)
           IN /\ n \in Nat /\ n \in 1..n /\ NextIdx \in Seq(Frame) /\ Len(NextIdx) = n
              /\ NextIdx[n].idx = Idx + 1 /\ NextIdx[n].need = frames[n].need
              /\ \A k \in 1..n : k # n => NextIdx[k] = frames[k]
  <1> DEFINE n == Len(frames)
             f == [frames[n] EXCEPT !.idx = @ + 1]
  <1>1. n \in Nat /\ n \in 1..n
    BY LenProperties
  <1>2. frames[n] \in Frame
    BY <1>1, ElementOfSeq
  <1>3. Idx + 1 \in 1..End /\ Idx = frames[n].idx
    BY NodeFacts DEF Idx
  <1>4. f \in Frame /\ f.idx = Idx + 1 /\ f.need = frames[n].need
    BY <1>2, <1>3 DEF Frame
  <1> HIDE DEF f
  <1>5. NextIdx = [frames EXCEPT ![n] = f]
    BY DEF NextIdx, f
  <1>6. NextIdx \in Seq(Frame) /\ Len(NextIdx) = n /\ NextIdx[n] = f
        /\ \A k \in 1..n : k # n => NextIdx[k] = frames[k]
    BY <1>1, <1>4, <1>5
  <1> QED
    BY <1>1, <1>4, <1>6

LEMMA ExpandStack == ASSUME StackInv, Expand PROVE StackInv'
  <1> DEFINE n == Len(frames)
             f == [idx |-> 1, need |-> need]
  <1>1. /\ Counted /\ Len(path) <= Mid /\ frames' = Append(frames, f) /\ dfsPc' = "loop"
        /\ day' = day /\ path' = path /\ need' = need /\ late' = late
        /\ totDist' = totDist /\ nonWalk' = nonWalk /\ walkDist' = walkDist
    BY DEF Expand, totals
  <1>2. sCnt' \in Nat /\ late' \in BOOLEAN /\ Clock' /\ dfsPc = "search"
    BY <1>1, CountedClock
  <1>3. /\ n \in Nat /\ Len(path) = n + 1 /\ frames \in Seq(Frame) /\ need \in SUBSET Meals
        /\ Mid \in Nat
    BY <1>2, StackFacts DEF StackInv, DFSTypeOK
  <1>4. f \in Frame
    BY <1>3, NodeFacts DEF Frame
  <1> HIDE DEF f
  <1>5. /\ frames' \in Seq(Frame) /\ Len(frames') = n + 1 /\ frames' # <<>>
        /\ \A k \in 1..n : frames'[k] = frames[k]
    BY <1>1, <1>3, <1>4, AppendProperties
  <1> HIDE DEF n
  <1>6. \A k \in 1..(n + 1) : k < Len(path) => k \in 1..n
    BY <1>3
  <1>7. FramesOK'
    BY <1>1, <1>3, <1>5, <1>6 DEF StackInv, FramesOK, n
  <1>8. DFSTypeOK'
    BY <1>1, <1>2, <1>5 DEF StackInv, DFSTypeOK, Frame
  <1>9. Consistent'
    <2>1. Len(frames') = Len(path') - 0
      BY <1>1, <1>3, <1>5
    <2> QED
      BY <1>1, <2>1 DEF StackInv, Consistent
  <1>10. PathOK'
    BY <1>1 DEF StackInv, PathOK
  <1> QED
    BY <1>2, <1>7, <1>8, <1>9, <1>10 DEF StackInv

LEMMA SkipStack == ASSUME StackInv, Skip PROVE StackInv'
  <1> DEFINE n == Len(frames)
  <1>1. /\ dfsPc = "loop" /\ Idx <= Mid /\ frames' = NextIdx /\ dfsPc' = dfsPc
        /\ day' = day /\ path' = path /\ need' = need /\ late' = late /\ sCnt' = sCnt
        /\ totDist' = totDist /\ nonWalk' = nonWalk /\ walkDist' = walkDist
    BY DEF Skip, totals
  <1>2. n \in Nat /\ Len(path) = n /\ n # 0 /\ frames \in Seq(Frame) /\ Mid \in Nat
    BY <1>1, StackFacts
  <1>3. Idx \in 1..Mid
    <2>1. n \in 1..n
      BY <1>2
    <2>2. Idx \in 1..End
      BY <2>1, StackFacts DEF Idx
    <2> QED
      BY <1>1, <1>2, <2>2, NodeFacts
  <1>4. /\ frames' \in Seq(Frame) /\ Len(frames') = n
        /\ \A k \in 1..n : k # n => frames'[k] = frames[k]
    BY <1>1, <1>2, <1>3, NextIdxIs
  <1> HIDE DEF n
  <1>5. \A k \in 1..n : k < Len(path) => k # n
    BY <1>2
  <1>6. frames' # <<>>
    BY <1>2, <1>4
  <1>7. FramesOK'
    BY <1>1, <1>2, <1>4, <1>5, <1>6 DEF StackInv, FramesOK, n
  <1>8. DFSTypeOK'
    BY <1>1, <1>4 DEF StackInv, DFSTypeOK, Frame
  <1>9. Consistent'
    BY <1>1, <1>4 DEF StackInv, Consistent, n
  <1>10. PathOK' /\ Clock'
    BY <1>1 DEF StackInv, PathOK, Clock
  <1> QED
    BY <1>7, <1>8, <1>9, <1>10 DEF StackInv

LEMMA Front ==
    ASSUME NEW S, NEW f \in Seq(S), NEW g, g = SubSeq(f, 1, Len(f) - 1), Len(f) # 0
    PROVE  g \in Seq(S) /\ Len(g) = Len(f) - 1 /\ \A k \in 1..(Len(f) - 1) : g[k] = f[k]
  <1> DEFINE m == Len(f) - 1
  <1>0. m \in Nat
    BY LenProperties
  <1>1. m \in Int /\ 1 \in Int /\ \A k \in 1..m : k \in 1..Len(f) /\ 1 + k - 1 = k
    BY LenProperties
  <1>2. m - 1 + 1 = m /\ (IF 1 <= m THEN m - 1 + 1 ELSE 0) = m
    <2> HIDE DEF m
    <2>1. m = 0 \/ 1 <= m
      BY <1>0
    <2> QED
      BY <1>0, <2>1
  <1>3. \A k \in 1..m : f[k] \in S
    BY <1>1, ElementOfSeq
  <1> HIDE DEF m
  <1>4. /\ SubSeq(f, 1, m) \in Seq(S)
        /\ Len(SubSeq(f, 1, m)) = IF 1 <= m THEN m - 1 + 1 ELSE 0
        /\ \A k \in 1..(m - 1 + 1) : SubSeq(f, 1, m)[k] = f[1 + k - 1]
    BY <1>1, <1>3, SubSeqProperties
  <1>5. /\ g = SubSeq(f, 1, m) /\ g \in Seq(S) /\ Len(g) = m
    BY <1>2, <1>4 DEF m
  <1>6. \A k \in 1..m : g[k] = f[k]
    BY <1>1, <1>2, <1>4, <1>5
  <1> QED
    BY <1>5, <1>6 DEF m

LEMMA LoopEndStack == ASSUME StackInv, LoopEnd PROVE StackInv'
  <1> DEFINE n == Len(frames)
  <1>1. /\ dfsPc = "loop" /\ frames' = SubSeq(frames, 1, n - 1) /\ dfsPc' = "return"
        /\ day' = day /\ path' = path /\ need' = need /\ late' = late /\ sCnt' = sCnt
        /\ totDist' = totDist /\ nonWalk' = nonWalk /\ walkDist' = walkDist
    BY DEF LoopEnd, totals
  <1>2. n \in Nat /\ Len(path) = n /\ n # 0 /\ frames \in Seq(Frame) /\ Mid \in Nat /\ n <= Mid
    BY <1>1, StackFacts
  <1>3. /\ frames' \in Seq(Frame) /\ Len(frames') = n - 1
        /\ \A k \in 1..(n - 1) : frames'[k] = frames[k]
    BY <1>1, <1>2, Front
  <1> HIDE DEF n
  <1>4. \A k \in 1..(n - 1) : k \in 1..n
    BY <1>2
  <1>5. n - 1 <= Mid
    BY <1>2
  <1>7. FramesOK'
    BY <1>1, <1>3, <1>4, <1>5 DEF StackInv, FramesOK, n
  <1>8. DFSTypeOK'
    BY <1>1, <1>3 DEF StackInv, DFSTypeOK, Frame
  <1>9. Consistent'
    BY <1>1, <1>2, <1>3 DEF StackInv, Consistent
  <1>10. PathOK' /\ Clock'
    BY <1>1 DEF StackInv, PathOK, Clock
  <1> QED
    BY <1>7, <1>8, <1>9, <1>10 DEF StackInv


\* A longer path has the same restaurants as far as the old one goes.
LEMMA AppendRests ==
    ASSUME NEW d \in Day, NEW p \in Seq(Node), NEW i \in Node
    PROVE  /\ Append(p, i) \in Seq(Node) /\ Len(Append(p, i)) = Len(p) + 1 /\ Len(p) \in Nat
           /\ Append(p, i)[Len(p) + 1] = i /\ \A k \in 1..Len(p) : Append(p, i)[k] = p[k]
           /\ \A k \in 0..Len(p) : RestCount(d, Append(p, i), k) = RestCount(d, p, k)
           /\ RestCount(d, p, Len(p)) \in Nat
           /\ RestCount(d, Append(p, i), Len(p) + 1) =
                RestCount(d, p, Len(p)) + (IF i \in Place /\ IsRest(Types(d)[i]) THEN 1 ELSE 0)
  <1> DEFINE t == Append(p, i)
             n == Len(p)
  <1>1. /\ t \in Seq(Node) /\ Len(t) = n + 1 /\ t[n + 1] = i /\ n \in Nat
        /\ \A k \in 1..n : t[k] = p[k]
    BY AppendProperties, LenProperties
  <1> HIDE DEF t, n
  <1>2. Agree(t, p, n)
    BY <1>1 DEF Agree
  <1>3. \A k \in 0..n : RestCount(d, t, k) = RestCount(d, p, k)
    BY <1>1, <1>2, RestsAgree DEF RestCount
  <1>4. n \in 0..n
    BY <1>1
  <1>5. RestCount(d, p, n) \in Nat /\ RestCount(d, t, n) = RestCount(d, p, n)
    BY <1>1, <1>3, <1>4, RestsNext
  <1>6. RestCount(d, t, n + 1) = RestCount(d, t, n) + (IF t[n + 1] \in Place /\ IsRest(Types(d)[t[n + 1]]) THEN 1 ELSE 0)
    BY <1>1, RestsNext
  <1> QED
    BY <1>1, <1>3, <1>5, <1>6 DEF t, n

\* SearchView and SearchRest go on exactly where the order stays possible.
LEMMA CanVisitMeans ==
    ASSUME StackInv, NEW i \in Place
    PROVE  CanVisit(i) <=> Follows(day, path, i)
  <1> DEFINE c == RestCount(day, path, Len(path))
  <1>1. day \in Day /\ path \in Seq(Node) /\ Len(path) \in Nat
    BY StackFacts
  <1>2. c \in Nat /\ need = LeftMeals(day, c)
    BY <1>1, RestsNext, ConsistentIs DEF StackInv
  <1> HIDE DEF c
  <1>3. Serves(day, c, Types(day)[i]) <=>
            need # {} /\ IF "lunch" \in need THEN "lunch" \in Types(day)[i] ELSE "supper" \in Types(day)[i]
    BY <1>1, <1>2, ServesMeans
  <1> QED
    BY <1>3 DEF CanVisit, Follows, Here, c

LEMMA TotalsIs ==
    ASSUME NEW item \in Traffic, totDist \in Nat, nonWalk \in Nat, walkDist \in Nat, Totals(item, 1)
    PROVE  [dist |-> totDist', non |-> nonWalk', walk |-> walkDist'] =
              Plus([dist |-> totDist, non |-> nonWalk, walk |-> walkDist], item)
  <1>1. item.dist \in Nat /\ 1 * item.dist = item.dist
    BY DEF Traffic
  <1>2. totDist' = totDist + item.dist
    BY <1>1 DEF Totals
  <1>3. nonWalk' = nonWalk + (IF item.walk THEN 0 ELSE 1)
    BY DEF Totals
  <1>4. walkDist' = walkDist + (IF item.walk THEN item.dist ELSE 0)
    BY <1>1 DEF Totals
  <1> QED
    BY <1>2, <1>3, <1>4 DEF Plus

LEMMA DescendStack == ASSUME StackInv, Descend PROVE StackInv'
  <1> DEFINE n == Len(frames)
             i == Idx
             f == [frames[n] EXCEPT !.need = need]
             c == RestCount(day, path, n)
             item == Item(day, Here, i)
  <1>1. /\ dfsPc = "loop" /\ i <= Mid /\ CanVisit(i) /\ path' = Append(path, i)
        /\ frames' = [frames EXCEPT ![n].need = need]
        /\ need' = IF IsRest(Types(day)[i]) THEN need \ Meal ELSE need
        /\ Totals(item, 1) /\ dfsPc' = "search"
        /\ day' = day /\ sCnt' = sCnt /\ late' = late
    BY DEF Descend
  <1>2. /\ n \in Nat /\ Len(path) = n /\ n # 0 /\ frames \in Seq(Frame) /\ Mid \in Nat /\ n <= Mid
        /\ path \in Seq(Node) /\ path # <<>> /\ day \in Day /\ Linked(day, path)
        /\ totDist \in Nat /\ nonWalk \in Nat /\ walkDist \in Nat
    BY <1>1, StackFacts
  <1>3. n \in 1..n /\ frames[n] \in Frame /\ need \in SUBSET Meals
    BY <1>2, ElementOfSeq DEF StackInv, DFSTypeOK
  <1>4. i = frames[n].idx /\ i \in Place /\ i \in Node
    <2>1. i = frames[n].idx /\ i \in 1..End
      BY <1>3 DEF Idx, Frame
    <2> QED
      BY <1>1, <2>1, NodeFacts DEF Place
  <1>5. f \in Frame /\ f.idx = i /\ f.need = need
    BY <1>3, <1>4 DEF Frame
  <1> HIDE DEF f, i
  <1>6. /\ frames' \in Seq(Frame) /\ Len(frames') = n /\ frames'[n] = f
        /\ \A k \in 1..n : k # n => frames'[k] = frames[k]
    <2>1. frames' = [frames EXCEPT ![n] = f]
      BY <1>1 DEF f
    <2> QED
      BY <1>2, <1>3, <1>5, <2>1
  <1>7. Follows(day, path, i)
    BY <1>1, <1>4, CanVisitMeans
  <1>8. Begins(day, path')
    BY <1>1, <1>2, <1>7, BeginsStep DEF StackInv, PathOK
  <1>9. /\ path' \in Seq(Node) /\ Len(path') = n + 1 /\ path'[n + 1] = i
        /\ \A k \in 1..n : path'[k] = path[k]
        /\ \A k \in 0..n : RestCount(day, path', k) = RestCount(day, path, k)
        /\ c \in Nat
        /\ RestCount(day, path', n + 1) = c + (IF IsRest(Types(day)[i]) THEN 1 ELSE 0)
    BY <1>1, <1>2, <1>4, AppendRests
  <1>10. need = LeftMeals(day, c)
    BY <1>2, ConsistentIs DEF StackInv
  <1>11. need' = LeftMeals(day, RestCount(day, path', n + 1))
    <2> HIDE DEF c
    <2>1. CASE IsRest(Types(day)[i])
      <3>1. need # {}
        BY <1>1, <2>1 DEF CanVisit
      <3>2. LeftMeals(day, c + 1) = need \ Meal
        BY <1>2, <1>9, <1>10, <3>1, MenuOrder DEF Meal
      <3> QED
        BY <1>1, <1>9, <2>1, <3>2
    <2>2. CASE ~IsRest(Types(day)[i])
      <3>1. c + 0 = c
        BY <1>9
      <3> QED
        BY <1>1, <1>9, <1>10, <2>2, <3>1
    <2> QED
      BY <2>1, <2>2
  <1>12. [dist |-> totDist', non |-> nonWalk', walk |-> walkDist'] = Sums(day, path')
    <2>1. Here = path[Len(path)] /\ item # NULL
      BY <1>1 DEF Here, CanVisit
    <2>2. item \in Traffic /\ Sums(day, path') = Plus(Sums(day, path), item)
      BY <1>1, <1>2, <1>4, <2>1, SumsAppend
    <2>3. [dist |-> totDist, non |-> nonWalk, walk |-> walkDist] = Sums(day, path)
      BY ConsistentIs DEF StackInv
    <2> HIDE DEF item
    <2> QED
      BY <1>1, <1>2, <2>2, <2>3, TotalsIs
  <1>13. Consistent'
    <2>1. Len(frames') = Len(path') - 1
      BY <1>2, <1>6, <1>9
    <2>2. need' = LeftMeals(day, RestCount(day, path', Len(path')))
      BY <1>9, <1>11
    <2> QED
      BY <1>1, <1>12, <2>1, <2>2, ConsistentIs DEF Consistent, LeftMeals, RestCount
  <1>14. FramesOK'
    <2>1. ASSUME NEW k \in 1..n
          PROVE  frames'[k].idx = path'[k + 1] /\ frames'[k].need = LeftMeals(day, RestCount(day, path', k))
      <3>1. k \in 0..n /\ RestCount(day, path', k) = RestCount(day, path, k)
        BY <1>2, <1>9
      <3>2. CASE k = n
        BY <1>5, <1>6, <1>9, <1>10, <3>1, <3>2
      <3>3. CASE k # n
        <4>1. k + 1 \in 1..n /\ k < Len(path)
          BY <1>2, <3>3
        <4>2. frames'[k] = frames[k] /\ path'[k + 1] = path[k + 1]
          BY <1>6, <1>9, <3>3, <4>1
        <4> QED
          BY <3>1, <4>1, <4>2 DEF StackInv, FramesOK
      <3> QED
        BY <3>2, <3>3
    <2> QED
      BY <1>1, <1>2, <1>6, <2>1 DEF FramesOK
  <1>15. DFSTypeOK'
    <2>1. need' \in SUBSET Meals
      BY <1>1, <1>3
    <2>2. totDist' \in Nat /\ nonWalk' \in Nat /\ walkDist' \in Nat
      <3>1. Linked(day, path') /\ path' # <<>> /\ Len(path') \in Nat /\ Agree(path', path', Len(path'))
        BY <1>2, <1>8, <1>9 DEF Begins, Agree
      <3>2. Sums(day, path') \in Sum
        BY <1>2, <1>9, <3>1, SumsGrow
      <3> QED
        BY <1>12, <3>2 DEF Sum
    <2> QED
      BY <1>1, <1>6, <1>9, <2>1, <2>2 DEF StackInv, DFSTypeOK, Frame
  <1>16. PathOK' /\ Clock'
    BY <1>1, <1>8 DEF StackInv, PathOK, Clock
  <1> QED
    BY <1>13, <1>14, <1>15, <1>16 DEF StackInv


LEMMA TotalsBack ==
    ASSUME NEW item \in Traffic, NEW sum \in Sum, Totals(item, -1),
           [dist |-> totDist, non |-> nonWalk, walk |-> walkDist] = Plus(sum, item)
    PROVE  [dist |-> totDist', non |-> nonWalk', walk |-> walkDist'] = sum
  <1>1. item.dist \in Nat /\ (-1) * item.dist = -item.dist
    BY DEF Traffic
  <1>2. sum.dist \in Nat /\ sum.non \in Nat /\ sum.walk \in Nat
        /\ sum = [dist |-> sum.dist, non |-> sum.non, walk |-> sum.walk]
    BY DEF Sum
  <1>3. /\ totDist = sum.dist + item.dist
        /\ nonWalk = sum.non + (IF item.walk THEN 0 ELSE 1)
        /\ walkDist = sum.walk + (IF item.walk THEN item.dist ELSE 0)
    BY DEF Plus
  <1>4. totDist' = sum.dist
    BY <1>1, <1>2, <1>3 DEF Totals
  <1>5. nonWalk' = sum.non
    BY <1>2, <1>3 DEF Totals
  <1>6. walkDist' = sum.walk
    BY <1>1, <1>2, <1>3 DEF Totals
  <1> QED
    BY <1>2, <1>4, <1>5, <1>6

\* What Undo leaves.
LEMMA UndoFacts ==
    ASSUME StackInv, Undo
    PROVE  LET n == Len(frames)
           IN /\ n \in Nat /\ n # 0 /\ Len(path) = n + 1 /\ Len(path') = n
              /\ Begins(day, path') /\ path = Append(path', path[n + 1]) /\ Agree(path, path', n)
              /\ path[n] = path'[n] /\ path' # <<>>
              /\ Idx = path[n + 1] /\ Idx \in Place /\ Idx \in 1..Mid
              /\ frames' \in Seq(Frame) /\ Len(frames') = n
              /\ frames'[n].idx = Idx + 1 /\ \A k \in 1..n : k # n => frames'[k] = frames[k]
              /\ frames[n].need = LeftMeals(day, RestCount(day, path, n))
  <1> DEFINE n == Len(frames)
  <1>1. /\ dfsPc = "return" /\ frames # <<>> /\ path' = SubSeq(path, 1, Len(path) - 1)
        /\ frames' = NextIdx
    BY DEF Undo
  <1>2. /\ n \in Nat /\ Len(path) = n + 1 /\ frames \in Seq(Frame) /\ Mid \in Nat /\ n <= Mid
        /\ path \in Seq(Node) /\ day \in Day
    BY <1>1, StackFacts
  <1>3. n # 0 /\ n + 1 - 1 = n /\ n + 1 > 1 /\ n < n + 1
    BY <1>1, <1>2
  <1>4. /\ Begins(day, path') /\ Len(path') = n /\ Agree(path, path', n)
        /\ path = Append(path', path[n + 1]) /\ path[n] = path'[n] /\ path' # <<>>
    <2>1. Begins(day, path) /\ Len(path) > 1 /\ Len(path) - 1 = n
      BY <1>2, <1>3 DEF StackInv, PathOK
    <2>2. /\ Begins(day, path') /\ Len(path') = Len(path) - 1 /\ Agree(path, path', Len(path) - 1)
          /\ path = Append(path', path[Len(path)]) /\ path[Len(path) - 1] = path'[Len(path')]
          /\ path' # <<>>
      BY <1>1, <1>2, <2>1, BeginsBack
    <2> QED
      BY <1>2, <2>1, <2>2
  <1>5. n \in 1..n /\ n + 1 \in 2..(n + 1)
    BY <1>2, <1>3
  <1>6. /\ frames[n].idx = path[n + 1] /\ path[n + 1] \in Place
        /\ frames[n].need = LeftMeals(day, RestCount(day, path, n))
    BY <1>2, <1>3, <1>5 DEF StackInv, FramesOK, PathOK, Begins
  <1>7. Idx = path[n + 1] /\ Idx \in Place /\ Idx \in 1..Mid
    BY <1>6 DEF Idx, Place
  <1>8. /\ frames' \in Seq(Frame) /\ Len(frames') = n /\ frames'[n].idx = Idx + 1
        /\ \A k \in 1..n : k # n => frames'[k] = frames[k]
    BY <1>1, <1>2, <1>3, <1>7, NextIdxIs
  <1> QED
    BY <1>2, <1>3, <1>4, <1>6, <1>7, <1>8

LEMMA UndoStack == ASSUME StackInv, Undo PROVE StackInv'
  <1> DEFINE n == Len(frames)
             i == path[n + 1]
             item == Item(day, path[n], i)
  <1>1. /\ dfsPc = "return" /\ need' = frames[n].need /\ dfsPc' = "loop"
        /\ Totals(Item(day, path[Len(path) - 1], Here), -1)
        /\ day' = day /\ sCnt' = sCnt /\ late' = late
    BY DEF Undo
  <1>2. /\ n \in Nat /\ n # 0 /\ Len(path) = n + 1 /\ Len(path') = n
        /\ Begins(day, path') /\ path = Append(path', i) /\ Agree(path, path', n)
        /\ path[n] = path'[n] /\ path' # <<>> /\ i \in Place /\ i \in Node
        /\ frames' \in Seq(Frame) /\ Len(frames') = n
        /\ \A k \in 1..n : k # n => frames'[k] = frames[k]
        /\ frames[n].need = LeftMeals(day, RestCount(day, path, n))
    BY UndoFacts, NodeFacts
  <1>3. day \in Day /\ path' \in Seq(Node) /\ Linked(day, path') /\ Mid \in Nat /\ n <= Mid /\ Linked(day, path)
    BY <1>2, StackFacts DEF Begins
  <1> HIDE DEF n, i
  <1>4. \A k \in 0..n : RestCount(day, path, k) = RestCount(day, path', k)
    <2>1. \A k \in 0..n : RestCount(day, Append(path', i), k) = RestCount(day, path', k)
      BY <1>2, <1>3, AppendRests
    <2> QED
      BY <1>2, <2>1
  <1>5. n \in 0..n /\ n \in 1..n /\ n + 1 - 1 = n
    BY <1>2
  <1>6. need' = LeftMeals(day, RestCount(day, path', n)) /\ need' \in SUBSET Meals
    <2>1. RestCount(day, path', n) \in Nat
      BY <1>2, RestsNext
    <2> QED
      BY <1>1, <1>2, <1>3, <1>4, <1>5, <2>1, MenuOrder
  <1>7. [dist |-> totDist', non |-> nonWalk', walk |-> walkDist'] = Sums(day, path') /\ Sums(day, path') \in Sum
    <2>1. Totals(item, -1)
      BY <1>1, <1>2, <1>5 DEF Here, i
    <2>2. item # NULL
      <3>1. n + 1 \in 2..(n + 1)
        BY <1>2
      <3> QED
        BY <1>2, <1>3, <1>5, <3>1 DEF Linked, i
    <2>3. item = Item(day, path'[Len(path')], i)
      BY <1>2
    <2>4. /\ Sums(day, path') \in Sum /\ item \in Traffic
          /\ Sums(day, Append(path', i)) = Plus(Sums(day, path'), item)
      BY <1>2, <1>3, <2>2, <2>3, SumsAppend
    <2>5. [dist |-> totDist, non |-> nonWalk, walk |-> walkDist] = Sums(day, path)
      BY ConsistentIs DEF StackInv
    <2>6. [dist |-> totDist, non |-> nonWalk, walk |-> walkDist] = Plus(Sums(day, path'), item)
      BY <1>2, <2>4, <2>5
    <2> HIDE DEF item
    <2> QED
      BY <2>1, <2>4, <2>6, TotalsBack
  <1>8. Consistent'
    <2>1. Len(frames') = Len(path') - 0
      BY <1>2
    <2>2. need' = LeftMeals(day, RestCount(day, path', Len(path')))
      BY <1>2, <1>6
    <2> QED
      BY <1>1, <1>7, <2>1, <2>2 DEF Consistent, LeftMeals, RestCount
  <1>9. FramesOK'
    <2>1. ASSUME NEW k \in 1..n, k < n
          PROVE  frames'[k].idx = path'[k + 1] /\ frames'[k].need = LeftMeals(day, RestCount(day, path', k))
      <3>1. k \in 0..n /\ k + 1 \in 1..n /\ k < n + 1 /\ k # n
        BY <1>2, <2>1
      <3>2. frames'[k] = frames[k] /\ path'[k + 1] = path[k + 1]
        BY <1>2, <3>1 DEF Agree
      <3>3. frames[k].idx = path[k + 1] /\ frames[k].need = LeftMeals(day, RestCount(day, path, k))
        BY <1>2, <3>1 DEF StackInv, FramesOK, n
      <3> QED
        BY <1>4, <3>1, <3>2, <3>3
    <2>2. frames' # <<>>
      BY <1>2
    <2> QED
      BY <1>1, <1>2, <1>3, <2>1, <2>2 DEF FramesOK
  <1>10. DFSTypeOK'
    <2>1. totDist' \in Nat /\ nonWalk' \in Nat /\ walkDist' \in Nat
      BY <1>7 DEF Sum
    <2> QED
      BY <1>1, <1>2, <1>3, <1>6, <2>1 DEF StackInv, DFSTypeOK, Frame
  <1>11. PathOK' /\ Clock'
    BY <1>1, <1>2 DEF StackInv, PathOK, Clock
  <1> QED
    BY <1>8, <1>9, <1>10, <1>11 DEF StackInv

LEMMA StackStep == StackInv /\ [DFSNext]_dfsVars => StackInv'
  <1> SUFFICES ASSUME StackInv, [DFSNext]_dfsVars PROVE StackInv'
    OBVIOUS
  <1>1. CASE UNCHANGED dfsVars
    BY <1>1 DEF dfsVars, totals, StackInv, DFSTypeOK, PathOK, FramesOK, Consistent, Clock
  <1>2. CASE Search
    BY <1>2, GiveUpStack, CompleteStack, PruneStack, ExpandStack, SkipStack, DescendStack,
       LoopEndStack, UndoStack, DoneStack DEF Search
  <1> QED
    BY <1>1, <1>2 DEF DFSNext

LEMMA StackAlways == DFSSpec => []StackInv
  BY StackInit, StackStep, PTL DEF DFSSpec

\* The variables of DFS keep their types: an idx never leaves the places and
\* the totals never go below 0, however much of the path is undone.
THEOREM DFSTypes == DFSSpec => []DFSTypeOK
  <1>1. StackInv => DFSTypeOK
    BY DEF StackInv
  <1> QED
    BY <1>1, StackAlways, PTL

\* Consistent of every day: SearchView and SearchRest undo exactly what they
\* did, so that the totals, the meals left and the loops are those of m_path.
THEOREM DFSConsistent == DFSSpec => []Consistent
  <1>1. StackInv => Consistent
    BY DEF StackInv
  <1> QED
    BY <1>1, StackAlways, PTL



-----------------------------------------------------------------------------
(* The invariant of the search: the heap. *)

\* Order s is behind the search: a loop is past it, or it begins with a path
\* whose call of Search is over.
Passed(s) ==
    \/ \E k \in 1..Len(frames) : Agree(s, path, k) /\ s[k + 1] < frames[k].idx
    \/ dfsPc \in {"return", "done"} /\ Agree(s, path, Len(path))

\* The path of order s is in m_heap, or behind it.
KeptPath(s) == Kept(Self(AllPaths(day)), heap.q, day.topK, Judge(day, s))

HeapInv == Stored(AllPaths(day), Self(AllPaths(day)), heap, day.topK, AllPaths(day))

\* Nothing that is behind the search is lost, unless time is up.
NothingLost == ~late => \A s \in Good(day) : Passed(s) => KeptPath(s)

SearchInv == StackInv /\ HeapInv /\ NothingLost

LEMMA GoodPlaces ==
    ASSUME NEW d \in Day, NEW s \in Good(d)
    PROVE  /\ \A k \in 2..(Mid + 1) : s[k] \in Place
           /\ \A k \in 2..(Mid + 1) : s[k] \in Nat /\ 1 <= s[k] /\ s[k] <= Mid
  BY GoodType, OrderType, NodeFacts

LEMMA SearchInit == ASSUME DFSInit PROVE SearchInv
  <1>1. /\ day \in Day /\ path = <<0>> /\ frames = <<>> /\ heap = EmptyHeap /\ dfsPc = "search"
    BY DEF DFSInit
  <1>2. HeapInv
    <2>1. day.topK \in Nat
      BY <1>1, PathsStand
    <2>2. HeapOf(AllPaths(day), heap, day.topK)
      BY <1>1, <2>1, EmptyHeapOf
    <2>3. heap.q = {} /\ heap.hashes = {}
      BY <1>1 DEF EmptyHeap
    <2> QED
      BY <2>2, <2>3 DEF HeapInv, Stored
  <1>3. \A s : ~Passed(s)
    <2>1. 1..Len(frames) = {}
      BY <1>1
    <2> QED
      BY <1>1, <2>1 DEF Passed
  <1> QED
    BY <1>2, <1>3, StackInit DEF SearchInv, NothingLost

\* A step that leaves m_heap alone and passes nothing new.
LEMMA SameHeap ==
    ASSUME SearchInv, day' = day, heap' = heap, late' = late,
           ASSUME ~late, NEW s \in Good(day), Passed(s)', ~Passed(s) PROVE KeptPath(s)
    PROVE  HeapInv' /\ NothingLost'
  <1>1. HeapInv'
    BY DEF SearchInv, HeapInv
  <1>2. ASSUME ~late', NEW s \in Good(day'), Passed(s)' PROVE KeptPath(s)'
    <2>1. s \in Good(day) /\ ~late
      BY <1>2
    <2>2. KeptPath(s)
      BY <1>2, <2>1 DEF SearchInv, NothingLost
    <2> QED
      BY <2>2 DEF KeptPath
  <1> QED
    BY <1>1, <1>2 DEF NothingLost

LEMMA GiveUpHeap == ASSUME SearchInv, GiveUp PROVE HeapInv' /\ NothingLost'
  BY DEF GiveUp, SearchInv, HeapInv, NothingLost

LEMMA DoneHeap == ASSUME SearchInv, Done PROVE HeapInv' /\ NothingLost'
  <1>1. day' = day /\ heap' = heap /\ late' = late /\ path' = path /\ frames' = frames /\ dfsPc = "return"
    BY DEF Done
  <1>2. \A s : Passed(s)' => Passed(s)
    BY <1>1 DEF Passed
  <1> QED
    BY <1>1, <1>2, SameHeap

LEMMA ExpandHeap == ASSUME SearchInv, Expand PROVE HeapInv' /\ NothingLost'
  <1> DEFINE n == Len(frames)
             f == [idx |-> 1, need |-> need]
  <1>1. /\ dfsPc = "search" /\ Len(path) <= Mid /\ frames' = Append(frames, f) /\ dfsPc' = "loop"
        /\ day' = day /\ path' = path /\ late' = late /\ heap' = heap
    BY DEF Expand, Counted
  <1>2. n \in Nat /\ Len(path) = n + 1 /\ frames \in Seq(Frame) /\ Mid \in Nat /\ day \in Day
    BY <1>1, StackFacts DEF SearchInv
  <1>3. f \in Frame
    BY NodeFacts DEF SearchInv, StackInv, DFSTypeOK, Frame
  <1>4. /\ Len(frames') = n + 1 /\ frames'[n + 1] = f /\ \A k \in 1..n : frames'[k] = frames[k]
    BY <1>1, <1>2, <1>3, AppendProperties
  <1>5. f.idx = 1
    OBVIOUS
  <1> HIDE DEF n, f
  <1>6. ASSUME NEW s \in Good(day), Passed(s)' PROVE Passed(s)
    <2>1. PICK k \in 1..(n + 1) : Agree(s, path, k) /\ s[k + 1] < frames'[k].idx
      BY <1>1, <1>4, <1>6 DEF Passed
    <2>2. CASE k \in 1..n
      <3>1. frames'[k] = frames[k]
        BY <1>4, <2>2
      <3> QED
        BY <2>1, <2>2, <3>1 DEF Passed, n
    <2>3. CASE k = n + 1
      <3>1. frames'[k].idx = 1 /\ k + 1 \in 2..(Mid + 1)
        BY <1>1, <1>2, <1>4, <1>5, <2>3
      <3>2. s[k + 1] \in Nat /\ 1 <= s[k + 1]
        BY <1>2, <3>1, GoodPlaces
      <3> QED
        BY <2>1, <3>1, <3>2
    <2> QED
      BY <1>2, <2>2, <2>3
  <1> QED
    BY <1>1, <1>6, SameHeap

LEMMA SkipHeap == ASSUME SearchInv, Skip PROVE HeapInv' /\ NothingLost'
  <1> DEFINE n == Len(frames)
  <1>1. /\ dfsPc = "loop" /\ Idx <= Mid /\ ~CanVisit(Idx) /\ frames' = NextIdx /\ dfsPc' = dfsPc
        /\ day' = day /\ path' = path /\ late' = late /\ heap' = heap
    BY DEF Skip
  <1>2. /\ n \in Nat /\ n # 0 /\ Len(path) = n /\ n <= Mid /\ frames \in Seq(Frame) /\ Mid \in Nat
        /\ day \in Day /\ StackInv
    BY <1>1, StackFacts DEF SearchInv
  <1>3. n \in 1..n /\ Idx = frames[n].idx /\ Idx \in 1..End
    BY <1>2, StackFacts DEF Idx
  <1>4. Idx \in 1..Mid /\ Idx \in Place /\ Idx \in Nat
    BY <1>1, <1>2, <1>3, NodeFacts DEF Place
  <1>5. Len(frames') = n /\ frames'[n].idx = Idx + 1 /\ \A k \in 1..n : k # n => frames'[k] = frames[k]
    BY <1>1, <1>2, <1>4, NextIdxIs
  <1> HIDE DEF n
  <1>6. ASSUME NEW s \in Good(day), Passed(s)' PROVE Passed(s)
    <2>1. PICK k \in 1..n : Agree(s, path, k) /\ s[k + 1] < frames'[k].idx
      BY <1>1, <1>5, <1>6 DEF Passed
    <2>2. CASE k # n
      <3>1. frames'[k] = frames[k]
        BY <1>5, <2>2
      <3> QED
        BY <2>1, <3>1 DEF Passed, n
    <2>3. CASE k = n
      <3>1. Follows(day, path, s[n + 1])
        BY <1>2, <2>1, <2>3, NextNode DEF StackInv, PathOK
      <3>2. s[n + 1] # Idx
        BY <1>1, <1>2, <1>4, <3>1, CanVisitMeans
      <3>3. s[n + 1] \in Nat
        BY <3>1, NodeFacts DEF Follows
      <3>4. s[n + 1] < Idx
        BY <1>4, <1>5, <2>1, <2>3, <3>2, <3>3
      <3> QED
        BY <1>3, <2>1, <2>3, <3>4 DEF Passed, n
    <2> QED
      BY <2>2, <2>3
  <1> QED
    BY <1>1, <1>6, SameHeap

LEMMA DescendHeap == ASSUME SearchInv, Descend PROVE HeapInv' /\ NothingLost'
  <1> DEFINE n == Len(frames)
             i == Idx
             f == [frames[n] EXCEPT !.need = need]
  <1>1. /\ dfsPc = "loop" /\ path' = Append(path, i) /\ i <= Mid
        /\ frames' = [frames EXCEPT ![n].need = need]
        /\ day' = day /\ dfsPc' = "search" /\ late' = late /\ heap' = heap
    BY DEF Descend
  <1>2. /\ n \in Nat /\ n # 0 /\ Len(path) = n /\ frames \in Seq(Frame) /\ path \in Seq(Node)
    BY <1>1, StackFacts DEF SearchInv
  <1>3. n \in 1..n /\ frames[n] \in Frame
    BY <1>2, ElementOfSeq
  <1>4. i \in Node
    <2>1. i \in 1..End
      BY <1>3 DEF Frame, Idx
    <2> QED
      BY <2>1, NodeFacts DEF Node
  <1>5. f.idx = frames[n].idx
    BY <1>3 DEF Frame
  <1> HIDE DEF f, i
  <1>6. Len(frames') = n /\ \A k \in 1..n : frames'[k].idx = frames[k].idx
    <2>1. frames' = [frames EXCEPT ![n] = f]
      BY <1>1 DEF f
    <2>2. Len(frames') = n /\ frames'[n] = f /\ \A k \in 1..n : k # n => frames'[k] = frames[k]
      BY <1>2, <1>3, <2>1
    <2> QED
      BY <1>5, <2>2
  <1>7. \A k \in 1..n : path'[k] = path[k]
    BY <1>1, <1>2, <1>4, AppendProperties
  <1> HIDE DEF n
  <1>8. ASSUME NEW s \in Good(day), Passed(s)' PROVE Passed(s)
    <2>1. PICK k \in 1..n : Agree(s, path', k) /\ s[k + 1] < frames'[k].idx
      BY <1>1, <1>6, <1>8 DEF Passed
    <2>2. \A l \in 1..k : l \in 1..n
      BY <1>2
    <2>3. Agree(s, path, k)
      BY <1>7, <2>1, <2>2 DEF Agree
    <2> QED
      BY <1>6, <2>1, <2>3 DEF Passed, n
  <1> QED
    BY <1>1, <1>8, SameHeap

LEMMA LoopEndHeap == ASSUME SearchInv, LoopEnd PROVE HeapInv' /\ NothingLost'
  <1> DEFINE n == Len(frames)
  <1>1. /\ dfsPc = "loop" /\ Idx > Mid /\ frames' = SubSeq(frames, 1, n - 1) /\ dfsPc' = "return"
        /\ day' = day /\ path' = path /\ late' = late /\ heap' = heap
    BY DEF LoopEnd
  <1>2. /\ n \in Nat /\ n # 0 /\ Len(path) = n /\ n <= Mid /\ frames \in Seq(Frame) /\ Mid \in Nat
        /\ day \in Day
    BY <1>1, StackFacts DEF SearchInv
  <1>3. Len(frames') = n - 1 /\ \A k \in 1..(n - 1) : frames'[k] = frames[k]
    BY <1>1, <1>2, Front
  <1>4. n \in 1..n /\ Idx = frames[n].idx /\ Idx \in 1..End
    BY <1>2, StackFacts DEF Idx, SearchInv
  <1>5. Idx \in Nat /\ n + 1 \in 2..(Mid + 1) /\ \A k \in 1..(n - 1) : k \in 1..n
    BY <1>2, <1>4
  <1> HIDE DEF n
  <1>6. ASSUME NEW s \in Good(day), Passed(s)' PROVE Passed(s)
    <2>1. CASE \E k \in 1..(n - 1) : Agree(s, path, k) /\ s[k + 1] < frames'[k].idx
      BY <1>3, <1>5, <2>1 DEF Passed, n
    <2>2. CASE Agree(s, path, n)
      <3>1. s[n + 1] \in Nat /\ s[n + 1] <= Mid
        BY <1>2, <1>5, GoodPlaces
      <3>2. s[n + 1] < Idx
        BY <1>1, <1>2, <1>5, <3>1
      <3> QED
        BY <1>4, <2>2, <3>2 DEF Passed, n
    <2> QED
      BY <1>1, <1>2, <1>3, <1>6, <2>1, <2>2 DEF Passed
  <1> QED
    BY <1>1, <1>6, SameHeap

LEMMA UndoHeap == ASSUME SearchInv, Undo PROVE HeapInv' /\ NothingLost'
  <1> DEFINE n == Len(frames)
  <1>1. /\ dfsPc = "return" /\ dfsPc' = "loop" /\ day' = day /\ late' = late /\ heap' = heap
    BY DEF Undo
  <1>2. /\ n \in Nat /\ n # 0 /\ Len(path) = n + 1 /\ Agree(path, path', n)
        /\ Idx = path[n + 1] /\ Idx \in 1..Mid /\ Len(frames') = n /\ frames'[n].idx = Idx + 1
        /\ \A k \in 1..n : k # n => frames'[k] = frames[k]
    BY UndoFacts DEF SearchInv
  <1>3. day \in Day /\ Mid \in Nat /\ n <= Mid /\ Idx = frames[n].idx
    BY StackFacts DEF SearchInv, Idx
  <1> HIDE DEF n
  <1>4. ASSUME NEW s \in Good(day), Passed(s)' PROVE Passed(s)
    <2>1. PICK k \in 1..n : Agree(s, path', k) /\ s[k + 1] < frames'[k].idx
      BY <1>1, <1>2, <1>4 DEF Passed
    <2>2. \A l \in 1..k : l \in 1..n
      BY <1>2
    <2>3. Agree(s, path, k)
      BY <1>2, <2>1, <2>2 DEF Agree
    <2>4. CASE k # n
      BY <1>2, <2>1, <2>3, <2>4 DEF Passed, n
    <2>5. CASE k = n
      <3>1. n + 1 \in 2..(Mid + 1)
        BY <1>2, <1>3
      <3>2. s[n + 1] \in Nat
        BY <1>3, <3>1, GoodPlaces
      <3>3. s[n + 1] < Idx \/ s[n + 1] = Idx
        BY <1>2, <2>1, <2>5, <3>2
      <3>4. CASE s[n + 1] < Idx
        BY <1>3, <2>3, <2>5, <3>4 DEF Passed, n
      <3>5. CASE s[n + 1] = Idx
        <4>1. \A l \in 1..(n + 1) : l \in 1..n \/ l = n + 1
          BY <1>2
        <4>2. Agree(s, path, n + 1)
          BY <1>2, <2>3, <2>5, <3>5, <4>1 DEF Agree
        <4> QED
          BY <1>1, <1>2, <4>2 DEF Passed
      <3> QED
        BY <3>3, <3>4, <3>5
    <2> QED
      BY <2>4, <2>5
  <1> QED
    BY <1>1, <1>4, SameHeap


\* Prune: what begins with the path would get no better score, and CanPush
\* turns away what is worse than all of a full heap.
LEMMA PruneHeap == ASSUME SearchInv, Prune PROVE HeapInv' /\ NothingLost'
  <1> DEFINE P == AllPaths(day)
             sum == Sums(day, path)
             score == GetScore(sum.dist, sum.non, sum.walk, 0)
  <1>1. /\ Len(path) <= Mid /\ dfsPc' = "return" /\ dfsPc = "search"
        /\ ~CanPush(heap, day.topK, GetScore(totDist, nonWalk, walkDist, 0), 0, 0)
        /\ day' = day /\ path' = path /\ frames' = frames /\ late' = late /\ heap' = heap
    BY DEF Prune, Counted
  <1>2. /\ day \in Day /\ path \in Seq(Node) /\ path # <<>> /\ Len(path) \in Nat
        /\ Mid \in Nat /\ HeapOf(P, heap, day.topK)
    BY StackFacts DEF SearchInv, HeapInv, Stored
  <1>3. score = GetScore(totDist, nonWalk, walkDist, 0)
    <2>1. sum = [dist |-> totDist, non |-> nonWalk, walk |-> walkDist]
      BY ConsistentIs DEF SearchInv, StackInv
    <2>2. sum.dist = totDist /\ sum.non = nonWalk /\ sum.walk = walkDist
      BY <2>1
    <2> QED
      BY <2>2
  <1>4. ASSUME NEW s \in Good(day), Agree(s, path, Len(path)) PROVE KeptPath(s)
    <2> DEFINE p == Judge(day, s)
               all == Sums(day, s)
               f == CalClash(day, s).firstL
    <2>1. s \in Seq(Node) /\ Len(s) = Mid + 2 /\ Linked(day, s) /\ p \in P
      BY <1>2, GoodType
    <2>2. Len(path) <= Len(s)
      BY <1>1, <1>2, <2>1
    <2>3. /\ sum \in Sum /\ all \in Sum
          /\ sum.dist <= all.dist /\ sum.non <= all.non /\ sum.walk <= all.walk
      BY <1>2, <1>4, <2>1, <2>2, SumsGrow
    <2>4. f \in {0, 1} /\ p.score = GetScore(all.dist, all.non, all.walk, f)
      BY <1>2, JudgeType
    <2> HIDE DEF sum, all, f
    <2>5. score \in Int /\ GetScore(all.dist, all.non, all.walk, f) <= score
      BY <2>3, <2>4, ScoreFalls
    <2> HIDE DEF p, score
    <2>6. Stands(P, P, Self(P)) /\ day.topK \in Nat \ {0} /\ Self(P)[p] = p
      BY <1>2, <2>1, PathsStand
    <2>7. p.score <= score /\ ~CanPush(heap, day.topK, score, 0, 0)
      BY <1>1, <1>3, <2>4, <2>5
    <2> HIDE DEF P
    <2>8. Kept(Self(P), heap.q, day.topK, Self(P)[p])
      BY <1>2, <2>1, <2>5, <2>6, <2>7, TurnedAwayKept
    <2> QED
      BY <2>6, <2>8 DEF KeptPath, P, p
  <1>5. ASSUME NEW s \in Good(day), Passed(s)', ~Passed(s) PROVE Agree(s, path, Len(path))
    BY <1>1, <1>5 DEF Passed
  <1> QED
    BY <1>1, <1>4, <1>5, SameHeap

\* Complete: PushPath pushes the path of the whole order, with its score.
LEMMA CompletePath ==
    ASSUME SearchInv, Complete, NEW t, t = Append(path, End), Item(day, Here, End) # NULL,
           ~CalClash(day, t).fail
    PROVE  /\ t \in Good(day) /\ Judge(day, t) \in AllPaths(day)
           /\ LET item == Item(day, Here, End)
                  non == nonWalk + (IF item.walk THEN 0 ELSE 1)
                  walk == walkDist + (IF item.walk THEN item.dist ELSE 0)
                  score == GetScore(totDist + item.dist, non, walk, 0)
              IN /\ SPath(day, path \o <<End>>, totDist + item.dist, non, walk) = Judge(day, t)
                 /\ score \in Int /\ Judge(day, t).score <= score
  <1> DEFINE item == Item(day, Here, End)
             non == nonWalk + (IF item.walk THEN 0 ELSE 1)
             walk == walkDist + (IF item.walk THEN item.dist ELSE 0)
             all == Sums(day, t)
             f == CalClash(day, t).firstL
  <1>1. day \in Day /\ path \in Seq(Node) /\ Len(path) = Mid + 1 /\ Begins(day, path) /\ End \in Node
    BY StackFacts, NodeFacts DEF SearchInv, StackInv, PathOK, Complete
  <1>2. /\ t \in Orders /\ Possible(day, t) /\ all = Plus(Sums(day, path), item)
    BY <1>1, BeginsEnd DEF Here
  <1>3. t \in Good(day)
    BY <1>2 DEF Good
  <1>4. Judge(day, t) \in AllPaths(day)
    BY <1>3 DEF AllPaths
  <1>5. t = path \o <<End>>
    BY <1>1, AppendIsConcat
  <1>6. all.dist = totDist + item.dist /\ all.non = non /\ all.walk = walk
    <2>1. Sums(day, path) = [dist |-> totDist, non |-> nonWalk, walk |-> walkDist]
      BY ConsistentIs DEF SearchInv, StackInv
    <2> HIDE DEF item
    <2> QED
      BY <1>2, <2>1 DEF Plus
  <1>7. /\ all \in Sum /\ f \in {0, 1}
        /\ Judge(day, t).score = GetScore(all.dist, all.non, all.walk, f)
    BY <1>1, <1>3, JudgeType
  <1>8. Judge(day, t) = SPath(day, t, all.dist, all.non, all.walk)
    BY DEF Judge
  <1> HIDE DEF item, non, walk, all, f
  <1>9. all.dist <= all.dist /\ all.non <= all.non /\ all.walk <= all.walk
    BY <1>7 DEF Sum
  <1>10. /\ GetScore(all.dist, all.non, all.walk, 0) \in Int
         /\ GetScore(all.dist, all.non, all.walk, f) <= GetScore(all.dist, all.non, all.walk, 0)
    BY <1>7, <1>9, ScoreFalls
  <1> QED
    BY <1>3, <1>4, <1>5, <1>6, <1>7, <1>8, <1>10 DEF item, non, walk

LEMMA CompleteHeap == ASSUME SearchInv, Complete PROVE HeapInv' /\ NothingLost'
  <1> DEFINE P == AllPaths(day)
             t == Append(path, End)
             p == Judge(day, t)
             item == Item(day, Here, End)
             non == nonWalk + (IF item.walk THEN 0 ELSE 1)
             walk == walkDist + (IF item.walk THEN item.dist ELSE 0)
             score == GetScore(totDist + item.dist, non, walk, 0)
             Takes == item # NULL /\ ~CalClash(day, t).fail
             Lets == CanPush(heap, day.topK, score, 0, 0)
  <1>1. /\ Len(path) = Mid + 1 /\ dfsPc' = "return" /\ dfsPc = "search"
        /\ day' = day /\ path' = path /\ frames' = frames /\ late' = late
    BY DEF Complete, Counted
  <1>2. /\ day \in Day /\ path \in Seq(Node) /\ Begins(day, path) /\ End \in Node
        /\ HeapOf(P, heap, day.topK) /\ Stored(P, Self(P), heap, day.topK, P)
    BY StackFacts, NodeFacts DEF SearchInv, StackInv, PathOK, HeapInv, Stored
  <1>3. t = path \o <<End>>
    BY <1>2, AppendIsConcat
  <1>4. heap' = IF Takes /\ Lets
                THEN Push(heap, day.topK, SPath(day, path \o <<End>>, totDist + item.dist, non, walk))
                ELSE heap
    BY <1>3 DEF Complete
  <1>5. Takes => /\ p \in P /\ SPath(day, path \o <<End>>, totDist + item.dist, non, walk) = p
                 /\ score \in Int /\ p.score <= score
    BY CompletePath
  <1>6. /\ Stands(P, P, Self(P)) /\ day.topK \in Nat \ {0} /\ Distinct(P)
        /\ \A r \in P : Self(P)[r] = r
    BY <1>2, PathsStand DEF Distinct
  <1>7. ASSUME NEW s \in Good(day), Passed(s)', ~Passed(s) PROVE s = t /\ Takes
    <2>1. Agree(s, path, Len(path))
      BY <1>1, <1>7 DEF Passed
    <2>2. s = t /\ item # NULL
      BY <1>1, <1>2, <2>1, LastNode DEF Here
    <2>3. ~CalClash(day, s).fail
      BY DEF Good
    <2> QED
      BY <2>2, <2>3
  <1> HIDE DEF P, t, p, item, non, walk, score, Takes, Lets
  <1>8. CASE Takes /\ Lets
    <2>1. heap' = Push(heap, day.topK, p) /\ p \in P /\ Self(P)[p] = p
      BY <1>4, <1>5, <1>6, <1>8
    <2>2. P \in SUBSET P
      OBVIOUS
    <2>3. Kept(Self(P), heap'.q, day.topK, p) /\ Stored(P, Self(P), heap', day.topK, P)
      BY <1>2, <1>6, <2>1, <2>2, PushIsKept
    <2>4. ASSUME ~late, NEW s \in Good(day), Passed(s)' PROVE Kept(Self(P), heap'.q, day.topK, Judge(day, s))
      <3>1. CASE Passed(s)
        <4>1. Judge(day, s) \in P
          BY <1>2, GoodType DEF P
        <4>2. Kept(Self(P), heap.q, day.topK, Judge(day, s))
          BY <2>4, <3>1 DEF SearchInv, NothingLost, KeptPath, P
        <4> QED
          BY <1>2, <1>6, <2>1, <4>1, <4>2, PushStillKept
      <3>2. CASE ~Passed(s)
        BY <1>7, <2>3, <2>4, <3>2 DEF p
      <3> QED
        BY <3>1, <3>2
    <2>5. NothingLost'
      BY <1>1, <2>4 DEF NothingLost, KeptPath, P
    <2>6. HeapInv'
      BY <1>1, <2>3 DEF HeapInv, P
    <2> QED
      BY <2>5, <2>6
  <1>9. CASE ~(Takes /\ Lets)
    <2>1. heap' = heap
      BY <1>4, <1>9
    <2>2. ASSUME NEW s \in Good(day), Passed(s)', ~Passed(s) PROVE KeptPath(s)
      <3>1. s = t /\ Takes /\ ~Lets
        BY <1>7, <1>9, <2>2
      <3>2. p \in P /\ score \in Int /\ p.score <= score /\ Self(P)[p] = p
        BY <1>5, <1>6, <3>1
      <3>3. ~CanPush(heap, day.topK, score, 0, 0)
        BY <3>1 DEF Lets
      <3>4. Kept(Self(P), heap.q, day.topK, Self(P)[p])
        BY <1>2, <1>6, <3>2, <3>3, TurnedAwayKept
      <3> QED
        BY <3>1, <3>2, <3>4 DEF KeptPath, P, p
    <2> QED
      BY <1>1, <2>1, <2>2, SameHeap
  <1> QED
    BY <1>8, <1>9

LEMMA SearchStep == SearchInv /\ [DFSNext]_dfsVars => SearchInv'
  <1> SUFFICES ASSUME SearchInv, [DFSNext]_dfsVars PROVE SearchInv'
    OBVIOUS
  <1>1. StackInv'
    BY StackStep DEF SearchInv
  <1>2. CASE UNCHANGED dfsVars
    <2>1. HeapInv' /\ NothingLost'
      BY <1>2 DEF dfsVars, SearchInv, HeapInv, NothingLost, KeptPath, Passed
    <2> QED
      BY <1>1, <2>1 DEF SearchInv
  <1>3. CASE Search
    <2>1. HeapInv' /\ NothingLost'
      BY <1>3, GiveUpHeap, CompleteHeap, PruneHeap, ExpandHeap, SkipHeap, DescendHeap,
         LoopEndHeap, UndoHeap, DoneHeap DEF Search
    <2> QED
      BY <1>1, <2>1 DEF SearchInv
  <1> QED
    BY <1>2, <1>3 DEF DFSNext

LEMMA SearchAlways == DFSSpec => []SearchInv
  BY SearchInit, SearchStep, PTL DEF DFSSpec

\* Sound of every day: whatever the clock cuts short, m_heap holds possible
\* orders, with the score and the clash that they have when judged as a whole.
THEOREM DFSSound == DFSSpec => []Sound
  <1>1. SearchInv => Sound
    BY DEF SearchInv, HeapInv, Stored, HeapOf, Sound
  <1> QED
    BY <1>1, SearchAlways, PTL

\* Optimal of every day, of any number of places: the pruning of Search, the
\* test of PushPath and the meals that SearchRest refuses lose none of the
\* topK best orders.
THEOREM DFSOptimal == DFSSpec => []Optimal
  <1>1. ASSUME SearchInv, dfsPc = "done", sCnt <= CheckEvery
        PROVE  heap.q = Best(AllPaths(day), day.topK)
    <2> DEFINE P == AllPaths(day)
    <2>1. /\ day \in Day /\ Len(frames) \in Nat /\ frames = <<>> /\ sCnt \in Nat
          /\ CheckEvery \in Nat /\ path \in Seq(Node) /\ path[1] = 0
          /\ Len(path) = Len(frames) + 1
      BY <1>1, StackFacts DEF SearchInv, StackInv, FramesOK, PathOK, Begins
    <2>2. ~late
      BY <1>1, <2>1 DEF SearchInv, StackInv, Clock
    <2>3. ASSUME NEW s \in Good(day) PROVE KeptPath(s)
      <3>1. s[1] = 0 /\ Len(path) = 1
        BY <2>1, GoodType, OrderType
      <3>2. Agree(s, path, Len(path))
        BY <2>1, <3>1 DEF Agree
      <3>3. Passed(s)
        BY <1>1, <3>2 DEF Passed
      <3> QED
        BY <1>1, <2>2, <3>3 DEF SearchInv, NothingLost
    <2>4. \A r \in P : Kept(Self(P), heap.q, day.topK, r)
      BY <2>3 DEF AllPaths, KeptPath
    <2>5. /\ Stands(P, P, Self(P)) /\ day.topK \in Nat \ {0} /\ IsFiniteSet(P)
          /\ \A r \in P : Self(P)[r] = r
      BY <2>1, PathsStand
    <2>6. Stored(P, Self(P), heap, day.topK, P) /\ \A r \in heap.q : r \in P
      BY <1>1 DEF SearchInv, HeapInv, Stored, HeapOf
    <2> HIDE DEF P
    <2>7. P \in SUBSET P
      OBVIOUS
    <2>8. {Self(P)[r] : r \in heap.q} = Best(P, day.topK)
      BY <2>4, <2>5, <2>6, <2>7, KeptIsBest
    <2>9. {Self(P)[r] : r \in heap.q} = heap.q
      BY <2>5, <2>6
    <2> QED
      BY <2>8, <2>9 DEF P
  <1>2. SearchInv => Optimal
    BY <1>1 DEF Optimal
  <1> QED
    BY <1>2, SearchAlways, PTL



-----------------------------------------------------------------------------
(* The search ends. *)

Base == 4 * (End + 1)

Values(digits) ==
    CHOOSE f : f = [k \in 0..(Mid + 1) |-> IF k = 0 THEN digits[0] ELSE f[k - 1] * Base + digits[k]]

LEMMA NumberValues == \A digits : Number(digits) = Values(digits)[Mid + 1]
  BY DEF Number, Values, Base

Digits == [0..(Mid + 1) -> 0..(Base - 1)]

LEMMA BaseType == Base \in Nat /\ Base >= 4 /\ Mid \in Nat /\ Mid + 1 \in Nat
  BY NodeFacts DEF Base

LEMMA ValuesIs ==
    ASSUME NEW a \in Digits
    PROVE  /\ Values(a) \in [0..(Mid + 1) -> Nat] /\ Values(a)[0] = a[0]
           /\ \A k \in 0..(Mid + 1) : k # 0 => Values(a)[k] = Values(a)[k - 1] * Base + a[k]
           /\ \A k \in 0..(Mid + 1) : a[k] \in Nat /\ a[k] < Base
  <1> DEFINE n == Mid + 1
             step == [k \in 0..n |-> [v \in Nat |-> v * Base + a[k]]]
             A == Values(a)
  <1>0. n \in Nat /\ 0 <= n /\ Base \in Nat
    BY BaseType
  <1>1. \A k \in 0..n : a[k] \in Nat /\ a[k] < Base
    BY <1>0 DEF Digits
  <1> HIDE DEF n
  <1>2. \A k \in 0..n : k # 0 => k - 1 \in 0..n
    BY <1>0
  <1>3. \A v \in Nat, k \in 0..n : v * Base + a[k] \in Nat
    <2>1. \A v \in Nat : v * Base \in Nat
      BY <1>0
    <2>2. \A u, v \in Nat : u + v \in Nat
      OBVIOUS
    <2> QED
      BY <1>1, <2>1, <2>2
  <1>4. 0 \in 0..n /\ a[0] \in Nat
    BY <1>0, <1>1
  <1>5. PICK f \in [0..n -> Nat] : f[0] = a[0] /\ \A k \in 0..n : k # 0 => f[k] = step[k][f[k - 1]]
    <2>1. step \in [0..n -> [Nat -> Nat]]
      BY <1>3
    <2> HIDE DEF step
    <2>2. Recursive(0, n, Nat, a[0], step)
      BY <1>0, <1>4, <2>1 DEF Recursive
    <2> QED
      BY <2>2, Recursion
  <1>6. f = [k \in 0..n |-> IF k = 0 THEN a[0] ELSE f[k - 1] * Base + a[k]]
    BY <1>2, <1>5
  <1>7. A = [k \in 0..n |-> IF k = 0 THEN a[0] ELSE A[k - 1] * Base + a[k]]
    BY <1>6 DEF Values, n
  <1> HIDE DEF A
  <1>8. \A k \in 0..n : A[k] \in Nat
    <2> DEFINE I == {k \in 0..n : A[k] \in Nat}
    <2>1. 0 \in I
      BY <1>4, <1>7
    <2>2. ASSUME NEW k \in 0..n, k # 0, k - 1 \in I PROVE k \in I
      BY <1>3, <1>7, <2>2
    <2> HIDE DEF I
    <2>3. \A k \in 0..n : k \in I
      BY <1>0, <2>1, <2>2, Upwards
    <2> QED
      BY <2>3 DEF I
  <1> QED
    BY <1>1, <1>4, <1>7, <1>8 DEF A, n

\* a and b have the same digits before the j-th, where b has the larger one.
Below(a, b, j) ==
    /\ a \in Digits /\ b \in Digits /\ j \in 0..(Mid + 1)
    /\ \A k \in 0..(Mid + 1) : k < j => a[k] = b[k]
    /\ a[j] < b[j]

LEMMA NumberLess ==
    ASSUME NEW a, NEW b, NEW j, Below(a, b, j)
    PROVE  Number(a) \in Nat /\ Number(b) \in Nat /\ Number(a) < Number(b)
  <1> DEFINE n == Mid + 1
             A == Values(a)
             B == Values(b)
             I == {k \in 0..n : (k < j => A[k] = B[k]) /\ (k >= j => A[k] < B[k])}
  <1>0. n \in Nat /\ Base \in Nat /\ j \in 0..n
    BY BaseType DEF Below
  <1>1. /\ A \in [0..n -> Nat] /\ A[0] = a[0]
        /\ \A k \in 0..n : k # 0 => A[k] = A[k - 1] * Base + a[k]
        /\ \A k \in 0..n : a[k] \in Nat /\ a[k] < Base
    BY ValuesIs DEF Below
  <1>2. /\ B \in [0..n -> Nat] /\ B[0] = b[0]
        /\ \A k \in 0..n : k # 0 => B[k] = B[k - 1] * Base + b[k]
        /\ \A k \in 0..n : b[k] \in Nat /\ b[k] < Base
    BY ValuesIs DEF Below
  <1>3. a[j] < b[j] /\ \A k \in 0..n : k < j => a[k] = b[k]
    BY DEF Below
  <1> HIDE DEF n, A, B
  <1>4. 0 \in 0..n /\ n \in 0..n /\ j <= n
    BY <1>0
  <1>5. 0 \in I
    <2>1. CASE j = 0
      BY <1>1, <1>2, <1>3, <1>4, <2>1
    <2>2. CASE j # 0
      <3>1. 0 < j /\ ~(0 >= j)
        BY <1>0, <2>2
      <3> QED
        BY <1>1, <1>2, <1>3, <1>4, <3>1
    <2> QED
      BY <2>1, <2>2
  <1>6. ASSUME NEW k \in 0..n, k # 0, k - 1 \in I PROVE k \in I
    <2>1. /\ k - 1 \in 0..n /\ (k - 1 < j => A[k - 1] = B[k - 1]) /\ (k - 1 >= j => A[k - 1] < B[k - 1])
      BY <1>6
    <2>2. /\ A[k] = A[k - 1] * Base + a[k] /\ B[k] = B[k - 1] * Base + b[k]
          /\ A[k - 1] \in Nat /\ B[k - 1] \in Nat /\ a[k] \in Nat /\ b[k] \in Nat /\ a[k] < Base
      BY <1>1, <1>2, <1>6, <2>1
    <2>3. CASE k < j
      <3>1. k - 1 < j /\ ~(k >= j)
        BY <1>0, <2>3
      <3>2. A[k - 1] = B[k - 1] /\ a[k] = b[k]
        BY <1>3, <2>1, <2>3, <3>1
      <3>3. A[k] = B[k]
        BY <2>2, <3>2
      <3> QED
        BY <3>1, <3>3
    <2>4. CASE k = j
      <3>1. k - 1 < j /\ ~(k < j)
        BY <1>0, <2>4
      <3>2. A[k - 1] = B[k - 1] /\ a[k] < b[k]
        BY <1>3, <2>1, <2>4, <3>1
      <3> DEFINE p == A[k - 1] * Base
      <3>3. p \in Nat /\ A[k] = p + a[k] /\ B[k] = p + b[k]
        BY <1>0, <2>2, <3>2
      <3> HIDE DEF p
      <3>4. A[k] < B[k]
        BY <2>2, <3>2, <3>3
      <3> QED
        BY <3>1, <3>4
    <2>5. CASE k > j
      <3>1. k - 1 >= j /\ ~(k < j)
        BY <1>0, <2>5
      <3>2. A[k - 1] < B[k - 1]
        BY <2>1, <3>1
      <3>3. A[k - 1] * Base + a[k] < B[k - 1] * Base + b[k]
        BY <1>0, <2>2, <3>2, DigitLess
      <3>4. A[k] < B[k]
        BY <2>2, <3>3
      <3> QED
        BY <3>1, <3>4
    <2> QED
      BY <1>0, <2>3, <2>4, <2>5
  <1> HIDE DEF I
  <1>7. \A k \in 0..n : k \in I
    BY <1>0, <1>5, <1>6, Upwards
  <1>8. n \in I /\ n >= j
    BY <1>0, <1>4, <1>7
  <1>9. A[n] < B[n] /\ A[n] \in Nat /\ B[n] \in Nat
    BY <1>1, <1>2, <1>4, <1>8 DEF I
  <1> QED
    BY <1>9, NumberValues DEF A, B, n

\* Digit, of given loops and a given step.
Phase(pc) ==
    CASE pc = "loop" -> 0 [] pc = "search" -> 1 [] pc = "return" -> 2 [] pc = "done" -> 3
IndexOf(f, k) == IF k = 0 THEN 0 ELSE f[k].idx
DigitOf(f, pc, k) ==
    IF k > Len(f) THEN 0 ELSE 4 * IndexOf(f, k) + (IF k = Len(f) THEN Phase(pc) ELSE 1)
DigitsOf(f, pc) == [k \in 0..(Mid + 1) |-> DigitOf(f, pc, k)]

LEMMA PositionIs ==
    /\ Position = Number(DigitsOf(frames, dfsPc))
    /\ Position' = Number(DigitsOf(frames', dfsPc'))
  <1>1. \A k \in 0..(Mid + 1) : Digit(k) = DigitOf(frames, dfsPc, k)
    BY DEF Digit, DigitOf, Phase, IndexOf
  <1>2. \A k \in 0..(Mid + 1) : Digit(k)' = DigitOf(frames', dfsPc', k)
    BY DEF Digit, DigitOf, Phase, IndexOf
  <1>3. [k \in 0..(Mid + 1) |-> Digit(k)] = DigitsOf(frames, dfsPc)
    BY <1>1 DEF DigitsOf
  <1>4. [k \in 0..(Mid + 1) |-> Digit(k)'] = DigitsOf(frames', dfsPc')
    BY <1>2 DEF DigitsOf
  <1>5. Position' = Number([k \in 0..(Mid + 1) |-> Digit(k)'])
    BY DEF Position
  <1> QED
    BY <1>3, <1>4, <1>5 DEF Position

\* The loops and the step of a state.
Loops(f, pc) ==
    /\ f \in Seq(Frame) /\ Len(f) \in Nat /\ Len(f) <= Mid
    /\ pc \in {"search", "loop", "return", "done"}

LEMMA PhaseType == ASSUME NEW pc \in {"search", "loop", "return", "done"}
                   PROVE  Phase(pc) \in 0..3
  BY DEF Phase

LEMMA DigitsType ==
    ASSUME NEW f, NEW pc, Loops(f, pc)
    PROVE  /\ DigitsOf(f, pc) \in Digits
           /\ \A k \in 0..Len(f) : IndexOf(f, k) \in Nat
           /\ \A k \in 0..(Mid + 1) : DigitsOf(f, pc)[k] = DigitOf(f, pc, k)
  <1> DEFINE n == Len(f)
  <1>1. f \in Seq(Frame) /\ n \in Nat /\ n <= Mid /\ Phase(pc) \in 0..3
    BY PhaseType DEF Loops
  <1>2. \A k \in 1..n : f[k] \in Frame
    BY <1>1, ElementOfSeq
  <1>3. ASSUME NEW k \in 0..n PROVE IndexOf(f, k) \in Nat /\ IndexOf(f, k) <= End
    <2>1. CASE k = 0
      BY <2>1, NodeFacts DEF IndexOf
    <2>2. CASE k # 0
      <3>1. k \in 1..n
        BY <1>1, <2>2
      <3>2. f[k].idx \in 1..End
        BY <1>2, <3>1 DEF Frame
      <3> QED
        BY <2>2, <3>2, NodeFacts DEF IndexOf
    <2> QED
      BY <2>1, <2>2
  <1> HIDE DEF n
  <1>4. ASSUME NEW k \in 0..(Mid + 1) PROVE DigitOf(f, pc, k) \in 0..(Base - 1)
    <2>1. CASE k > n
      <3>1. DigitOf(f, pc, k) = 0
        BY <2>1 DEF DigitOf, n
      <3> QED
        BY <3>1, BaseType
    <2>2. CASE ~(k > n)
      <3> DEFINE x == IndexOf(f, k)
                 y == IF k = n THEN Phase(pc) ELSE 1
      <3>1. k \in 0..n
        BY <1>1, <2>2
      <3>2. x \in Nat /\ x <= End /\ y \in 0..3
        BY <1>1, <1>3, <3>1
      <3>3. DigitOf(f, pc, k) = 4 * x + y
        BY <2>2 DEF DigitOf, n
      <3> HIDE DEF x, y
      <3> QED
        BY <3>2, <3>3, NodeFacts DEF Base
    <2> QED
      BY <2>1, <2>2
  <1> QED
    BY <1>3, <1>4 DEF DigitsOf, Digits, n


\* Further in the same loop.
LEMMA Onwards ==
    ASSUME NEW f, NEW a, NEW g, NEW b, Loops(f, a), Loops(g, b), Len(g) = Len(f),
           \A k \in 1..Len(f) : k # Len(f) => g[k].idx = f[k].idx,
           4 * IndexOf(f, Len(f)) + Phase(a) < 4 * IndexOf(g, Len(f)) + Phase(b)
    PROVE  Below(DigitsOf(f, a), DigitsOf(g, b), Len(f))
  <1> DEFINE n == Len(f)
  <1>1. n \in Nat /\ n <= Mid /\ Mid \in Nat /\ n \in 0..(Mid + 1)
    BY BaseType DEF Loops
  <1>2. /\ DigitsOf(f, a) \in Digits /\ DigitsOf(g, b) \in Digits
        /\ \A k \in 0..(Mid + 1) : /\ DigitsOf(f, a)[k] = DigitOf(f, a, k)
                                   /\ DigitsOf(g, b)[k] = DigitOf(g, b, k)
    BY DigitsType
  <1>3. ASSUME NEW k \in 0..(Mid + 1), k < n PROVE DigitOf(f, a, k) = DigitOf(g, b, k)
    <2>1. ~(k > n) /\ k # n /\ (k # 0 => k \in 1..n)
      BY <1>1, <1>3
    <2>2. IndexOf(f, k) = IndexOf(g, k)
      BY <2>1 DEF IndexOf
    <2> QED
      BY <2>1, <2>2 DEF DigitOf
  <1>4. DigitOf(f, a, n) < DigitOf(g, b, n)
    <2>1. ~(n > n)
      BY <1>1
    <2> QED
      BY <2>1 DEF DigitOf
  <1> QED
    BY <1>1, <1>2, <1>3, <1>4 DEF Below

\* Into a loop.
LEMMA Inwards ==
    ASSUME NEW f, NEW a, NEW g, NEW b, Loops(f, a), Loops(g, b), Len(g) = Len(f) + 1,
           \A k \in 1..Len(f) : g[k].idx = f[k].idx,
           a = "search", b = "loop", g[Len(f) + 1].idx = 1
    PROVE  Below(DigitsOf(f, a), DigitsOf(g, b), Len(f) + 1)
  <1> DEFINE n == Len(f)
  <1>1. n \in Nat /\ n <= Mid /\ Mid \in Nat /\ n + 1 \in 0..(Mid + 1) /\ n + 1 # 0
    BY BaseType DEF Loops
  <1>2. /\ DigitsOf(f, a) \in Digits /\ DigitsOf(g, b) \in Digits
        /\ \A k \in 0..(Mid + 1) : /\ DigitsOf(f, a)[k] = DigitOf(f, a, k)
                                   /\ DigitsOf(g, b)[k] = DigitOf(g, b, k)
    BY DigitsType
  <1>3. ASSUME NEW k \in 0..(Mid + 1), k < n + 1 PROVE DigitOf(f, a, k) = DigitOf(g, b, k)
    <2>1. ~(k > n) /\ ~(k > n + 1) /\ k # n + 1 /\ (k # 0 => k \in 1..n)
      BY <1>1, <1>3
    <2>2. IndexOf(f, k) = IndexOf(g, k)
      BY <2>1 DEF IndexOf
    <2>3. Phase(a) = 1
      BY DEF Phase
    <2> QED
      BY <2>1, <2>2, <2>3 DEF DigitOf
  <1>4. DigitOf(f, a, n + 1) < DigitOf(g, b, n + 1)
    <2>1. ~(n + 1 > n + 1) /\ n + 1 > n
      BY <1>1
    <2>2. Phase(b) = 0 /\ IndexOf(g, n + 1) = 1
      BY <1>1 DEF Phase, IndexOf
    <2>3. DigitOf(f, a, n + 1) = 0
      BY <2>1 DEF DigitOf
    <2>4. DigitOf(g, b, n + 1) = 4 * 1 + 0
      BY <2>1, <2>2 DEF DigitOf
    <2> QED
      BY <2>3, <2>4
  <1> QED
    BY <1>1, <1>2, <1>3, <1>4 DEF Below

\* Out of a loop.
LEMMA Outwards ==
    ASSUME NEW f, NEW a, NEW g, NEW b, Loops(f, a), Loops(g, b), Len(f) # 0, Len(g) = Len(f) - 1,
           \A k \in 1..(Len(f) - 1) : g[k].idx = f[k].idx, b = "return"
    PROVE  Below(DigitsOf(f, a), DigitsOf(g, b), Len(f) - 1)
  <1> DEFINE n == Len(f)
             m == n - 1
  <1>1. n \in Nat /\ n # 0 /\ n <= Mid /\ Mid \in Nat /\ m \in Nat /\ n = m + 1 /\ m \in 0..(Mid + 1)
    BY BaseType DEF Loops
  <1>2. /\ DigitsOf(f, a) \in Digits /\ DigitsOf(g, b) \in Digits
        /\ \A k \in 0..(Mid + 1) : /\ DigitsOf(f, a)[k] = DigitOf(f, a, k)
                                   /\ DigitsOf(g, b)[k] = DigitOf(g, b, k)
    BY DigitsType
  <1>3. Len(f) = n /\ Len(g) = m
    OBVIOUS
  <1>4. \A k \in 1..m : g[k].idx = f[k].idx
    OBVIOUS
  <1>5. m \in 0..n /\ IndexOf(f, m) \in Nat
    BY <1>1, DigitsType
  <1> HIDE DEF m, n
  <1>6. ASSUME NEW k \in 0..(Mid + 1), k < m PROVE DigitOf(f, a, k) = DigitOf(g, b, k)
    <2>1. ~(k > n) /\ ~(k > m) /\ k # n /\ k # m /\ (k # 0 => k \in 1..m)
      BY <1>1, <1>6
    <2>2. IndexOf(f, k) = IndexOf(g, k)
      BY <1>4, <2>1 DEF IndexOf
    <2> QED
      BY <1>3, <2>1, <2>2 DEF DigitOf
  <1>7. DigitOf(f, a, m) < DigitOf(g, b, m)
    <2>1. ~(m > m) /\ ~(m > n) /\ m # n /\ (m # 0 => m \in 1..m)
      BY <1>1
    <2>2. Phase(b) = 2 /\ IndexOf(g, m) = IndexOf(f, m)
      BY <1>4, <2>1 DEF Phase, IndexOf
    <2>3. DigitOf(f, a, m) = 4 * IndexOf(f, m) + 1 /\ DigitOf(g, b, m) = 4 * IndexOf(f, m) + 2
      BY <1>3, <2>1, <2>2 DEF DigitOf
    <2> QED
      BY <1>5, <2>3
  <1> QED
    BY <1>1, <1>2, <1>6, <1>7 DEF Below, m, n

LEMMA StepAdvances ==
    ASSUME StackInv, StackInv', Search
    PROVE  \E j : Below(DigitsOf(frames, dfsPc), DigitsOf(frames', dfsPc'), j)
  <1> DEFINE n == Len(frames)
             x == IndexOf(frames, n)
  <1>1. Loops(frames, dfsPc) /\ Loops(frames', dfsPc')
    <2>1. Loops(frames, dfsPc)
      BY StackFacts DEF StackInv, DFSTypeOK, Loops
    <2>2. frames' \in Seq(Frame) /\ dfsPc' \in {"search", "loop", "return", "done"} /\ Len(frames') <= Mid
      BY DEF StackInv, DFSTypeOK, FramesOK, Frame
    <2>3. Len(frames') \in Nat
      BY <2>2, LenProperties
    <2> QED
      BY <2>1, <2>2, <2>3 DEF Loops
  <1>2. /\ n \in Nat /\ frames \in Seq(Frame) /\ Mid \in Nat
        /\ \A k \in 1..n : frames[k].idx \in 1..End
    BY StackFacts
  <1>3. x \in Nat
    <2>1. n \in 0..n
      BY <1>2
    <2> QED
      BY <1>1, <2>1, DigitsType
  <1> HIDE DEF x
  <1>4. CASE GiveUp \/ Complete \/ Prune
    <2>1. frames' = frames /\ dfsPc = "search" /\ dfsPc' = "return"
      BY <1>4 DEF GiveUp, Complete, Prune, Counted
    <2>2. Phase(dfsPc) = 1 /\ Phase(dfsPc') = 2
      BY <2>1 DEF Phase
    <2>3. 4 * IndexOf(frames, n) + Phase(dfsPc) < 4 * IndexOf(frames', n) + Phase(dfsPc')
      <3>1. 4 * x + 1 < 4 * x + 2
        BY <1>3
      <3> QED
        BY <2>1, <2>2, <3>1 DEF x
    <2> QED
      BY <1>1, <2>1, <2>3, Onwards
  <1>5. CASE Done
    <2>1. frames' = frames /\ dfsPc = "return" /\ dfsPc' = "done"
      BY <1>5 DEF Done
    <2>2. Phase(dfsPc) = 2 /\ Phase(dfsPc') = 3
      BY <2>1 DEF Phase
    <2>3. 4 * IndexOf(frames, n) + Phase(dfsPc) < 4 * IndexOf(frames', n) + Phase(dfsPc')
      <3>1. 4 * x + 2 < 4 * x + 3
        BY <1>3
      <3> QED
        BY <2>1, <2>2, <3>1 DEF x
    <2> QED
      BY <1>1, <2>1, <2>3, Onwards
  <1>6. CASE Expand
    <2> DEFINE f == [idx |-> 1, need |-> need]
    <2>1. frames' = Append(frames, f) /\ dfsPc = "search" /\ dfsPc' = "loop"
      BY <1>6 DEF Expand, Counted
    <2>2. f \in Frame /\ f.idx = 1
      BY NodeFacts DEF StackInv, DFSTypeOK, Frame
    <2> HIDE DEF f
    <2>3. Len(frames') = n + 1 /\ frames'[n + 1] = f /\ \A k \in 1..n : frames'[k] = frames[k]
      BY <1>2, <2>1, <2>2, AppendProperties
    <2> QED
      BY <1>1, <2>1, <2>2, <2>3, Inwards
  <1>7. CASE LoopEnd
    <2>1. frames' = SubSeq(frames, 1, n - 1) /\ dfsPc = "loop" /\ dfsPc' = "return"
      BY <1>7 DEF LoopEnd
    <2>2. n # 0 /\ n \in Nat /\ frames \in Seq(Frame)
      BY <2>1, StackFacts
    <2>3. /\ frames' \in Seq(Frame) /\ Len(frames') = n - 1
          /\ \A k \in 1..(n - 1) : frames'[k] = frames[k]
      BY <2>1, <2>2, Front
    <2> QED
      BY <1>1, <2>1, <2>2, <2>3, Outwards
  <1>8. CASE Skip
    <2>1. dfsPc = "loop" /\ dfsPc' = "loop" /\ frames' = NextIdx /\ Idx <= Mid
      BY <1>8 DEF Skip
    <2>2. n # 0 /\ n \in 1..n
      BY <1>2, <2>1, StackFacts
    <2>3. Idx = frames[n].idx /\ Idx \in 1..Mid
      BY <1>2, <2>1, <2>2, NodeFacts DEF Idx
    <2>4. Len(frames') = n /\ frames'[n].idx = Idx + 1 /\ \A k \in 1..n : k # n => frames'[k] = frames[k]
      BY <1>2, <2>1, <2>2, <2>3, NextIdxIs
    <2>5. 4 * IndexOf(frames, n) + Phase(dfsPc) < 4 * IndexOf(frames', n) + Phase(dfsPc')
      <3>1. IndexOf(frames, n) = Idx /\ IndexOf(frames', n) = Idx + 1 /\ Phase(dfsPc) = 0 /\ Phase(dfsPc') = 0
        BY <2>1, <2>2, <2>3, <2>4 DEF IndexOf, Phase
      <3> QED
        BY <2>3, <3>1
    <2> QED
      BY <1>1, <2>4, <2>5, Onwards
  <1>9. CASE Undo
    <2>1. dfsPc = "return" /\ dfsPc' = "loop"
      BY <1>9 DEF Undo
    <2>2. /\ n # 0 /\ Idx \in 1..Mid /\ Idx = frames[n].idx
          /\ Len(frames') = n /\ frames'[n].idx = Idx + 1 /\ \A k \in 1..n : k # n => frames'[k] = frames[k]
      BY <1>9, UndoFacts DEF Idx
    <2>3. 4 * IndexOf(frames, n) + Phase(dfsPc) < 4 * IndexOf(frames', n) + Phase(dfsPc')
      <3>1. IndexOf(frames, n) = Idx /\ IndexOf(frames', n) = Idx + 1 /\ Phase(dfsPc) = 2 /\ Phase(dfsPc') = 0
        BY <2>1, <2>2 DEF IndexOf, Phase
      <3> QED
        BY <2>2, <3>1
    <2> QED
      BY <1>1, <2>2, <2>3, Onwards
  <1>10. CASE Descend
    <2> DEFINE f == [frames[n] EXCEPT !.need = need]
    <2>1. dfsPc = "loop" /\ dfsPc' = "search" /\ frames' = [frames EXCEPT ![n].need = need]
      BY <1>10 DEF Descend
    <2>2. n # 0 /\ n \in 1..n /\ frames[n] \in Frame
      BY <1>2, <2>1, StackFacts, ElementOfSeq
    <2>3. f.idx = frames[n].idx
      BY <2>2 DEF Frame
    <2>4. frames' = [frames EXCEPT ![n] = f]
      BY <2>1
    <2> HIDE DEF f
    <2>5. Len(frames') = n /\ frames'[n] = f /\ \A k \in 1..n : k # n => frames'[k] = frames[k]
      BY <1>2, <2>2, <2>4
    <2>6. 4 * IndexOf(frames, n) + Phase(dfsPc) < 4 * IndexOf(frames', n) + Phase(dfsPc')
      <3>1. IndexOf(frames, n) = x /\ IndexOf(frames', n) = x /\ Phase(dfsPc) = 0 /\ Phase(dfsPc') = 1
        BY <2>1, <2>2, <2>3, <2>5 DEF IndexOf, Phase, x
      <3> QED
        BY <1>3, <3>1
    <2> QED
      BY <1>1, <2>5, <2>6, Onwards
  <1> QED
    BY <1>4, <1>5, <1>6, <1>7, <1>8, <1>9, <1>10 DEF Search

\* Advances of every day: every step of Search, SearchView and SearchRest takes
\* the search further in an order of finitely many positions.
THEOREM DFSAdvances == DFSSpec => Advances
  <1>1. ASSUME StackInv, StackInv', [DFSNext]_dfsVars PROVE [Position' > Position]_dfsVars
    <2>1. CASE Search
      <3>1. PICK j : Below(DigitsOf(frames, dfsPc), DigitsOf(frames', dfsPc'), j)
        BY <1>1, <2>1, StepAdvances
      <3>2. Position \in Nat /\ Position' \in Nat /\ Position < Position'
        BY <3>1, NumberLess, PositionIs
      <3> QED
        BY <3>2
    <2>2. CASE UNCHANGED dfsVars
      BY <2>2
    <2> QED
      BY <1>1, <2>1, <2>2 DEF DFSNext
  <1> QED
    BY <1>1, StackAlways, PTL DEF DFSSpec, Advances

-----------------------------------------------------------------------------
(* CalClash against all timetables. *)

\* The first window that fits.
Fits(d, i, w, arv) == Begin(d, i, w, arv) + d.zip[i] <= d.win[i][w].close

FirstFit(d, i, left, arv, j) ==
    /\ j \in Windows(d, i, left) /\ Fits(d, i, j, arv)
    /\ \A y \in Windows(d, i, left) : Fits(d, i, y, arv) => j <= y

Arrival(d, s, k, offset) == offset + Item(d, s[k - 1], s[k]).time

Fine(acc) == ~acc.fail /\ acc.clash = 0

\* One place of CalClash: an error, no window, a visit that ends too late, or
\* a visit in the first window that fits.
VisitCase(d, acc, s, k, new) ==
    LET i == s[k]
        arv == Arrival(d, s, k, acc.offset)
    IN \/ d.zip[i] = -1 /\ Windows(d, i, acc.left) # {} /\ new.fail
       \/ /\ \A w \in Windows(d, i, acc.left) : ~Fits(d, i, w, arv)
          /\ ~new.fail /\ new.clash = 1
       \/ /\ d.zip[i] # -1 /\ ~new.fail
          /\ \E j : /\ FirstFit(d, i, acc.left, arv, j)
                    /\ new.clash = (IF Begin(d, i, j, arv) + d.zip[i] > d.stop THEN 1 ELSE 0)
                    /\ new.clash = 0 =>
                          /\ new.offset = Begin(d, i, j, arv) + d.zip[i]
                          /\ new.left = IF IsRest(Types(d)[i]) THEN acc.left \ {MealOf(j)} ELSE acc.left

LEMMA VisitCases ==
    ASSUME NEW d \in Day, NEW acc \in Acc, NEW s, NEW k, s[k] \in Place,
           Item(d, s[k - 1], s[k]) \in Traffic, Fine(acc)
    PROVE  VisitCase(d, acc, s, k, Visit(d, acc, s, k))
  <1> DEFINE i == s[k]
             arv == acc.offset + Item(d, s[k - 1], i).time
             W == Windows(d, i, acc.left)
             fits == {w \in W : Begin(d, i, w, arv) + d.zip[i] <= d.win[i][w].close}
             j == CHOOSE x \in fits : \A y \in fits : x <= y
             out == Begin(d, i, j, arv) + d.zip[i]
             left == IF IsRest(Types(d)[i]) THEN acc.left \ {MealOf(j)} ELSE acc.left
             fl == IF k = 2 /\ IsRest(Types(d)[i]) /\ Begin(d, i, j, arv) - arv > Hour
                   THEN 1 ELSE acc.firstL
             new == Visit(d, acc, s, k)
  <1>1. arv = Arrival(d, s, k, acc.offset)
    BY DEF Arrival
  <1>2. \A w \in W : w \in Nat
    BY WindowType
  <1>3. \A w : w \in fits <=> w \in W /\ Fits(d, i, w, arv)
    BY DEF Fits
  <1>4. fits # {} => j \in fits /\ \A y \in fits : j <= y
    <2>1. fits \in SUBSET Nat
      BY <1>2
    <2> HIDE DEF fits
    <2> QED
      BY <2>1, LeastNumber
  <1> HIDE DEF W, fits, j, out, left, fl, arv
  <1>5. Visit(d, acc, s, k) =
            IF acc.fail \/ acc.clash = 1 THEN acc
            ELSE IF d.zip[i] = -1 /\ W # {} THEN [acc EXCEPT !.fail = TRUE]
            ELSE IF fits = {} \/ out > d.stop THEN [acc EXCEPT !.clash = 1]
            ELSE [acc EXCEPT !.offset = out, !.left = left, !.firstL = fl]
    BY DEF Visit, W, fits, j, out, left, fl, arv
  <1>6. ~acc.fail /\ acc.clash = 0
    BY DEF Fine
  <1>7. /\ acc = [offset |-> acc.offset, left |-> acc.left, clash |-> acc.clash,
                  firstL |-> acc.firstL, fail |-> acc.fail]
    BY DEF Acc
  <1>8. CASE d.zip[i] = -1 /\ W # {}
    <2>1. new.fail
      BY <1>5, <1>6, <1>7, <1>8
    <2> QED
      BY <1>8, <2>1 DEF VisitCase, W
  <1>9. CASE ~(d.zip[i] = -1 /\ W # {}) /\ fits = {}
    <2>1. ~new.fail /\ new.clash = 1
      BY <1>5, <1>6, <1>7, <1>9
    <2>2. \A w \in W : ~Fits(d, i, w, arv)
      BY <1>3, <1>9
    <2> QED
      BY <1>1, <2>1, <2>2 DEF VisitCase, W
  <1>10. CASE ~(d.zip[i] = -1 /\ W # {}) /\ fits # {}
    <2>1. FirstFit(d, i, acc.left, arv, j) /\ d.zip[i] # -1
      BY <1>3, <1>4, <1>10 DEF FirstFit, W
    <2>2. CASE out > d.stop
      <3>1. ~new.fail /\ new.clash = 1
        BY <1>5, <1>6, <1>7, <1>10, <2>2
      <3> QED
        BY <1>1, <2>1, <2>2, <3>1 DEF VisitCase, out
    <2>3. CASE ~(out > d.stop)
      <3>1. ~new.fail /\ new.clash = 0 /\ new.offset = out /\ new.left = left
        BY <1>5, <1>6, <1>7, <1>10, <2>3
      <3> QED
        BY <1>1, <2>1, <2>3, <3>1 DEF VisitCase, out, left
    <2> QED
      BY <2>2, <2>3
  <1> QED
    BY <1>8, <1>9, <1>10

\* After an error or a clash, CalClash looks at nothing.
LEMMA VisitSticks ==
    ASSUME NEW d, NEW acc, NEW s, NEW k, ~Fine(acc), acc \in Acc
    PROVE  Visit(d, acc, s, k) = acc
  <1>1. acc.fail \/ acc.clash = 1
    BY DEF Fine, Acc
  <1> QED
    BY <1>1 DEF Visit

\* An order that CalClash takes: no error occurs on the way, and no clash if
\* there is none in the end.
LEMMA FineBefore ==
    ASSUME NEW d \in Day, NEW s \in Orders, Linked(d, s), ~CalClash(d, s).fail,
           NEW k \in 1..(Mid + 1)
    PROVE  /\ ~Accs(d, s)[k].fail
           /\ CalClash(d, s).clash = 0 => Fine(Accs(d, s)[k])
  <1> DEFINE A == Accs(d, s)
             n == Mid + 1
             I == {m \in k..n : A[m] = A[k]}
  <1>1. n \in Nat /\ Len(s) - 1 = n /\ k \in Nat /\ n \in k..n
    BY OrderLegs
  <1>2. A \in [1..n -> Acc] /\ \A m \in 2..n : A[m] = Visit(d, A[m - 1], s, m)
    BY AccsAre
  <1>3. CalClash(d, s) = Verdict(d, s, A[n])
    BY <1>1, ClashAccs
  <1> HIDE DEF A
  <1>4. A[n] \in Acc /\ A[k] \in Acc
    BY <1>1, <1>2
  <1>5. ~Fine(A[k]) => A[n] = A[k]
    <2> SUFFICES ASSUME ~Fine(A[k]) PROVE A[n] = A[k]
      OBVIOUS
    <2>1. k \in I
      BY <1>1
    <2>2. ASSUME NEW m \in k..n, m # k, m - 1 \in I PROVE m \in I
      <3>1. m \in 2..n
        BY <1>1, <2>2
      <3>2. A[m] = Visit(d, A[k], s, m)
        BY <1>2, <2>2, <3>1
      <3> QED
        BY <1>4, <3>2, VisitSticks
    <2> HIDE DEF I
    <2>3. \A m \in k..n : m \in I
      BY <1>1, <2>1, <2>2, Upwards
    <2> QED
      BY <1>1, <2>3 DEF I
  <1>6. ~A[n].fail
    BY <1>3, <1>4 DEF Verdict, Acc
  <1>7. CalClash(d, s).clash = 0 => A[n].clash = 0
    <2>1. [A[n] EXCEPT !.clash = 1].clash = 1
      BY <1>4 DEF Acc
    <2> QED
      BY <1>3, <2>1 DEF Verdict
  <1>8. A[k].fail => ~Fine(A[k])
    BY DEF Fine
  <1> QED
    BY <1>4, <1>5, <1>6, <1>7, <1>8 DEF A, Fine

\* When a timetable leaves the places of an order.
Leaves(d, s, w) ==
    CHOOSE f : f = [k \in 1..(Len(s) - 1) |->
        IF k = 1 THEN d.start
        ELSE (IF d.win[s[k]][w[k]].open > f[k - 1] + Item(d, s[k - 1], s[k]).time
              THEN d.win[s[k]][w[k]].open ELSE f[k - 1] + Item(d, s[k - 1], s[k]).time) + d.zip[s[k]]]

LEMMA KeepsLeaves ==
    \A d, s, w : Keeps(d, s, w) <=>
        LET leave == Leaves(d, s, w) IN
        /\ \A k \in DOMAIN w : leave[k] <= d.win[s[k]][w[k]].close /\ leave[k] <= d.stop
        /\ leave[Len(s) - 1] + Item(d, s[Len(s) - 1], s[Len(s)]).time <= d.stop
  BY DEF Keeps, Leaves

\* A choice of windows, whatever the meals: every place has one of its own.
Chosen(d, s, w) ==
    \A k \in 2..(Mid + 1) : d.win[s[k]][w[k]].open \in Int

LEMMA LeavesAre ==
    ASSUME NEW d \in Day, NEW s \in Orders, Linked(d, s), NEW w, Chosen(d, s, w)
    PROVE  /\ Leaves(d, s, w) \in [1..(Mid + 1) -> Int]
           /\ Leaves(d, s, w)[1] = d.start
           /\ \A k \in 2..(Mid + 1) :
                 Leaves(d, s, w)[k] =
                    Begin(d, s[k], w[k], Arrival(d, s, k, Leaves(d, s, w)[k - 1])) + d.zip[s[k]]
  <1> DEFINE n == Mid + 1
             Then(k, v) == (IF d.win[s[k]][w[k]].open > v + Item(d, s[k - 1], s[k]).time
                            THEN d.win[s[k]][w[k]].open ELSE v + Item(d, s[k - 1], s[k]).time) + d.zip[s[k]]
             step == [k \in 1..n |-> [v \in Int |-> IF k = 1 THEN v ELSE Then(k, v)]]
             L == Leaves(d, s, w)
  <1>1. Len(s) - 1 = n /\ n \in Nat /\ 1 <= n
    BY OrderLegs
  <1>2. \A k \in 2..n : /\ s[k] \in Place /\ Item(d, s[k - 1], s[k]).time \in Int
                        /\ d.win[s[k]][w[k]].open \in Int /\ d.zip[s[k]] \in Int
    <2> SUFFICES ASSUME NEW k \in 2..n
                 PROVE  /\ s[k] \in Place /\ Item(d, s[k - 1], s[k]).time \in Int
                        /\ d.win[s[k]][w[k]].open \in Int /\ d.zip[s[k]] \in Int
      OBVIOUS
    <2>1. s[k] \in Place /\ Item(d, s[k - 1], s[k]) \in Traffic
      BY OrderLegs
    <2>2. Item(d, s[k - 1], s[k]).time \in Int
      BY <2>1 DEF Traffic
    <2>3. d.zip[s[k]] \in Int
      BY <2>1, DayAssumption
    <2> QED
      BY <2>1, <2>2, <2>3 DEF Chosen
  <1>3. d.start \in Int
    BY DayAssumption
  <1> HIDE DEF n
  <1>4. \A k \in 1..n, v \in Int : k # 1 => Then(k, v) \in Int
    <2>1. \A k \in 1..n : k # 1 => k \in 2..n
      BY <1>1
    <2> QED
      BY <1>2, <2>1
  <1>13. \A k \in 2..n, v \in Int :
            Then(k, v) = Begin(d, s[k], w[k], Arrival(d, s, k, v)) + d.zip[s[k]]
    <2> SUFFICES ASSUME NEW k \in 2..n, NEW v \in Int
                 PROVE  Then(k, v) = Begin(d, s[k], w[k], Arrival(d, s, k, v)) + d.zip[s[k]]
      OBVIOUS
    <2>1. /\ Item(d, s[k - 1], s[k]).time \in Int
          /\ d.win[s[k]][w[k]].open \in Int /\ d.zip[s[k]] \in Int
      BY <1>2
    <2> QED
      BY <2>1 DEF Begin, Arrival
  <1> HIDE DEF Then
  <1>5. PICK f \in [1..n -> Int] : f[1] = d.start /\ \A k \in 1..n : k # 1 => f[k] = step[k][f[k - 1]]
    <2>1. step \in [1..n -> [Int -> Int]]
      BY <1>4
    <2> HIDE DEF step
    <2>2. Recursive(1, n, Int, d.start, step)
      BY <1>1, <1>3, <2>1 DEF Recursive
    <2> QED
      BY <2>2, Recursion
  <1>6. \A k \in 1..n : k # 1 => k - 1 \in 1..n
    BY <1>1
  <1>7. f = [k \in 1..n |-> IF k = 1 THEN d.start ELSE Then(k, f[k - 1])]
    BY <1>5, <1>6
  <1>8. L = [k \in 1..n |-> IF k = 1 THEN d.start ELSE Then(k, L[k - 1])]
    BY <1>1, <1>7 DEF Leaves, Then
  <1> HIDE DEF L
  <1>9. \A k \in 1..n : L[k] \in Int
    <2> DEFINE I == {k \in 1..n : L[k] \in Int}
    <2>1. 1 \in 1..n
      BY <1>1
    <2>2. 1 \in I
      BY <1>3, <1>8, <2>1
    <2>3. ASSUME NEW k \in 1..n, k # 1, k - 1 \in I PROVE k \in I
      BY <1>4, <1>8, <2>3
    <2> HIDE DEF I
    <2>4. \A k \in 1..n : k \in I
      BY <1>1, <2>2, <2>3, Upwards
    <2> QED
      BY <2>4 DEF I
  <1>10. L \in [1..n -> Int]
    BY <1>8, <1>9
  <1>11. L[1] = d.start
    BY <1>1, <1>8
  <1>12. ASSUME NEW k \in 2..n
         PROVE  L[k] = Begin(d, s[k], w[k], Arrival(d, s, k, L[k - 1])) + d.zip[s[k]]
    <2>1. k \in 1..n /\ k # 1 /\ k - 1 \in 1..n
      BY <1>1
    <2>2. L[k] = Then(k, L[k - 1]) /\ L[k - 1] \in Int
      BY <1>8, <1>9, <2>1
    <2> QED
      BY <1>13, <2>2
  <1> QED
    BY <1>10, <1>11, <1>12 DEF L, n

\* No clash: the windows that CalClash has taken are a timetable.
LEMMA ClashFreeKeeps ==
    ASSUME NEW d \in Day, NEW s \in Orders, Linked(d, s), InOrder(d),
           ~CalClash(d, s).fail, CalClash(d, s).clash = 0
    PROVE  \E w \in Timetables(d, s) : Keeps(d, s, w)
  <1> DEFINE A == Accs(d, s)
             n == Mid + 1
             arv(k) == Arrival(d, s, k, A[k - 1].offset)
             Took(k, j) == /\ FirstFit(d, s[k], A[k - 1].left, arv(k), j)
                           /\ Begin(d, s[k], j, arv(k)) + d.zip[s[k]] <= d.stop
                           /\ A[k].offset = Begin(d, s[k], j, arv(k)) + d.zip[s[k]]
                           /\ A[k].left = IF IsRest(Types(d)[s[k]])
                                          THEN A[k - 1].left \ {MealOf(j)} ELSE A[k - 1].left
             w == [k \in 2..n |-> CHOOSE j : Took(k, j)]
  <1>1. n \in Nat /\ 1 <= n /\ Len(s) - 1 = n /\ Len(s) = n + 1 /\ n \in 1..n
    BY OrderLegs
  <1>2. /\ A \in [1..n -> Acc] /\ A[1] = FirstAcc(d)
        /\ \A k \in 2..n : A[k] = Visit(d, A[k - 1], s, k)
    BY AccsAre
  <1>3. \A k \in 2..n : /\ s[k] \in Place /\ Item(d, s[k - 1], s[k]) \in Traffic
    BY OrderLegs
  <1>4. \A k \in 1..n : Fine(A[k])
    BY FineBefore
  <1>5. CalClash(d, s) = Verdict(d, s, A[n])
    BY <1>1, ClashAccs
  <1>14. d.stop \in Int /\ d.start \in Int /\ \A k \in 2..n : d.zip[s[k]] \in Int
    BY <1>3, DayAssumption
  <1> HIDE DEF A, n
  <1>15. \A k \in 2..n : /\ k \in 1..n /\ k - 1 \in 1..n /\ A[k - 1] \in Acc /\ A[k] \in Acc
                         /\ A[k - 1].offset \in Int /\ A[k].offset \in Int
                         /\ A[k - 1].left \in SUBSET Meals
    <2> SUFFICES ASSUME NEW k \in 2..n
                 PROVE  /\ k \in 1..n /\ k - 1 \in 1..n /\ A[k - 1] \in Acc /\ A[k] \in Acc
      BY DEF Acc
    <2>1. k \in 1..n /\ k - 1 \in 1..n
      BY <1>1
    <2> QED
      BY <1>2, <2>1
  <1>6. \A k \in 2..n : \E j : Took(k, j)
    <2> SUFFICES ASSUME NEW k \in 2..n PROVE \E j : Took(k, j)
      OBVIOUS
    <2>1. k \in 1..n /\ k - 1 \in 1..n /\ A[k - 1] \in Acc
      BY <1>15
    <2>2. Fine(A[k]) /\ Fine(A[k - 1])
      BY <1>4, <2>1
    <2>3. VisitCase(d, A[k - 1], s, k, A[k])
      BY <1>2, <1>3, <2>1, <2>2, VisitCases
    <2>4. PICK j : /\ FirstFit(d, s[k], A[k - 1].left, arv(k), j)
                   /\ A[k].clash = (IF Begin(d, s[k], j, arv(k)) + d.zip[s[k]] > d.stop THEN 1 ELSE 0)
                   /\ A[k].clash = 0 =>
                        /\ A[k].offset = Begin(d, s[k], j, arv(k)) + d.zip[s[k]]
                        /\ A[k].left = IF IsRest(Types(d)[s[k]])
                                       THEN A[k - 1].left \ {MealOf(j)} ELSE A[k - 1].left
      BY <2>2, <2>3 DEF VisitCase, Fine
    <2>5. A[k].clash = 0
      BY <2>2 DEF Fine
    <2>6. A[k].offset \in Int /\ d.stop \in Int
      BY <1>14, <1>15
    <2>7. ~(Begin(d, s[k], j, arv(k)) + d.zip[s[k]] > d.stop)
      BY <2>4, <2>5
    <2> QED
      BY <2>4, <2>5, <2>6, <2>7
  <1> HIDE DEF Took
  <1>7. \A k \in 2..n : Took(k, w[k])
    BY <1>6
  <1> HIDE DEF w
  <1>8. \A k \in 2..n : w[k] \in Windows(d, s[k], A[k - 1].left)
    BY <1>7 DEF Took, FirstFit
  <1>9. \A k, l \in 1..n : k <= l => A[l].left \subseteq A[k].left
    <2> SUFFICES ASSUME NEW k \in 1..n PROVE \A l \in k..n : A[l].left \subseteq A[k].left
      BY <1>1
    <2> DEFINE I == {l \in k..n : A[l].left \subseteq A[k].left}
    <2>1. k \in I /\ k \in Nat
      BY <1>1
    <2>2. ASSUME NEW l \in k..n, l # k, l - 1 \in I PROVE l \in I
      <3>1. l \in 2..n
        BY <1>1, <2>2
      <3>2. A[l].left \subseteq A[l - 1].left
        BY <1>7, <3>1 DEF Took
      <3> QED
        BY <2>2, <3>2
    <2> HIDE DEF I
    <2>3. \A l \in k..n : l \in I
      BY <1>1, <2>1, <2>2, Upwards
    <2> QED
      BY <2>3 DEF I
  <1>10. \A k \in 2..n : w[k] \in Windows(d, s[k], BlockNeed(d))
    <2> SUFFICES ASSUME NEW k \in 2..n PROVE w[k] \in Windows(d, s[k], BlockNeed(d))
      OBVIOUS
    <2>1. k - 1 \in 1..n /\ 1 \in 1..n /\ 1 <= k - 1
      BY <1>1
    <2>2. A[k - 1].left \subseteq BlockNeed(d)
      BY <1>2, <1>9, <2>1 DEF FirstAcc
    <2> QED
      BY <1>8, <2>2 DEF Windows
  <1>11. ASSUME NEW k \in 2..n, NEW l \in 2..n, k < l,
                IsRest(Types(d)[s[k]]), IsRest(Types(d)[s[l]])
         PROVE  w[k] # w[l]
    <2>1. A[k].left = A[k - 1].left \ {MealOf(w[k])}
      BY <1>7, <1>11 DEF Took
    <2>2. k \in 1..n /\ l - 1 \in 1..n /\ k <= l - 1
      BY <1>1, <1>11
    <2>3. A[l - 1].left \subseteq A[k].left
      BY <1>9, <2>2
    <2>4. MealOf(w[l]) \in A[l - 1].left
      BY <1>8, <1>11 DEF Windows
    <2> QED
      BY <2>1, <2>3, <2>4
  <1>12. w \in Timetables(d, s)
    <2>1. w \in [2..n -> UNION {DOMAIN d.win[i] : i \in Place}]
      <3>1. \A k \in 2..n : w[k] \in DOMAIN d.win[s[k]] /\ s[k] \in Place
        BY <1>3, <1>10, WindowType
      <3>2. w = [k \in 2..n |-> w[k]]
        BY DEF w
      <3> QED
        BY <3>1, <3>2
    <2>2. DOMAIN w = 2..n
      BY DEF w
    <2>3. ASSUME NEW k \in 2..n, NEW l \in 2..n, k # l,
                 IsRest(Types(d)[s[k]]), IsRest(Types(d)[s[l]])
          PROVE  w[k] # w[l]
      <3>1. k < l \/ l < k
        BY <1>1, <2>3
      <3> QED
        BY <1>11, <2>3, <3>1
    <2> QED
      BY <1>1, <1>10, <2>1, <2>2, <2>3 DEF Timetables
  <1>13. Keeps(d, s, w)
    <2> DEFINE L == Leaves(d, s, w)
    <2>1. \A k \in 2..n : d.win[s[k]][w[k]].open \in Int
      BY <1>3, <1>10, WindowType
    <2>2. /\ L \in [1..n -> Int] /\ L[1] = d.start
          /\ \A k \in 2..n : L[k] = Begin(d, s[k], w[k], Arrival(d, s, k, L[k - 1])) + d.zip[s[k]]
      BY <2>1, LeavesAre DEF Chosen, n
    <2> HIDE DEF L
    <2>3. \A k \in 1..n : L[k] = A[k].offset
      <3> DEFINE I == {k \in 1..n : L[k] = A[k].offset}
      <3>1. 1 \in I
        BY <1>1, <1>2, <2>2 DEF FirstAcc
      <3>2. ASSUME NEW k \in 1..n, k # 1, k - 1 \in I PROVE k \in I
        <4>1. k \in 2..n
          BY <1>1, <3>2
        <4>2. L[k] = Begin(d, s[k], w[k], arv(k)) + d.zip[s[k]]
          BY <2>2, <3>2, <4>1
        <4> QED
          BY <1>7, <4>1, <4>2 DEF Took
      <3> HIDE DEF I
      <3>3. \A k \in 1..n : k \in I
        BY <1>1, <3>1, <3>2, Upwards
      <3> QED
        BY <3>3 DEF I
    <2>4. \A k \in 2..n : L[k] <= d.win[s[k]][w[k]].close /\ L[k] <= d.stop
      <3> SUFFICES ASSUME NEW k \in 2..n
                   PROVE  L[k] <= d.win[s[k]][w[k]].close /\ L[k] <= d.stop
        OBVIOUS
      <3>1. k \in 1..n
        BY <1>15
      <3>2. L[k] = Begin(d, s[k], w[k], arv(k)) + d.zip[s[k]]
        BY <1>7, <2>3, <3>1 DEF Took
      <3> QED
        BY <1>7, <3>2 DEF Took, FirstFit, Fits
    <2>5. L[n] + Item(d, s[n], s[n + 1]).time <= d.stop
      <3>1. A[n] \in Acc /\ Fine(A[n])
        BY <1>1, <1>2, <1>4
      <3>2. [A[n] EXCEPT !.clash = 1].clash = 1
        BY <3>1 DEF Acc
      <3>3. ~(A[n].offset + Item(d, s[n], s[n + 1]).time > d.stop)
        BY <1>1, <1>5, <3>1, <3>2 DEF Verdict, Fine
      <3>4. Item(d, s[n], s[n + 1]) \in Traffic /\ A[n].offset \in Int
        <4>1. n = Mid + 1 /\ n + 1 = Mid + 2
          BY OrderLegs DEF n
        <4> QED
          BY <3>1, <4>1, OrderLegs DEF Acc
      <3>5. Item(d, s[n], s[n + 1]).time \in Int
        BY <3>4 DEF Traffic
      <3> QED
        BY <1>1, <1>14, <2>3, <3>3, <3>4, <3>5
    <2>6. DOMAIN w = 2..n
      BY DEF w
    <2> QED
      BY <1>1, <2>4, <2>5, <2>6, KeepsLeaves DEF L
  <1> QED
    BY <1>12, <1>13

\* A window that fits a later arrival fits an earlier one, and the first window
\* that fits is over no later.
LEMMA EarlierFits ==
    ASSUME NEW d \in Day, NEW i \in Place, InOrder(d), NEW left,
           NEW a \in Int, NEW b \in Int, a <= b,
           NEW j \in Windows(d, i, left), Fits(d, i, j, b)
    PROVE  /\ Fits(d, i, j, a)
           /\ \A x : FirstFit(d, i, left, a, x) =>
                 Begin(d, i, x, a) \in Int /\ Begin(d, i, x, a) <= Begin(d, i, j, b)
  <1>1. j \in Nat /\ d.win[i][j].open \in Int /\ d.win[i][j].close \in Int /\ d.zip[i] \in Int
    BY WindowType, DayAssumption
  <1>2. Begin(d, i, j, a) \in Int /\ Begin(d, i, j, b) \in Int /\ Begin(d, i, j, a) <= Begin(d, i, j, b)
    BY <1>1 DEF Begin
  <1>3. Fits(d, i, j, a)
    BY <1>1, <1>2 DEF Fits
  <1>4. ASSUME NEW x, FirstFit(d, i, left, a, x)
        PROVE  Begin(d, i, x, a) \in Int /\ Begin(d, i, x, a) <= Begin(d, i, j, b)
    <2>1. x \in Windows(d, i, left) /\ x <= j /\ Fits(d, i, x, a)
      BY <1>3, <1>4 DEF FirstFit
    <2>2. /\ x \in Nat /\ d.win[i][x].open \in Int /\ d.win[i][x].close \in Int
          /\ x \in DOMAIN d.win[i] /\ j \in DOMAIN d.win[i] /\ x >= 1 /\ j <= Len(d.win[i])
      BY <2>1, WindowType
    <2>3. Begin(d, i, x, a) \in Int
      BY <2>2 DEF Begin
    <2>4. CASE ~IsRest(d.type[i])
      <3>1. d.win[i][x].open <= d.win[i][j].open
        BY <2>1, <2>2, <2>4 DEF InOrder
      <3> QED
        BY <1>1, <2>2, <2>3, <3>1 DEF Begin
    <2>5. CASE IsRest(d.type[i])
      <3>1. Len(d.win[i]) = 2 /\ d.zip[i] >= 0
        BY <2>5 DEF InOrder
      <3>2. IsRest(Types(d)[i])
        BY <2>5, TypesType DEF IsRest
      <3>3. CASE x = j
        BY <1>2, <2>3, <3>3
      <3>4. CASE x # j
        <4>1. x = 1 /\ j = 2
          BY <1>1, <2>1, <2>2, <3>1, <3>4
        <4>2. d.win[i][1] # NULL /\ d.win[i][2] # NULL
          BY <2>1, <3>2, <4>1 DEF Windows
        <4>3. d.win[i][1].close < d.win[i][2].open
          BY <2>5, <4>2 DEF InOrder
        <4>4. Begin(d, i, x, a) + d.zip[i] <= d.win[i][x].close
          BY <2>1 DEF Fits
        <4>5. d.win[i][j].open <= Begin(d, i, j, b)
          BY <1>1 DEF Begin
        <4> QED
          BY <1>1, <1>2, <2>2, <2>3, <3>1, <4>1, <4>3, <4>4, <4>5
      <3> QED
        BY <3>3, <3>4
    <2> QED
      BY <2>4, <2>5
  <1> QED
    BY <1>3, <1>4

\* The meals that a timetable has planned for the first k nodes.
Planned(d, s, w, k) == {MealOf(w[m]) : m \in {m \in 2..k : IsRest(Types(d)[s[m]])}}

\* CalClash has the same meals left as the timetable; or it has taken the lunch
\* where the timetable had the supper, and then it is too late for a lunch.
SameMeals(d, s, w, k, left, leave) ==
    \/ left = BlockNeed(d) \ Planned(d, s, w, k)
    \/ /\ Planned(d, s, w, k) = {"supper"} /\ left = BlockNeed(d) \ {"lunch"}
       /\ \E i \in Place : /\ IsRest(d.type[i]) /\ d.win[i][2] # NULL
                            /\ d.win[i][2].open \in Int /\ d.win[i][2].open <= leave

LEMMA PlannedNext ==
    ASSUME NEW d \in Day, NEW s \in Orders, NEW w, NEW k \in 2..(Mid + 1), Mid \in Nat
    PROVE  Planned(d, s, w, k) =
              Planned(d, s, w, k - 1) \union (IF IsRest(Types(d)[s[k]]) THEN {MealOf(w[k])} ELSE {})
  <1>1. \A m : m \in 2..k <=> m \in 2..(k - 1) \/ m = k
    OBVIOUS
  <1> QED
    BY <1>1 DEF Planned

LEMMA TimetableType ==
    ASSUME NEW d \in Day, NEW s \in Orders, Linked(d, s), NEW w \in Timetables(d, s)
    PROVE  /\ DOMAIN w = 2..(Mid + 1)
           /\ \A k \in 2..(Mid + 1) : w[k] \in Windows(d, s[k], BlockNeed(d))
           /\ \A k, l \in 2..(Mid + 1) :
                 k # l /\ IsRest(Types(d)[s[k]]) /\ IsRest(Types(d)[s[l]]) => w[k] # w[l]
           /\ Chosen(d, s, w)
  <1>1. Len(s) - 1 = Mid + 1
    BY OrderLegs
  <1>2. DOMAIN w = 2..(Mid + 1)
    BY <1>1 DEF Timetables
  <1>3. \A k \in 2..(Mid + 1) : w[k] \in Windows(d, s[k], BlockNeed(d))
    BY <1>2 DEF Timetables
  <1>4. \A k, l \in 2..(Mid + 1) :
            k # l /\ IsRest(Types(d)[s[k]]) /\ IsRest(Types(d)[s[l]]) => w[k] # w[l]
    BY <1>2 DEF Timetables
  <1>5. \A k \in 2..(Mid + 1) : d.win[s[k]][w[k]].open \in Int
    BY <1>3, OrderLegs, WindowType
  <1> QED
    BY <1>2, <1>3, <1>4, <1>5 DEF Chosen

\* The window of a restaurant's meal is the one of that meal.
LEMMA RestWindow ==
    ASSUME NEW d \in Day, InOrder(d), NEW i \in Place, IsRest(Types(d)[i]), NEW left,
           NEW j \in Windows(d, i, left)
    PROVE  /\ IsRest(d.type[i]) /\ d.zip[i] >= 0 /\ d.win[i][j] # NULL /\ MealOf(j) \in left
           /\ (j = 1 /\ MealOf(j) = "lunch") \/ (j = 2 /\ MealOf(j) = "supper")
  <1>1. IsRest(d.type[i])
    BY TypesType DEF IsRest
  <1>2. Len(d.win[i]) = 2 /\ d.zip[i] >= 0
    BY <1>1 DEF InOrder
  <1>3. j \in 1..2 /\ d.win[i][j] # NULL /\ MealOf(j) \in left
    BY <1>2 DEF Windows
  <1> QED
    BY <1>1, <1>2, <1>3 DEF MealOf

\* A place that a timetable leaves in time does not stop CalClash.
LEMMA TimetableStep ==
    ASSUME NEW d \in Day, NEW s \in Orders, Linked(d, s), InOrder(d),
           NEW w \in Timetables(d, s), NEW k \in 2..(Mid + 1),
           NEW acc \in Acc, Fine(acc), NEW lv \in Int, acc.offset <= lv,
           SameMeals(d, s, w, k - 1, acc.left, lv),
           NEW out \in Int, out = Begin(d, s[k], w[k], Arrival(d, s, k, lv)) + d.zip[s[k]],
           out <= d.win[s[k]][w[k]].close, out <= d.stop,
           NEW new, new = Visit(d, acc, s, k), ~new.fail
    PROVE  Fine(new) /\ new.offset <= out /\ SameMeals(d, s, w, k, new.left, out)
  <1> DEFINE i == s[k]
             j == w[k]
             a == Arrival(d, s, k, acc.offset)
             b == Arrival(d, s, k, lv)
  <1>1. i \in Place /\ Item(d, s[k - 1], i) \in Traffic /\ Mid \in Nat
    BY OrderLegs
  <1>2. Item(d, s[k - 1], i).time \in Nat /\ acc.offset \in Int /\ acc.left \in SUBSET Meals
    BY <1>1 DEF Traffic, Acc
  <1>3. a \in Int /\ b \in Int /\ a <= b /\ lv <= b
    BY <1>2 DEF Arrival
  <1>4. j \in Windows(d, i, BlockNeed(d))
    BY TimetableType
  <1>5. /\ d.win[i][j].open \in Int /\ d.win[i][j].close \in Int
        /\ d.zip[i] \in Int /\ d.zip[i] >= -1 /\ d.stop \in Int
    BY <1>1, <1>4, WindowType, DayAssumption DEF InOrder
  <1>6. Fits(d, i, j, b) /\ Begin(d, i, j, b) \in Int /\ b <= Begin(d, i, j, b)
        /\ d.win[i][j].open <= Begin(d, i, j, b)
    <2>1. Fits(d, i, j, b)
      BY DEF Fits
    <2> HIDE DEF i, j, b
    <2> QED
      BY <1>3, <1>5, <2>1 DEF Begin
  <1>7. VisitCase(d, acc, s, k, new)
    BY <1>1, VisitCases
  <1>8. Planned(d, s, w, k) =
            Planned(d, s, w, k - 1) \union (IF IsRest(Types(d)[i]) THEN {MealOf(j)} ELSE {})
    BY <1>1, PlannedNext
  <1>16. IsRest(Types(d)[i]) => MealOf(j) \notin Planned(d, s, w, k - 1)
    <2> SUFFICES ASSUME IsRest(Types(d)[i]), NEW m \in 2..(k - 1), IsRest(Types(d)[s[m]])
                 PROVE  MealOf(j) # MealOf(w[m])
      BY DEF Planned
    <2>1. m \in 2..(Mid + 1) /\ m # k
      BY <1>1
    <2>2. w[m] # w[k] /\ w[m] \in Windows(d, s[m], BlockNeed(d)) /\ s[m] \in Place
      BY <2>1, TimetableType, OrderLegs
    <2>3. (j = 1 /\ MealOf(j) = "lunch") \/ (j = 2 /\ MealOf(j) = "supper")
      BY <1>1, <1>4, RestWindow
    <2>4. (w[m] = 1 /\ MealOf(w[m]) = "lunch") \/ (w[m] = 2 /\ MealOf(w[m]) = "supper")
      BY <2>2, RestWindow
    <2> QED
      BY <2>2, <2>3, <2>4
  <1> HIDE DEF i, j, a, b
  \* What the timetable does, CalClash could do.
  <1>9. j \in Windows(d, i, acc.left)
    <2>1. CASE ~IsRest(Types(d)[i])
      BY <1>4, <2>1 DEF Windows
    <2>2. CASE IsRest(Types(d)[i])
      <3>1. /\ IsRest(d.type[i]) /\ d.zip[i] >= 0 /\ d.win[i][j] # NULL /\ MealOf(j) \in BlockNeed(d)
            /\ (j = 1 /\ MealOf(j) = "lunch") \/ (j = 2 /\ MealOf(j) = "supper")
        BY <1>1, <1>4, <2>2, RestWindow
      <3>2. MealOf(j) \notin Planned(d, s, w, k - 1)
        BY <1>16, <2>2
      <3>3. CASE acc.left = BlockNeed(d) \ Planned(d, s, w, k - 1)
        BY <1>4, <3>1, <3>2, <3>3 DEF Windows
      <3>4. CASE /\ Planned(d, s, w, k - 1) = {"supper"}
                 /\ \E r \in Place : /\ IsRest(d.type[r]) /\ d.win[r][2] # NULL
                                      /\ d.win[r][2].open \in Int /\ d.win[r][2].open <= lv
        <4>1. j = 1
          BY <3>1, <3>2, <3>4
        <4>2. PICK r \in Place : /\ IsRest(d.type[r]) /\ d.win[r][2] # NULL
                                 /\ d.win[r][2].open \in Int /\ d.win[r][2].open <= lv
          BY <3>4
        <4>3. d.win[i][j].close < d.win[r][2].open
          BY <1>1, <3>1, <4>1, <4>2 DEF InOrder
        <4>4. out = Begin(d, i, j, b) + d.zip[i] /\ out <= d.win[i][j].close
          BY DEF i, j, b
        <4> QED
          BY <1>3, <1>5, <1>6, <3>1, <4>2, <4>3, <4>4
      <3> QED
        BY <3>3, <3>4 DEF SameMeals
    <2> QED
      BY <2>1, <2>2
  <1>10. /\ Fits(d, i, j, a)
         /\ \A x : FirstFit(d, i, acc.left, a, x) =>
               Begin(d, i, x, a) \in Int /\ Begin(d, i, x, a) <= Begin(d, i, j, b)
    BY <1>1, <1>3, <1>6, <1>9, EarlierFits
  <1>11. PICK x : /\ d.zip[i] # -1
                  /\ FirstFit(d, i, acc.left, a, x)
                  /\ new.clash = (IF Begin(d, i, x, a) + d.zip[i] > d.stop THEN 1 ELSE 0)
                  /\ new.clash = 0 =>
                        /\ new.offset = Begin(d, i, x, a) + d.zip[i]
                        /\ new.left = IF IsRest(Types(d)[i]) THEN acc.left \ {MealOf(x)} ELSE acc.left
    BY <1>7, <1>9, <1>10 DEF VisitCase, i, a
  <1>12. Begin(d, i, x, a) \in Int /\ Begin(d, i, x, a) <= Begin(d, i, j, b)
    BY <1>10, <1>11
  <1>13. out = Begin(d, i, j, b) + d.zip[i] /\ out <= d.stop
    BY DEF i, j, b
  <1>14. Fine(new) /\ new.offset <= out /\ new.offset = Begin(d, i, x, a) + d.zip[i]
    BY <1>5, <1>6, <1>11, <1>12, <1>13 DEF Fine
  <1>15. SameMeals(d, s, w, k, new.left, out)
    <2>0. lv <= out
      BY <1>3, <1>5, <1>6, <1>11, <1>13
    <2>1. CASE ~IsRest(Types(d)[i])
      <3>1. new.left = acc.left /\ Planned(d, s, w, k) = Planned(d, s, w, k - 1)
        BY <1>8, <1>11, <1>14, <2>1 DEF Fine
      <3> QED
        BY <2>0, <3>1 DEF SameMeals
    <2>2. CASE IsRest(Types(d)[i])
      <3>1. /\ IsRest(d.type[i]) /\ d.zip[i] >= 0 /\ d.win[i][j] # NULL /\ MealOf(j) \in acc.left
            /\ (j = 1 /\ MealOf(j) = "lunch") \/ (j = 2 /\ MealOf(j) = "supper")
        BY <1>1, <1>9, <2>2, RestWindow
      <3>2. /\ x \in Windows(d, i, acc.left) /\ x <= j
        BY <1>9, <1>10, <1>11 DEF FirstFit
      <3>3. /\ MealOf(x) \in acc.left
            /\ (x = 1 /\ MealOf(x) = "lunch") \/ (x = 2 /\ MealOf(x) = "supper")
        BY <1>1, <2>2, <3>2, RestWindow
      <3>4. new.left = acc.left \ {MealOf(x)}
        BY <1>11, <1>14, <2>2 DEF Fine
      <3>5. Planned(d, s, w, k) = Planned(d, s, w, k - 1) \union {MealOf(j)}
        BY <1>8, <2>2
      <3>6. MealOf(j) \notin Planned(d, s, w, k - 1)
        BY <1>16, <2>2
      <3>7. CASE acc.left = BlockNeed(d) \ Planned(d, s, w, k - 1)
        <4>1. CASE x = j
          <5>1. new.left = BlockNeed(d) \ Planned(d, s, w, k)
            BY <3>4, <3>5, <3>7, <4>1
          <5> QED
            BY <5>1 DEF SameMeals
        <4>2. CASE x # j
          <5>1. x = 1 /\ j = 2 /\ MealOf(x) = "lunch" /\ MealOf(j) = "supper"
            BY <3>1, <3>2, <3>3, <4>2
          <5>2. Planned(d, s, w, k - 1) \subseteq Meals
            BY DEF Planned, MealOf, Meals
          <5>3. Planned(d, s, w, k - 1) = {}
            BY <3>3, <3>6, <3>7, <5>1, <5>2 DEF Meals
          <5>4. Planned(d, s, w, k) = {"supper"} /\ new.left = BlockNeed(d) \ {"lunch"}
            BY <3>4, <3>5, <3>7, <5>1, <5>3
          <5>5. d.win[i][2].open <= out
            BY <1>5, <1>6, <1>13, <3>1, <5>1
          <5> QED
            BY <1>1, <1>5, <3>1, <5>1, <5>4, <5>5 DEF SameMeals
        <4> QED
          BY <4>1, <4>2
      <3>8. CASE Planned(d, s, w, k - 1) = {"supper"} /\ acc.left = BlockNeed(d) \ {"lunch"}
        \* The timetable has its lunch now, CalClash has had it.
        BY <3>1, <3>6, <3>8
      <3> QED
        BY <3>7, <3>8 DEF SameMeals
    <2> QED
      BY <2>1, <2>2
  <1> QED
    BY <1>14, <1>15

\* A timetable that can be kept: there is no clash.
LEMMA KeepsClashFree ==
    ASSUME NEW d \in Day, NEW s \in Orders, Linked(d, s), InOrder(d), ~CalClash(d, s).fail,
           NEW w \in Timetables(d, s), Keeps(d, s, w)
    PROVE  CalClash(d, s).clash = 0
  <1> DEFINE n == Mid + 1
             A == Accs(d, s)
             L == Leaves(d, s, w)
             I == {k \in 1..n : /\ Fine(A[k]) /\ A[k].offset <= L[k]
                                /\ SameMeals(d, s, w, k, A[k].left, L[k])}
  <1>1. n \in Nat /\ 1 <= n /\ Len(s) - 1 = n /\ Len(s) = n + 1 /\ n \in 1..n /\ 1 \in 1..n
    BY OrderLegs
  <1>2. /\ A \in [1..n -> Acc] /\ A[1] = FirstAcc(d)
        /\ \A k \in 2..n : A[k] = Visit(d, A[k - 1], s, k)
    BY AccsAre
  <1>3. /\ L \in [1..n -> Int] /\ L[1] = d.start
        /\ \A k \in 2..n : L[k] = Begin(d, s[k], w[k], Arrival(d, s, k, L[k - 1])) + d.zip[s[k]]
    BY TimetableType, LeavesAre
  <1>4. DOMAIN w = 2..n
    BY TimetableType
  <1>5. /\ \A k \in 2..n : L[k] <= d.win[s[k]][w[k]].close /\ L[k] <= d.stop
        /\ L[n] + Item(d, s[n], s[n + 1]).time <= d.stop
    BY <1>1, <1>4, KeepsLeaves
  <1>6. \A k \in 1..n : ~A[k].fail
    BY FineBefore
  <1>7. CalClash(d, s) = Verdict(d, s, A[n])
    BY <1>1, ClashAccs
  <1>8. Item(d, s[n], s[n + 1]) \in Traffic /\ d.start \in Int /\ d.stop \in Int
    <2>1. n + 1 = Mid + 2
      BY OrderLegs
    <2> QED
      BY <2>1, OrderLegs, DayAssumption
  <1> HIDE DEF A, L
  <1>9. 1 \in I
    <2>1. Planned(d, s, w, 1) = {}
      <3>1. 2..1 = {}
        OBVIOUS
      <3> QED
        BY <3>1 DEF Planned
    <2>2. A[1].left = BlockNeed(d) \ Planned(d, s, w, 1)
      BY <1>2, <2>1 DEF FirstAcc
    <2>3. Fine(A[1]) /\ A[1].offset <= L[1]
      BY <1>2, <1>3, <1>8 DEF FirstAcc, Fine
    <2> QED
      BY <1>1, <2>2, <2>3 DEF SameMeals
  <1>10. ASSUME NEW k \in 1..n, k # 1, k - 1 \in I PROVE k \in I
    <2>1. k \in 2..n /\ k - 1 \in 1..n
      BY <1>1, <1>10
    <2>2. A[k - 1] \in Acc /\ L[k - 1] \in Int /\ L[k] \in Int /\ ~A[k].fail
      BY <1>2, <1>3, <1>6, <2>1
    <2>3. Fine(A[k - 1]) /\ A[k - 1].offset <= L[k - 1]
          /\ SameMeals(d, s, w, k - 1, A[k - 1].left, L[k - 1])
      BY <1>10
    <2>4. L[k] = Begin(d, s[k], w[k], Arrival(d, s, k, L[k - 1])) + d.zip[s[k]]
          /\ L[k] <= d.win[s[k]][w[k]].close /\ L[k] <= d.stop
          /\ A[k] = Visit(d, A[k - 1], s, k)
      BY <1>2, <1>3, <1>5, <2>1
    <2>5. Fine(A[k]) /\ A[k].offset <= L[k] /\ SameMeals(d, s, w, k, A[k].left, L[k])
      BY <2>1, <2>2, <2>3, <2>4, TimetableStep
    <2> QED
      BY <2>5
  <1> HIDE DEF I
  <1>11. \A k \in 1..n : k \in I
    BY <1>1, <1>9, <1>10, Upwards
  <1>12. Fine(A[n]) /\ A[n].offset <= L[n] /\ A[n] \in Acc /\ L[n] \in Int
    BY <1>1, <1>2, <1>3, <1>11 DEF I
  <1>13. A[n].offset \in Int /\ Item(d, s[n], s[n + 1]).time \in Int
    BY <1>8, <1>12 DEF Acc, Traffic
  <1>14. ~(A[n].offset + Item(d, s[n], s[n + 1]).time > d.stop)
    BY <1>5, <1>8, <1>12, <1>13
  <1> QED
    BY <1>1, <1>7, <1>12, <1>14 DEF Verdict, Fine

\* ClashExact of every day: CalClash, which takes the first window that fits
\* and never goes back, finds a clash in exactly those orders for which no
\* choice of windows and meals works out.
THEOREM DFSClash == DFSSpec => []ClashExact
  <1>1. DFSTypeOK => ClashExact
    <2> SUFFICES ASSUME day \in Day, InOrder(day), NEW s \in Good(day)
                 PROVE  CalClash(day, s).clash = 0 <=> \E w \in Timetables(day, s) : Keeps(day, s, w)
      BY DEF ClashExact, DFSTypeOK
    <2>1. s \in Orders /\ Linked(day, s) /\ ~CalClash(day, s).fail
      BY DEF Good, Possible, Linked
    <2> QED
      BY <2>1, ClashFreeKeeps, KeepsClashFree
  <1> QED
    BY <1>1, DFSTypes, PTL

=============================================================================
