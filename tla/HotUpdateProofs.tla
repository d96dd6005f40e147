-------------------------- MODULE HotUpdateProofs --------------------------
(***************************************************************************)
(* Proofs about PrivateData, for every set of rows: the lists of the       *)
(* cities are exact in every object, the grid shows the newest one, and    *)
(* the updates lead to what a restart would load.                          *)
(* And about HotUpdate, for every number of threads and tables and every   *)
(* set of addresses: the data object of a request is never freed, never    *)
(* changed, and no object is leaked.                                       *)
(***************************************************************************)
EXTENDS HotUpdate, PrivateData, FiniteSetTheorems, SequenceTheorems, WellFoundedInduction,
        TLAPS

-----------------------------------------------------------------------------
(* PrivateData: what the objects hold. *)

LEMMA LeastNumber ==
    ASSUME NEW S \in SUBSET Nat, S # {}
    PROVE  \E x \in S : \A y \in S : x <= y
  <1> DEFINE R == {ss \in Nat \X Nat : ss[1] < ss[2]}
  <1>1. IsWellFoundedOn(R, Nat)
    BY NatLessThanWellFounded DEF OpToRel
  <1>2. \A y, z \in Nat : y < z => <<y, z>> \in R
    OBVIOUS
  <1> HIDE DEF R
  <1>3. PICK x \in S : \A y \in S : ~(<<y, x>> \in R)
    BY <1>1, WFMin
  <1>4. \A y \in S : ~(y < x) /\ y \in Nat /\ x \in Nat
    BY <1>2, <1>3
  <1> QED
    BY <1>4

LEMMA GreatestNumber ==
    ASSUME NEW n \in Nat, NEW H \in SUBSET (1..n), H # {}
    PROVE  \E j \in H : \A k \in H : k <= j
  <1> DEFINE L == {n - k : k \in H}
  <1>1. L \in SUBSET Nat /\ L # {}
    <2>1. \A k \in H : n - k \in Nat
      OBVIOUS
    <2>2. L # {}
      OBVIOUS
    <2> QED
      BY <2>1, <2>2
  <1>2. PICK e \in L : \A f \in L : e <= f
    <2> HIDE DEF L
    <2> QED
      BY <1>1, LeastNumber
  <1>3. PICK j \in H : e = n - j
    OBVIOUS
  <1>4. \A k \in H : n - j <= n - k
    BY <1>2, <1>3
  <1> QED
    BY <1>4

\* A set with b in it, and with every number up to n whose predecessor it has,
\* has all of b..n: there is no least number it misses.
LEMMA Upwards ==
    ASSUME NEW b \in Nat, NEW n \in Nat, NEW I, b \in I,
           \A k \in b..n : k # b /\ k - 1 \in I => k \in I
    PROVE  \A k \in b..n : k \in I
  <1> DEFINE T == {k \in b..n : k \notin I}
  <1>1. SUFFICES ASSUME T # {} PROVE FALSE
    OBVIOUS
  <1>2. T \in SUBSET Nat
    OBVIOUS
  <1>3. PICK x \in T : \A y \in T : x <= y
    <2> HIDE DEF T
    <2> QED
      BY <1>1, <1>2, LeastNumber
  <1>4. x \in b..n /\ x # b /\ x - 1 \in b..n /\ x - 1 \notin T
    BY <1>3
  <1> QED
    BY <1>4

\* A recursion over b..n with values in S: where it begins, and the steps.
Recursive(b, n, S, a, step) ==
    b \in Nat /\ n \in Nat /\ b <= n /\ a \in S /\ step \in [b..n -> [S -> S]]

\* It has a solution: the lengths to which there is one are closed under going
\* one further.
LEMMA Recursion ==
    ASSUME NEW b, NEW n, NEW S, NEW a, NEW step, Recursive(b, n, S, a, step)
    PROVE  \E f \in [b..n -> S] :
              f[b] = a /\ \A k \in b..n : k # b => f[k] = step[k][f[k - 1]]
  <1> USE DEF Recursive
  <1> DEFINE Solves(f, m) == f[b] = a /\ \A k \in b..m : k # b => f[k] = step[k][f[k - 1]]
             I == {m \in b..n : \E f \in [b..n -> S] : Solves(f, m)}
  <1>1. b \in I
    <2> DEFINE f == [k \in b..n |-> a]
    <2>1. b \in b..n /\ \A k \in b..b : k = b
      OBVIOUS
    <2>2. f \in [b..n -> S] /\ f[b] = a
      BY <2>1
    <2> HIDE DEF f
    <2>3. Solves(f, b)
      BY <2>1, <2>2
    <2> QED
      BY <2>1, <2>2, <2>3
  <1>2. ASSUME NEW m \in b..n, m # b, m - 1 \in I PROVE m \in I
    <2> USE <1>2
    <2>1. PICK f \in [b..n -> S] : Solves(f, m - 1)
      BY <1>2
    <2> DEFINE g == [f EXCEPT ![m] = step[m][f[m - 1]]]
    <2>2. m - 1 \in b..n /\ m \in b..n /\ f[m - 1] \in S /\ step[m] \in [S -> S]
      OBVIOUS
    <2>3. step[m][f[m - 1]] \in S
      BY <2>2
    <2>4. g \in [b..n -> S] /\ g[m] = step[m][f[m - 1]] /\ \A k \in b..n : k # m => g[k] = f[k]
      BY <2>3
    <2> HIDE DEF g
    <2>5. \A k \in b..m : k # b => g[k] = step[k][g[k - 1]]
      <3> SUFFICES ASSUME NEW k \in b..m, k # b PROVE g[k] = step[k][g[k - 1]]
        OBVIOUS
      <3>1. CASE k = m
        <4>1. m - 1 \in b..n /\ m - 1 # m
          BY <2>2
        <4> QED
          BY <2>4, <3>1, <4>1
      <3>2. CASE k # m
        <4>1. k \in b..(m - 1) /\ k \in b..n /\ k - 1 \in b..n /\ k - 1 # m
          BY <3>2
        <4> QED
          BY <2>1, <2>4, <3>2, <4>1
      <3> QED
        BY <3>1, <3>2
    <2>6. Solves(g, m)
      <3>1. b \in b..n /\ b # m
        OBVIOUS
      <3> QED
        BY <2>1, <2>4, <2>5, <3>1
    <2> QED
      BY <2>2, <2>4, <2>6
  <1> HIDE DEF I
  <1>3. n \in I
    <2>1. \A k \in b..n : k \in I
      BY <1>1, <1>2, Upwards
    <2> QED
      BY <2>1
  <1> QED
    BY <1>3 DEF I


LEMMA Enumerated ==
    ASSUME NEW S, IsFiniteSet(S)
    PROVE  SetToSeq(S) \in Seq(S) /\ ToSet(SetToSeq(S)) = S
  <1> DEFINE n == Cardinality(S)
  <1>1. n \in Nat /\ ExistsBijection(1..n, S)
    BY FS_CardinalityType
  <1>2. PICK f : f \in Bijection(1..n, S)
    BY <1>1 DEF ExistsBijection
  <1>3. f \in [1..n -> S] /\ IsInjective(f)
    BY <1>2 DEF Bijection, Injection
  <1>4. SetToSeq(S) \in [1..n -> S] /\ IsInjective(SetToSeq(S))
    BY <1>3 DEF SetToSeq
  <1>5. SetToSeq(S) \in Injection(1..n, S)
    BY <1>4 DEF Injection
  <1>6. Cardinality(1..n) = n
    BY <1>1, FS_Interval
  <1>7. SetToSeq(S) \in Surjection(1..n, S)
    BY <1>5, <1>6, FS_Injection
  <1>8. \A y \in S : \E k \in 1..n : SetToSeq(S)[k] = y
    BY <1>7 DEF Surjection
  <1> HIDE DEF n
  <1>9. ToSet(SetToSeq(S)) = S
    BY <1>4, <1>8 DEF ToSet
  <1> QED
    BY <1>1, <1>4, <1>9

LEMMA ToSetJoined ==
    ASSUME NEW S, NEW s \in Seq(S), NEW t \in Seq(S)
    PROVE  ToSet(s \o t) = ToSet(s) \union ToSet(t)
  <1> DEFINE u == s \o t
             n == Len(s)
             m == Len(t)
  <1>1. /\ n \in Nat /\ m \in Nat /\ DOMAIN s = 1..n /\ DOMAIN t = 1..m /\ DOMAIN u = 1..(n + m)
    OBVIOUS
  <1>2. \A k \in 1..(n + m) : u[k] = IF k <= n THEN s[k] ELSE t[k - n]
    BY ConcatProperties
  <1> HIDE DEF u, n, m
  <1>3. ASSUME NEW x \in ToSet(u) PROVE x \in ToSet(s) \union ToSet(t)
    <2>1. PICK k \in 1..(n + m) : x = u[k]
      BY <1>1, <1>3 DEF ToSet
    <2>2. CASE k <= n
      BY <1>1, <1>2, <2>1, <2>2 DEF ToSet
    <2>3. CASE ~(k <= n)
      <3>1. k - n \in 1..m
        BY <1>1, <2>3
      <3> QED
        BY <1>1, <1>2, <2>1, <2>3, <3>1 DEF ToSet
    <2> QED
      BY <2>2, <2>3
  <1>4. ASSUME NEW x \in ToSet(s) PROVE x \in ToSet(u)
    <2>1. PICK k \in 1..n : x = s[k]
      BY <1>1, <1>4 DEF ToSet
    <2>2. k \in 1..(n + m) /\ u[k] = s[k]
      BY <1>1, <1>2
    <2> QED
      BY <1>1, <2>1, <2>2 DEF ToSet
  <1>5. ASSUME NEW x \in ToSet(t) PROVE x \in ToSet(u)
    <2>1. PICK k \in 1..m : x = t[k]
      BY <1>1, <1>5 DEF ToSet
    <2>2. k + n \in 1..(n + m) /\ ~(k + n <= n) /\ (k + n) - n = k
      BY <1>1
    <2>3. u[k + n] = t[k]
      BY <1>2, <2>2
    <2> QED
      BY <1>1, <2>1, <2>2, <2>3 DEF ToSet
  <1> QED
    BY <1>3, <1>4, <1>5 DEF u

\* A sequence of elements of S that lists the set T.
Lists(S, seq, T) == seq \in Seq(S) /\ ToSet(seq) = T

LEMMA SevenTables ==
    ASSUME NEW S, NEW s1, NEW s2, NEW s3, NEW s4, NEW s5, NEW s6, NEW s7,
           NEW T1, NEW T2, NEW T3, NEW T4, NEW T5, NEW T6, NEW T7,
           Lists(S, s1, T1), Lists(S, s2, T2), Lists(S, s3, T3), Lists(S, s4, T4),
           Lists(S, s5, T5), Lists(S, s6, T6), Lists(S, s7, T7)
    PROVE  Lists(S, s1 \o s2 \o s3 \o s4 \o s5 \o s6 \o s7,
                 T1 \union T2 \union T3 \union T4 \union T5 \union T6 \union T7)
  <1>1. \A s, t, A, B : Lists(S, s, A) /\ Lists(S, t, B) => Lists(S, s \o t, A \union B)
    BY ToSetJoined DEF Lists
  <1>2. Lists(S, s1 \o s2, T1 \union T2)
    BY <1>1
  <1>3. Lists(S, s1 \o s2 \o s3, T1 \union T2 \union T3)
    BY <1>1, <1>2
  <1>4. Lists(S, s1 \o s2 \o s3 \o s4, T1 \union T2 \union T3 \union T4)
    BY <1>1, <1>3
  <1>5. Lists(S, s1 \o s2 \o s3 \o s4 \o s5, T1 \union T2 \union T3 \union T4 \union T5)
    BY <1>1, <1>4
  <1>6. Lists(S, s1 \o s2 \o s3 \o s4 \o s5 \o s6,
              T1 \union T2 \union T3 \union T4 \union T5 \union T6)
    BY <1>1, <1>5
  <1> QED
    BY <1>1, <1>6

LEMMA Joined ==
    ASSUME NEW S, NEW s \in Seq(S), NEW t \in Seq(S), NEW u \in Seq(S),
           Len(s) = 1, Len(t) = 1, Len(u) = 2, u[1] = s[1], u[2] = t[1]
    PROVE  s \o t = u
  <1>1. s \o t \in Seq(S) /\ Len(s \o t) = 2
    OBVIOUS
  <1>2. (s \o t)[1] = u[1] /\ (s \o t)[2] = u[2]
    BY <1>1, ConcatProperties
  <1> DEFINE v == s \o t
  <1>3. v \in Seq(S) /\ Len(v) = 2 /\ v[1] = u[1] /\ v[2] = u[2]
    BY <1>1, <1>2
  <1> HIDE DEF v
  <1>4. \A k \in 1..Len(u) : u[k] = v[k]
    BY <1>3
  <1>5. u = v
    BY <1>3, <1>4, SeqEqual
  <1> QED
    BY <1>5 DEF v

LEMMA Pair ==
    ASSUME NEW x, NEW y
    PROVE  <<x>> \o <<y>> = <<x, y>>
  <1>1. <<x>> \in Seq({x, y}) /\ <<y>> \in Seq({x, y}) /\ <<x, y>> \in Seq({x, y})
    OBVIOUS
  <1>2. /\ Len(<<x>>) = 1 /\ Len(<<y>>) = 1 /\ Len(<<x, y>>) = 2
        /\ <<x, y>>[1] = <<x>>[1] /\ <<x, y>>[2] = <<y>>[1]
    OBVIOUS
  <1> QED
    BY <1>1, <1>2, Joined

ListKind == VarKind \union TourKind

\* Which key a place has.
LEMMA RowName ==
    ASSUME NEW r \in DataRow
    PROVE  /\ r.id = <<r.id[1]>> /\ r.id[1] # "coreHotel" /\ r.pt # "gather" /\ r.pt # None
           /\ r.kind \in Kind
           /\ r.refer = None => getUniqId(r) = <<r.id[1]>>
           /\ r.refer # None => /\ getUniqId(r) = <<r.id[1], r.pt>>
                                /\ r.kind \in VarKind \union {"hotel"}
           /\ \/ r.kind \in VarKind /\ MapOf(r) = r.kind
              \/ r.kind \in TourKind /\ MapOf(r) = "tour"
              \/ r.kind \in {"city", "hotel", "fun"} /\ MapOf(r) = r.kind
  <1>1. /\ r.id = <<r.id[1]>> /\ r.id[1] # "coreHotel" /\ r.pt # "gather" /\ r.pt # None
        /\ r.kind \in Kind /\ (r.refer # None => r.kind \in VarKind \union {"hotel"})
    BY RowAssumption, IdAssumption
  <1>2. \A x, y : <<x>> \o <<y>> = <<x, y>>
    BY Pair
  <1>3. r.id \o <<r.pt>> = <<r.id[1], r.pt>>
    BY <1>1, <1>2
  <1>4. r.refer = None => getUniqId(r) = r.id
    BY DEF getUniqId
  <1>5. r.refer # None => getUniqId(r) = r.id \o <<r.pt>>
    BY <1>1 DEF getUniqId
  <1>6. \/ r.kind \in VarKind /\ MapOf(r) = r.kind
        \/ r.kind \in TourKind /\ MapOf(r) = "tour"
        \/ r.kind \in {"city", "hotel", "fun"} /\ MapOf(r) = r.kind
    BY <1>1 DEF MapOf, VarKind, TourKind, Kind
  <1> QED
    BY <1>1, <1>3, <1>4, <1>5, <1>6

LEMMA CoreName ==
    ASSUME NEW r \in DataRow, NEW p, p = Made("hotel", coreId(r.id), r.pt, r.cell)
    PROVE  /\ p.kind = "hotel" /\ p.pt = r.pt /\ MapOf(p) = "hotel" /\ Entries(p) = {}
           /\ p.id = <<"coreHotel", r.id[1]>> /\ getUniqId(p) = p.id
  <1>1. \A x, y : <<x>> \o <<y>> = <<x, y>>
    BY Pair
  <1>2. coreId(r.id) = <<"coreHotel", r.id[1]>>
    BY <1>1, RowName DEF coreId
  <1>3. p.kind = "hotel" /\ p.id = coreId(r.id) /\ p.refer = None /\ p.pt = r.pt
    BY DEF Made
  <1> QED
    BY <1>2, <1>3 DEF MapOf, Entries, getUniqId, VarKind, TourKind

LEMMA LocalName ==
    ASSUME NEW r \in DataRow, NEW p, p = Made("view", gatherId(r.id), None, None)
    PROVE  /\ p.kind = "view" /\ p.pt = None /\ MapOf(p) = "view" /\ Entries(p) = {}
           /\ p.id = <<r.id[1], "gather">> /\ getUniqId(p) = p.id
  <1>1. \A x, y : <<x>> \o <<y>> = <<x, y>>
    BY Pair
  <1>2. gatherId(r.id) = <<r.id[1], "gather">>
    BY <1>1, RowName DEF gatherId
  <1>3. p.kind = "view" /\ p.id = gatherId(r.id) /\ p.refer = None /\ p.cids = {} /\ p.pt = None
    BY DEF Made
  <1> QED
    BY <1>2, <1>3 DEF MapOf, Entries, getUniqId, VarKind, TourKind

LEMMA EntriesOf ==
    ASSUME NEW p \in AnyPlace
    PROVE  /\ Entries(p) # {} => p \in DataRow /\ p.kind \in ListKind
           /\ \A x \in Entries(p) : x[1] = MapOf(p) /\ x[2] = p.pt /\ x[4] = p.id
  <1>1. \A x \in Entries(p) : x[1] = MapOf(p) /\ x[2] = p.pt /\ x[4] = p.id
    BY DEF Entries
  <1>2. CASE p \in DataRow
    BY <1>1, <1>2 DEF Entries, ListKind
  <1>3. CASE p \in Cores \union Locals
    BY <1>1, <1>3, CoreName, LocalName DEF Cores, Locals
  <1> QED
    BY <1>2, <1>3 DEF AnyPlace

\* The key tells the places of one map apart, and what it says of a place.
LEMMA LongKeys ==
    /\ \A x, y : Len(<<x>>) = 1 /\ Len(<<x, y>>) = 2
    /\ \A x, y : <<x>> = <<y>> => x = y
    /\ \A x, y, v, w : <<x, y>> = <<v, w>> => x = v /\ y = w
    /\ \A x, v, w : <<x>> # <<v, w>>
  <1>1. \A x, y : Len(<<x>>) = 1 /\ Len(<<x, y>>) = 2
    OBVIOUS
  <1>2. \A x, y : <<x>> = <<y>> => x = y
    OBVIOUS
  <1>3. \A x, y, v, w : <<x, y>> = <<v, w>> => x = v /\ y = w
    OBVIOUS
  <1>4. \A x, v, w : <<x>> # <<v, w>>
    BY <1>1
  <1> QED
    BY <1>1, <1>2, <1>3, <1>4

LEMMA MadeIds ==
    /\ \A c \in Cores : MapOf(c) = "hotel" /\ c.id[1] = "coreHotel" /\ \A x : c.id # <<x>>
    /\ \A c \in Locals : MapOf(c) = "view" /\ c.cell = None /\ \A x : c.id # <<x>>
  <1>1. ASSUME NEW c \in Cores
        PROVE  MapOf(c) = "hotel" /\ c.id[1] = "coreHotel" /\ \A x : c.id # <<x>>
    <2>1. PICK r \in DataRow : c = Made("hotel", coreId(r.id), r.pt, r.cell)
      BY DEF Cores
    <2>2. MapOf(c) = "hotel" /\ c.id = <<"coreHotel", r.id[1]>>
      BY <2>1, CoreName
    <2>3. <<"coreHotel", r.id[1]>>[1] = "coreHotel"
      OBVIOUS
    <2> QED
      BY <2>2, <2>3, LongKeys
  <1>2. ASSUME NEW c \in Locals
        PROVE  MapOf(c) = "view" /\ c.cell = None /\ \A x : c.id # <<x>>
    <2>1. PICK r \in DataRow : c = Made("view", gatherId(r.id), None, None)
      BY DEF Locals
    <2>2. MapOf(c) = "view" /\ c.id = <<r.id[1], "gather">>
      BY <2>1, LocalName
    <2>3. c.cell = None
      BY <2>1 DEF Made
    <2> QED
      BY <2>2, <2>3, LongKeys
  <1> QED
    BY <1>1, <1>2

LEMMA CoreKey ==
    ASSUME NEW p \in AnyPlace, NEW r \in DataRow, getUniqId(p) = coreId(r.id)
    PROVE  p \in Cores
  <1>1. coreId(r.id) = <<"coreHotel", r.id[1]>>
    BY RowName, Pair DEF coreId
  <1>2. p \notin DataRow
    BY <1>1, RowName, LongKeys
  <1>3. p \notin Locals
    BY <1>1, RowName, LocalName, LongKeys DEF Locals
  <1> QED
    BY <1>2, <1>3 DEF AnyPlace

\* A place whose key is one string is a row of its own.
LEMMA ShortKey ==
    ASSUME NEW p \in AnyPlace, NEW x, getUniqId(p) = <<x>>
    PROVE  p \in DataRow /\ p.refer = None /\ p.id = <<x>>
  <1>1. CASE p \in DataRow
    BY <1>1, RowName, LongKeys
  <1>2. CASE p \in Cores \union Locals
    BY <1>2, CoreName, LocalName, LongKeys DEF Cores, Locals
  <1> QED
    BY <1>1, <1>2 DEF AnyPlace

\* A row of its own shares its id only with other forms of itself.
LEMMA OwnId ==
    ASSUME NEW q \in DataRow, NEW r \in DataRow, q.id = r.id, q.refer = None
    PROVE  q.kind = r.kind /\ q.pt = r.pt /\ MapOf(q) = MapOf(r)
  BY IdAssumption DEF MapOf


-----------------------------------------------------------------------------
(* Looking for a place. *)

LEMMA FirstOf ==
    ASSUME NEW n \in Nat, NEW f, DOMAIN f = 1..n
    PROVE  \/ First(f) = {} /\ \A k \in 1..n : f[k] = {}
           \/ \E k \in 1..n : /\ f[k] # {} /\ First(f) = f[k]
                              /\ \A j \in 1..n : j < k => f[j] = {}
  <1> DEFINE hits == {k \in 1..n : f[k] # {}}
             least == CHOOSE k \in hits : \A j \in hits : k <= j
  <1>1. First(f) = IF hits = {} THEN {} ELSE f[least]
    BY DEF First
  <1>2. CASE hits = {}
    BY <1>1, <1>2
  <1>3. CASE hits # {}
    <2>1. hits \in SUBSET Nat
      OBVIOUS
    <2>2. PICK x \in hits : \A y \in hits : x <= y
      <3> HIDE DEF hits
      <3> QED
        BY <1>3, <2>1, LeastNumber
    <2>3. least \in hits /\ \A y \in hits : least <= y
      <3> HIDE DEF hits
      <3> QED
        BY <2>2
    <2> HIDE DEF least
    <2>4. least \in 1..n /\ f[least] # {} /\ First(f) = f[least]
      BY <1>1, <1>3, <2>3
    <2>5. \A j \in 1..n : j < least => f[j] = {}
      BY <2>3, <2>4
    <2> QED
      BY <2>4, <2>5
  <1> QED
    BY <1>2, <1>3

LEMMA FirstConcat ==
    ASSUME NEW T, NEW f \in Seq(T), NEW g \in Seq(T)
    PROVE  First(f \o g) = IF First(f) # {} THEN First(f) ELSE First(g)
  <1> DEFINE h == f \o g
             n == Len(f)
             m == Len(g)
  <1>1. /\ h \in Seq(T) /\ n \in Nat /\ m \in Nat /\ Len(h) = n + m
        /\ DOMAIN h = 1..(n + m) /\ DOMAIN f = 1..n /\ DOMAIN g = 1..m
    OBVIOUS
  <1>2. \A k \in 1..(n + m) : h[k] = IF k <= n THEN f[k] ELSE g[k - n]
    BY ConcatProperties
  <1> HIDE DEF h, n, m
  <1>3. \A k \in 1..n : k \in 1..(n + m) /\ h[k] = f[k]
    BY <1>1, <1>2
  <1>4. \A k \in 1..m : k + n \in 1..(n + m) /\ h[k + n] = g[k]
    <2> SUFFICES ASSUME NEW k \in 1..m PROVE k + n \in 1..(n + m) /\ h[k + n] = g[k]
      OBVIOUS
    <2>1. k + n \in 1..(n + m) /\ ~(k + n <= n) /\ (k + n) - n = k
      BY <1>1
    <2> QED
      BY <1>2, <2>1
  <1>5. CASE First(f) # {}
    <2>1. PICK k \in 1..n : /\ f[k] # {} /\ First(f) = f[k]
                            /\ \A j \in 1..n : j < k => f[j] = {}
      BY <1>1, <1>5, FirstOf
    <2>2. PICK x \in 1..(n + m) : /\ h[x] # {} /\ First(h) = h[x]
                                  /\ \A j \in 1..(n + m) : j < x => h[j] = {}
      <3>1. h[k] # {} /\ k \in 1..(n + m) /\ n + m \in Nat
        BY <1>1, <1>3, <2>1
      <3> QED
        BY <1>1, <3>1, FirstOf
    <2>3. x <= k
      BY <1>3, <2>1, <2>2, <1>1
    <2>4. x \in 1..n /\ h[x] = f[x]
      BY <1>1, <1>3, <2>1, <2>2, <2>3
    <2>5. x = k
      BY <2>1, <2>2, <2>3, <2>4, <1>1
    <2> QED
      BY <1>5, <2>1, <2>2, <2>4, <2>5 DEF h
  <1>6. CASE First(f) = {}
    <2>1. \A k \in 1..n : f[k] = {}
      BY <1>1, <1>6, FirstOf
    <2>2. CASE First(g) = {}
      <3>1. \A k \in 1..m : g[k] = {}
        BY <1>1, <2>2, FirstOf
      <3>2. \A k \in 1..(n + m) : h[k] = {}
        <4> SUFFICES ASSUME NEW k \in 1..(n + m) PROVE h[k] = {}
          OBVIOUS
        <4>1. CASE k \in 1..n
          BY <1>3, <2>1, <4>1
        <4>2. CASE k - n \in 1..m
          BY <1>2, <1>1, <3>1, <4>2
        <4> QED
          BY <1>1, <4>1, <4>2
      <3>3. First(h) = {}
        <4>1. n + m \in Nat
          BY <1>1
        <4> QED
          BY <1>1, <3>2, <4>1, FirstOf
      <3> QED
        BY <1>6, <2>2, <3>3 DEF h
    <2>3. CASE First(g) # {}
      <3>1. PICK k \in 1..m : /\ g[k] # {} /\ First(g) = g[k]
                              /\ \A j \in 1..m : j < k => g[j] = {}
        BY <1>1, <2>3, FirstOf
      <3>2. PICK x \in 1..(n + m) : /\ h[x] # {} /\ First(h) = h[x]
                                    /\ \A j \in 1..(n + m) : j < x => h[j] = {}
        <4>1. h[k + n] # {} /\ k + n \in 1..(n + m) /\ n + m \in Nat
          BY <1>1, <1>4, <3>1
        <4> QED
          BY <1>1, <4>1, FirstOf
      <3>3. x \notin 1..n
        BY <1>3, <2>1, <3>2
      <3>4. x - n \in 1..m /\ h[x] = g[x - n]
        BY <1>1, <1>2, <3>2, <3>3
      <3>5. x <= k + n
        BY <1>1, <1>4, <3>1, <3>2
      <3>6. x - n = k
        <4>1. k \in Int /\ x \in Int /\ n \in Int
          BY <1>1
        <4>2. x - n <= k
          BY <3>5, <4>1
        <4>3. g[x - n] # {}
          BY <3>2, <3>4
        <4>4. ~(x - n < k)
          BY <3>1, <3>4, <4>3
        <4> QED
          BY <4>1, <4>2, <4>4
      <3> QED
        BY <1>6, <3>1, <3>2, <3>4, <3>6 DEF h
    <2> QED
      BY <2>2, <2>3
  <1> QED
    BY <1>5, <1>6

LEMMA FirstOfTwo ==
    ASSUME NEW A, NEW B
    PROVE  First(<<A, B>>) = IF A # {} THEN A ELSE B
  <1> DEFINE f == <<A, B>>
  <1>1. DOMAIN f = 1..2 /\ f[1] = A /\ f[2] = B
    OBVIOUS
  <1> HIDE DEF f
  <1>2. 1 \in 1..2 /\ 2 \in 1..2 /\ 1 < 2 /\ \A k \in 1..2 : k = 1 \/ k = 2
    OBVIOUS
  <1>3. \/ First(f) = {} /\ \A k \in 1..2 : f[k] = {}
        \/ \E k \in 1..2 : f[k] # {} /\ First(f) = f[k] /\ \A j \in 1..2 : j < k => f[j] = {}
    BY <1>1, FirstOf
  <1>4. First(f) = IF A # {} THEN A ELSE B
    BY <1>1, <1>2, <1>3
  <1> QED
    BY <1>4 DEF f

PlaceMap == {"hotel", "view", "shop", "restaurant"}

LEMMA SeqOfFunction ==
    ASSUME NEW T, NEW n \in Nat, NEW f \in [1..n -> T]
    PROVE  f \in Seq(T)
  OBVIOUS

LEMMA PlaceMapsAre ==
    ASSUME NEW s, NEW key
    PROVE  /\ PlaceMaps(s, key) \in Seq(SUBSET s.places)
           /\ \/ First(PlaceMaps(s, key)) = {} /\ \A m \in PlaceMap : At(s, m, key) = {}
              \/ \E m \in PlaceMap : At(s, m, key) # {} /\ First(PlaceMaps(s, key)) = At(s, m, key)
  <1> DEFINE f == PlaceMaps(s, key)
  <1>1. /\ DOMAIN f = 1..4 /\ f \in [1..4 -> SUBSET s.places]
        /\ f[1] = At(s, "hotel", key) /\ f[2] = At(s, "view", key)
        /\ f[3] = At(s, "shop", key) /\ f[4] = At(s, "restaurant", key)
    BY DEF PlaceMaps, At
  <1> HIDE DEF f
  <1>2. f \in Seq(SUBSET s.places)
    <2> DEFINE T == SUBSET s.places
    <2>1. f \in [1..4 -> T]
      BY <1>1
    <2> HIDE DEF T
    <2>2. f \in Seq(T)
      <3>1. 4 \in Nat
        OBVIOUS
      <3> QED
        BY <2>1, <3>1, SeqOfFunction
    <2> QED
      BY <2>2 DEF T
  <1>3. \A k \in 1..4 : k = 1 \/ k = 2 \/ k = 3 \/ k = 4
    OBVIOUS
  <1>4. \/ First(f) = {} /\ \A k \in 1..4 : f[k] = {}
        \/ \E k \in 1..4 : f[k] # {} /\ First(f) = f[k]
    BY <1>1, FirstOf
  <1>5. CASE First(f) = {} /\ \A k \in 1..4 : f[k] = {}
    BY <1>1, <1>2, <1>5 DEF f, PlaceMap
  <1>6. CASE \E k \in 1..4 : f[k] # {} /\ First(f) = f[k]
    BY <1>1, <1>2, <1>3, <1>6 DEF f, PlaceMap
  <1> QED
    BY <1>4, <1>5, <1>6

\* Where GetLYPlace finds a place: in the maps in their order.
FoundAt(s, id, long) ==
    IF At(s, "city", id) # {} THEN At(s, "city", id)
    ELSE IF At(s, "tour", id) # {} THEN At(s, "tour", id)
    ELSE IF First(PlaceMaps(s, id)) # {} THEN First(PlaceMaps(s, id))
    ELSE First(PlaceMaps(s, long))

LEMMA Lookup ==
    ASSUME NEW s, NEW id, NEW pt, NEW long, long = IF pt = None THEN id ELSE id \o <<pt>>
    PROVE  GetLYPlace(s, id, pt) = FoundAt(s, id, long)
  <1> DEFINE T == SUBSET s.places
             e == <<At(s, "city", id), At(s, "tour", id)>>
             f == PlaceMaps(s, id)
             g == PlaceMaps(s, long)
  <1>1. e \in Seq(T)
    <2> DEFINE A == At(s, "city", id)
               B == At(s, "tour", id)
    <2>1. A \in T /\ B \in T
      BY DEF At
    <2> HIDE DEF A, B, T
    <2>2. <<A, B>> \in Seq(T)
      BY <2>1
    <2> QED
      BY <2>2 DEF A, B
  <1>2. f \in Seq(T) /\ g \in Seq(T)
    BY PlaceMapsAre
  <1>3. GetLYPlace(s, id, pt) = First(e \o f \o g)
    BY DEF GetLYPlace
  <1>4. First(e) = IF At(s, "city", id) # {} THEN At(s, "city", id) ELSE At(s, "tour", id)
    BY FirstOfTwo
  <1> HIDE DEF T, e, f, g
  <1>5. e \o f \in Seq(T)
    BY <1>1, <1>2
  <1>6. First(e \o f) = IF First(e) # {} THEN First(e) ELSE First(f)
    BY <1>1, <1>2, FirstConcat
  <1>7. First((e \o f) \o g) = IF First(e \o f) # {} THEN First(e \o f) ELSE First(g)
    BY <1>2, <1>5, FirstConcat
  <1> QED
    BY <1>3, <1>4, <1>6, <1>7 DEF f, g, FoundAt

-----------------------------------------------------------------------------
(* Tidy objects. *)

\* The kinds that the class VarPlace stands for, and the places of them that p
\* has its id and its ptid in common with.
VarPlaceKind == VarKind \union {"hotel"}

SameKey(p, q) == p.id = q.id /\ p.pt = q.pt
VarPlacesAt(P, z) == {p \in P : p.kind \in VarPlaceKind /\ SameKey(p, z)}

\* An object whose lists are exact, and in which a key is a place's alone in
\* its map, and an id with a ptid a VarPlace's alone in all maps.
Tidy(s) ==
    /\ s.places \subseteq AnyPlace
    /\ s.index = UNION {Entries(p) : p \in s.places}
    /\ \A p, q \in s.places : MapOf(p) = MapOf(q) /\ getUniqId(p) = getUniqId(q) => p = q
    /\ \A p, q \in s.places :
          p.kind \in VarPlaceKind /\ q.kind \in VarPlaceKind /\ SameKey(p, q) => p = q

\* No other VarPlace has the id and the ptid of the place.
Fresh(s, r) == r.kind \in VarPlaceKind => VarPlacesAt(s.places, r) \subseteq {r}

LEMMA GatherKey ==
    ASSUME NEW p \in AnyPlace, NEW r \in DataRow, getUniqId(p) = gatherId(r.id)
    PROVE  p \in Locals /\ Entries(p) = {}
  <1>1. gatherId(r.id) = <<r.id[1], "gather">> /\ r.id[1] # "coreHotel"
    BY RowName, Pair DEF gatherId
  <1>2. p \notin DataRow
    BY <1>1, RowName, LongKeys
  <1>3. p \notin Cores
    BY <1>1, CoreName, LongKeys DEF Cores
  <1>4. p \in Locals
    BY <1>2, <1>3 DEF AnyPlace
  <1> QED
    BY <1>4, LocalName DEF Locals

LEMMA MadeEntries ==
    \A q \in Cores \union Locals : Entries(q) = {}
  BY CoreName, LocalName DEF Cores, Locals

LEMMA HotelEntries ==
    ASSUME NEW p, MapOf(p) \notin VarKind \union {"tour"}
    PROVE  Entries(p) = {}
  BY DEF Entries, MapOf, VarKind, TourKind

LEMMA AtIs ==
    ASSUME NEW s, NEW m, NEW key, NEW q
    PROVE  q \in At(s, m, key) <=> q \in s.places /\ MapOf(q) = m /\ getUniqId(q) = key
  BY DEF At

LEMMA FirstAt ==
    ASSUME NEW s, NEW key, NEW q \in First(PlaceMaps(s, key))
    PROVE  q \in s.places /\ getUniqId(q) = key /\ MapOf(q) \in PlaceMap
  <1>1. PICK m \in PlaceMap : First(PlaceMaps(s, key)) = At(s, m, key)
    BY PlaceMapsAre
  <1>2. q \in At(s, m, key)
    BY <1>1
  <1> QED
    BY <1>2, AtIs

\* A place that is in a map and is found there by its key.
LEMMA FirstHas ==
    ASSUME NEW s, NEW q \in s.places, MapOf(q) \in PlaceMap
    PROVE  First(PlaceMaps(s, getUniqId(q))) # {}
  <1>1. q \in At(s, MapOf(q), getUniqId(q))
    BY AtIs
  <1> QED
    BY <1>1, PlaceMapsAre

\* In a tidy object GetLYPlace finds one place or none for the id and the ptid
\* of a row.
LEMMA FoundRow ==
    ASSUME NEW s, Tidy(s), NEW r \in DataRow, GetLYPlace(s, r.id, r.pt) # {}
    PROVE  \E p \in s.places :
              /\ GetLYPlace(s, r.id, r.pt) = {p} /\ p \in DataRow /\ p.id = r.id
              /\ MapOf(p) \in PlaceMap \union {"city", "tour"}
              /\ \/ p.refer = None
                 \/ /\ p.refer # None /\ p.pt = r.pt
                    /\ First(PlaceMaps(s, getUniqId(p))) = {p}
                    /\ \A q \in s.places : MapOf(q) \in PlaceMap \union {"city", "tour"} =>
                          getUniqId(q) # r.id
  <1> DEFINE long == r.id \o <<r.pt>>
             found == GetLYPlace(s, r.id, r.pt)
  <1>1. /\ r.pt # None /\ r.id = <<r.id[1]>> /\ r.id[1] # "coreHotel" /\ r.pt # "gather"
        /\ long = <<r.id[1], r.pt>>
    BY RowName, Pair
  <1>2. found = IF At(s, "city", r.id) # {} THEN At(s, "city", r.id)
                ELSE IF At(s, "tour", r.id) # {} THEN At(s, "tour", r.id)
                ELSE IF First(PlaceMaps(s, r.id)) # {} THEN First(PlaceMaps(s, r.id))
                ELSE First(PlaceMaps(s, long))
    <2>1. long = IF r.pt = None THEN r.id ELSE r.id \o <<r.pt>>
      BY <1>1
    <2>2. found = FoundAt(s, r.id, long)
      BY <2>1, Lookup
    <2> QED
      BY <2>2 DEF FoundAt
  <1>3. PICK p : p \in found
    OBVIOUS
  <1> HIDE DEF found, long
  <1>4. /\ p \in s.places /\ MapOf(p) \in PlaceMap \union {"city", "tour"}
        /\ getUniqId(p) \in {r.id, long}
    BY <1>2, <1>3, AtIs, FirstAt
  <1>5. \E m : found = At(s, m, getUniqId(p)) /\ m = MapOf(p)
    <2>0. \A key : First(PlaceMaps(s, key)) # {} =>
              \E m : First(PlaceMaps(s, key)) = At(s, m, key)
      <3> SUFFICES ASSUME NEW key, First(PlaceMaps(s, key)) # {}
                   PROVE  \E m : First(PlaceMaps(s, key)) = At(s, m, key)
        OBVIOUS
      <3>1. PICK m \in PlaceMap : First(PlaceMaps(s, key)) = At(s, m, key)
        BY PlaceMapsAre
      <3> QED
        BY <3>1
    <2>1. PICK m, key : found = At(s, m, key)
      <3>1. CASE \E m, key : found = At(s, m, key)
        BY <3>1
      <3>2. CASE \E key : found = First(PlaceMaps(s, key)) /\ found # {}
        BY <2>0, <3>2
      <3> QED
        BY <1>2, <1>3, <3>1, <3>2
    <2>2. p \in At(s, m, key)
      BY <1>3, <2>1
    <2> QED
      BY <2>1, <2>2, AtIs
  <1>6. found = {p}
    <2> SUFFICES ASSUME NEW q \in found PROVE q = p
      BY <1>3
    <2> QED
      BY <1>4, <1>5, AtIs DEF Tidy
  <1>7. p \in AnyPlace
    BY <1>4 DEF Tidy
  <1>8. CASE getUniqId(p) = r.id
    <2>1. p \in DataRow /\ p.refer = None /\ p.id = r.id
      BY <1>1, <1>7, <1>8, ShortKey
    <2> QED
      BY <1>4, <1>6, <2>1 DEF found
  <1>9. CASE getUniqId(p) = long /\ long # r.id
    <2>1. p \in DataRow
      <3>1. p \notin Cores
        BY <1>1, <1>9, CoreName, LongKeys DEF Cores
      <3>2. p \notin Locals
        BY <1>1, <1>9, LocalName, LongKeys DEF Locals
      <3> QED
        BY <1>7, <3>1, <3>2 DEF AnyPlace
    <2>2. p.refer # None /\ p.id = r.id /\ p.pt = r.pt
      BY <1>1, <1>9, <2>1, RowName, LongKeys
    <2>3. At(s, "city", r.id) = {} /\ At(s, "tour", r.id) = {} /\ First(PlaceMaps(s, r.id)) = {}
      BY <1>2, <1>3, <1>9, AtIs, FirstAt
    <2>4. \A m \in PlaceMap \union {"city", "tour"} : At(s, m, r.id) = {}
      BY <2>3, PlaceMapsAre
    <2>5. \A q \in s.places : MapOf(q) \in PlaceMap \union {"city", "tour"} => getUniqId(q) # r.id
      BY <2>4, AtIs
    <2>6. First(PlaceMaps(s, getUniqId(p))) = {p}
      BY <1>2, <1>6, <1>9, <2>3
    <2> QED
      BY <1>4, <1>6, <2>1, <2>2, <2>5, <2>6 DEF found
  <1>10. long # r.id
    BY <1>1, LongKeys
  <1> QED
    BY <1>4, <1>8, <1>9, <1>10

\* A place of the row's id whose key is the id is the place that is found.
FoundOf(s, r, p) ==
    /\ p \in s.places /\ p \in DataRow /\ p.id = r.id
    /\ GetLYPlace(s, r.id, r.pt) = {p}
    /\ MapOf(p) \in PlaceMap \union {"city", "tour"}
    /\ \/ p.refer = None
       \/ /\ p.refer # None /\ p.pt = r.pt
          /\ First(PlaceMaps(s, getUniqId(p))) = {p}
          /\ \A q \in s.places : MapOf(q) \in PlaceMap \union {"city", "tour"} =>
                getUniqId(q) # r.id

LEMMA OnlyFound ==
    ASSUME NEW s, Tidy(s), NEW r \in DataRow, NEW p, FoundOf(s, r, p),
           NEW q \in s.places, getUniqId(q) = r.id, MapOf(q) \in PlaceMap \union {"city", "tour"}
    PROVE  q = p
  <1>1. p.refer = None
    BY DEF FoundOf
  <1>2. q \in AnyPlace /\ r.id = <<r.id[1]>>
    BY RowName DEF Tidy
  <1>3. q \in DataRow /\ q.refer = None /\ q.id = r.id
    BY <1>2, ShortKey
  <1>4. p \in DataRow /\ p.id = r.id /\ p \in s.places
    BY DEF FoundOf
  <1>5. MapOf(q) = MapOf(p)
    BY <1>3, <1>4, OwnId
  <1>6. getUniqId(p) = r.id
    BY <1>1, <1>4 DEF getUniqId
  <1> QED
    BY <1>4, <1>5, <1>6 DEF Tidy

\* What is erased with it is a core hotel.
LEMMA ErasedOf ==
    ASSUME NEW s, Tidy(s), NEW r \in DataRow, NEW p, FoundOf(s, r, p)
    PROVE  /\ p \in Erased(s, p)
           /\ \A q \in Erased(s, p) : q = p \/ q \in Cores
  <1> DEFINE tours == At(s, "tour", p.id)
             citys == IF tours = {} THEN At(s, "city", p.id) ELSE {}
             core == IF citys = {} THEN {} ELSE At(s, "hotel", coreId(p.id))
             others == First(PlaceMaps(s, getUniqId(p)))
  <1>1. Erased(s, p) = tours \union citys \union core \union others
    BY DEF Erased
  <1>2. p \in s.places /\ p \in DataRow /\ p.id = r.id
    BY DEF FoundOf
  <1>3. \A q \in tours : q = p
    <2> SUFFICES ASSUME NEW q \in At(s, "tour", p.id) PROVE q = p
      OBVIOUS
    <2>1. q \in s.places /\ MapOf(q) = "tour" /\ getUniqId(q) = r.id
      BY <1>2, AtIs
    <2> QED
      BY <2>1, OnlyFound
  <1>4. \A q \in citys : q = p
    <2> SUFFICES ASSUME NEW q \in At(s, "city", p.id) PROVE q = p
      OBVIOUS
    <2>1. q \in s.places /\ MapOf(q) = "city" /\ getUniqId(q) = r.id
      BY <1>2, AtIs
    <2> QED
      BY <2>1, OnlyFound
  <1>5. \A q \in core : q \in Cores
    <2> SUFFICES ASSUME NEW q \in At(s, "hotel", coreId(p.id)) PROVE q \in Cores
      OBVIOUS
    <2>1. q \in AnyPlace /\ getUniqId(q) = coreId(p.id)
      BY AtIs DEF Tidy
    <2> QED
      BY <1>2, <2>1, CoreKey
  <1>6. CASE p.refer = None
    <2>1. getUniqId(p) = r.id
      BY <1>2, <1>6 DEF getUniqId
    <2>2. \A q \in others : q = p
      <3> SUFFICES ASSUME NEW q \in First(PlaceMaps(s, getUniqId(p))) PROVE q = p
        OBVIOUS
      <3>1. q \in s.places /\ MapOf(q) \in PlaceMap /\ getUniqId(q) = r.id
        BY <2>1, FirstAt
      <3> QED
        BY <3>1, OnlyFound
    <2>3. p \in tours \union citys \union others
      <3>1. CASE MapOf(p) = "tour"
        BY <1>2, <2>1, <3>1, AtIs
      <3>2. CASE MapOf(p) = "city"
        <4>1. tours = {}
          <5> SUFFICES ASSUME NEW q \in At(s, "tour", p.id) PROVE FALSE
            OBVIOUS
          <5>1. q = p /\ MapOf(q) = "tour"
            BY <1>3, AtIs
          <5> QED
            BY <3>2, <5>1
        <4> HIDE DEF tours
        <4> QED
          BY <1>2, <2>1, <3>2, <4>1, AtIs
      <3>3. CASE MapOf(p) \in PlaceMap
        <4>1. others # {}
          BY <1>2, <3>3, FirstHas
        <4> HIDE DEF others
        <4> QED
          BY <2>2, <4>1
      <3> QED
        BY <3>1, <3>2, <3>3 DEF FoundOf
    <2> HIDE DEF tours, citys, core, others
    <2> QED
      BY <1>1, <1>3, <1>4, <1>5, <2>2, <2>3
  <1>7. CASE p.refer # None
    <2>1. others = {p}
      BY <1>7 DEF FoundOf
    <2> HIDE DEF tours, citys, core, others
    <2> QED
      BY <1>1, <1>3, <1>4, <1>5, <2>1
  <1> QED
    BY <1>6, <1>7

\* What is erased with a tour is the place where it meets.
LEMMA ErasedWithTour ==
    ASSUME NEW s, Tidy(s), NEW r \in DataRow, NEW q \in GetLYPlace(s, gatherId(r.id), None)
    PROVE  Erased(s, q) \subseteq Locals
  <1> DEFINE id == gatherId(r.id)
  <1>1. id = <<r.id[1], "gather">>
    BY RowName, Pair DEF gatherId
  <1>2. \A x \in s.places : getUniqId(x) = id => x \in Locals
    BY GatherKey DEF Tidy
  <1>3. q \in s.places /\ getUniqId(q) = id
    <2> HIDE DEF id
    <2>1. GetLYPlace(s, id, None) = FoundAt(s, id, id)
      BY Lookup
    <2>2. q \in FoundAt(s, id, id)
      BY <2>1 DEF id
    <2> QED
      BY <2>2, AtIs, FirstAt DEF FoundAt
  <1>4. q.id = id
    <2>1. q \in Locals
      BY <1>2, <1>3
    <2> QED
      BY <1>3, <2>1, LocalName DEF Locals
  <1> HIDE DEF id
  <1>5. At(s, "city", q.id) = {}
    <2> SUFFICES ASSUME NEW x \in At(s, "city", q.id) PROVE FALSE
      OBVIOUS
    <2>1. x \in s.places /\ MapOf(x) = "city" /\ getUniqId(x) = id
      BY <1>4, AtIs
    <2> QED
      BY <1>2, <2>1, MadeIds
  <1> SUFFICES ASSUME NEW x \in Erased(s, q) PROVE x \in Locals
    OBVIOUS
  <1>6. x \in At(s, "tour", q.id) \/ x \in First(PlaceMaps(s, getUniqId(q)))
    BY <1>5 DEF Erased
  <1>7. x \in s.places /\ getUniqId(x) = id
    BY <1>3, <1>4, <1>6, AtIs, FirstAt
  <1> QED
    BY <1>2, <1>7

-----------------------------------------------------------------------------
(* The objects, and what a change keeps. *)

Spot == {<<r.cell, r.id, r.pt>> : r \in DataRow}
GridKey == {<<r.id, r.pt, r.cell>> : r \in DataRow}

StateType == [places : SUBSET AnyPlace, index : SUBSET AnyEntry, shields : SUBSET Shield,
              taken : SUBSET Takings, cells : SUBSET Spot, where : SUBSET GridKey]

\* The object that LYConstData looks into, if there is one.
Seen == ObjectType \union {None}

LEMMA delIdFromGridIs ==
    ASSUME NEW s \in StateType, NEW id, NEW pt
    PROVE  /\ delIdFromGrid(s, id, pt) \in StateType
           /\ delIdFromGrid(s, id, pt).places = s.places
           /\ delIdFromGrid(s, id, pt).index = s.index
           /\ delIdFromGrid(s, id, pt).shields = s.shields
           /\ delIdFromGrid(s, id, pt).taken = s.taken
  <1> DEFINE old == {x \in s.where : x[1] = id /\ x[2] = pt}
             gone == {<<x[3], x[1], x[2]>> : x \in old}
             t == delIdFromGrid(s, id, pt)
  <1>1. t = [s EXCEPT !.where = s.where \ old, !.cells = s.cells \ gone]
    BY DEF delIdFromGrid, StateType
  <1> HIDE DEF old, gone, t
  <1>2. s.where \ old \subseteq GridKey /\ s.cells \ gone \subseteq Spot
    BY DEF StateType
  <1>3. /\ t \in StateType /\ t.places = s.places /\ t.index = s.index
        /\ t.shields = s.shields /\ t.taken = s.taken
    BY <1>1, <1>2 DEF StateType
  <1> QED
    BY <1>3 DEF t

LEMMA addId2GridIs ==
    ASSUME NEW s \in StateType, NEW r \in DataRow
    PROVE  /\ addId2Grid(s, r.id, r.pt, r.cell) \in StateType
           /\ addId2Grid(s, r.id, r.pt, r.cell).places = s.places
           /\ addId2Grid(s, r.id, r.pt, r.cell).index = s.index
  <1> DEFINE kept == {x \in s.where : x[1] # r.id \/ x[2] # r.pt}
             t == addId2Grid(s, r.id, r.pt, r.cell)
  <1>1. t = [s EXCEPT !.where = kept \union {<<r.id, r.pt, r.cell>>},
                      !.cells = s.cells \union {<<r.cell, r.id, r.pt>>}]
    BY DEF addId2Grid, StateType
  <1>2. kept \subseteq GridKey /\ s.cells \subseteq Spot
    BY DEF StateType
  <1>3. <<r.id, r.pt, r.cell>> \in GridKey /\ <<r.cell, r.id, r.pt>> \in Spot
    BY DEF GridKey, Spot
  <1> HIDE DEF kept, t
  <1>4. t \in StateType /\ t.places = s.places /\ t.index = s.index
    BY <1>1, <1>2, <1>3 DEF StateType
  <1> QED
    BY <1>4 DEF t

\* Taking places away whose entries are taken from the lists.
LEMMA TakenAway ==
    ASSUME NEW s, Tidy(s), NEW p \in s.places, NEW E, p \in E,
           \A q \in E : q = p \/ Entries(q) = {},
           NEW t, t.places = s.places \ E, t.index = s.index \ Entries(p)
    PROVE  Tidy(t)
  <1>1. t.places \subseteq s.places
    OBVIOUS
  <1>2. ASSUME NEW q \in s.places, q # p, NEW x \in Entries(q) PROVE x \notin Entries(p)
    <2> SUFFICES ASSUME x \in Entries(p) PROVE FALSE
      OBVIOUS
    <2>1. p \in AnyPlace /\ q \in AnyPlace
      BY DEF Tidy
    <2>2. /\ MapOf(q) = MapOf(p) /\ q.pt = p.pt /\ q.id = p.id
          /\ p \in DataRow /\ p.kind \in ListKind /\ q \in DataRow /\ q.kind \in ListKind
      BY <1>2, <2>1, EntriesOf
    <2>3. p.kind \notin VarKind
      <3>1. p.kind \in VarKind => q.kind \in VarKind
        BY <2>2 DEF MapOf, VarKind, TourKind
      <3> QED
        BY <1>2, <2>2, <3>1 DEF Tidy, VarPlaceKind, SameKey
    <2>4. p.kind \in TourKind /\ q.kind \in TourKind
      BY <2>2, <2>3 DEF ListKind, MapOf, VarKind, TourKind
    <2>5. getUniqId(p) = p.id /\ getUniqId(q) = q.id
      BY <2>4 DEF getUniqId, VarKind, TourKind
    <2> QED
      BY <1>2, <2>2, <2>5 DEF Tidy
  <1>3. t.index = UNION {Entries(q) : q \in t.places}
    <2>1. ASSUME NEW x \in t.index PROVE \E q \in t.places : x \in Entries(q)
      <3>1. PICK q \in s.places : x \in Entries(q)
        BY <2>1 DEF Tidy
      <3>2. q # p
        BY <2>1, <3>1
      <3>3. q \notin E
        BY <3>1, <3>2
      <3> QED
        BY <3>1, <3>3
    <2>2. ASSUME NEW q \in t.places, NEW x \in Entries(q) PROVE x \in t.index
      <3>1. q \in s.places /\ q # p
        OBVIOUS
      <3>2. x \in s.index
        BY <2>2, <3>1 DEF Tidy
      <3>3. x \notin Entries(p)
        BY <1>2, <2>2, <3>1
      <3> QED
        BY <3>2, <3>3
    <2> QED
      BY <2>1, <2>2
  <1>4. t.places \subseteq AnyPlace
    BY <1>1 DEF Tidy
  <1>5. ASSUME NEW x \in t.places, NEW y \in t.places
        PROVE  /\ MapOf(x) = MapOf(y) /\ getUniqId(x) = getUniqId(y) => x = y
               /\ x.kind \in VarPlaceKind /\ y.kind \in VarPlaceKind /\ SameKey(x, y) => x = y
    <2>1. x \in s.places /\ y \in s.places
      BY <1>1
    <2> QED
      BY <2>1 DEF Tidy
  <1> QED
    BY <1>3, <1>4, <1>5 DEF Tidy

\* A VarPlace with the id and the ptid of a row is a row, and GetLYPlace looks
\* for its key.
LEMMA VarPlaceKey ==
    ASSUME NEW s, Tidy(s), NEW r \in DataRow,
           NEW q \in s.places, q.kind \in VarPlaceKind, SameKey(q, r)
    PROVE  q \in DataRow /\ MapOf(q) \in PlaceMap /\ getUniqId(q) \in {r.id, r.id \o <<r.pt>>}
  <1>1. r.id = <<r.id[1]>> /\ r.id \o <<r.pt>> = <<r.id[1], r.pt>>
    BY RowName, Pair
  <1>2. q \notin Cores /\ q \notin Locals
    BY <1>1, MadeIds DEF SameKey
  <1>3. q \in DataRow
    BY <1>2 DEF Tidy, AnyPlace
  <1>4. MapOf(q) \in PlaceMap
    BY DEF MapOf, VarPlaceKind, VarKind, TourKind, PlaceMap
  <1>5. getUniqId(q) \in {<<q.id[1]>>, <<q.id[1], q.pt>>}
    BY <1>3, RowName
  <1> QED
    BY <1>1, <1>3, <1>4, <1>5 DEF SameKey

\* What DelLYPlace does: the place p that is found goes, with places E made for
\* rows, and if it has a cell, it goes from the grid.
Gone(s, r, t, p, E) ==
    /\ FoundOf(s, r, p)
    /\ p \in E /\ E \subseteq {p} \union Cores \union Locals
    /\ t \in StateType /\ t.places = s.places \ E /\ t.index = s.index \ Entries(p)
    /\ LET u == IF p.kind \in VarKind THEN delIdFromGrid(s, p.id, p.pt) ELSE s
       IN  t.cells = u.cells /\ t.where = u.where

LEMMA DeletedIs ==
    ASSUME NEW s \in StateType, Tidy(s), NEW r \in DataRow,
           NEW t, t = DelLYPlace(s, r.id, r.pt)
    PROVE  \/ GetLYPlace(s, r.id, r.pt) = {} /\ t = s
           \/ \E p, E : Gone(s, r, t, p, E)
  <1> DEFINE found == GetLYPlace(s, r.id, r.pt)
  <1>1. CASE found = {}
    BY <1>1 DEF DelLYPlace
  <1>2. CASE found # {}
    <2>1. PICK p \in s.places : FoundOf(s, r, p)
      BY <1>2, FoundRow DEF FoundOf
    <2>2. (CHOOSE x \in found : TRUE) = p
      BY <2>1 DEF FoundOf
    <2> DEFINE u == IF p.kind \in VarKind THEN delIdFromGrid(s, p.id, p.pt) ELSE s
               local == IF p.kind \in TourKind /\ p.gather
                        THEN GetLYPlace(s, gatherId(p.id), None) ELSE {}
               E == UNION {Erased(s, q) : q \in {p} \union local}
    <2>3. t = [u EXCEPT !.index = u.index \ Entries(p), !.places = u.places \ E]
      BY <1>2, <2>2 DEF DelLYPlace, Without
    <2>4. u \in StateType /\ u.places = s.places /\ u.index = s.index
      BY delIdFromGridIs
    <2>5. p \in DataRow /\ p.id = r.id
      BY <2>1 DEF FoundOf
    <2>6. p \in E /\ E \subseteq {p} \union Cores \union Locals
      <3>1. p \in Erased(s, p) /\ \A q \in Erased(s, p) : q = p \/ q \in Cores
        BY <2>1, ErasedOf
      <3>2. \A x \in local : Erased(s, x) \subseteq Locals
        BY <2>5, ErasedWithTour
      <3> HIDE DEF local
      <3> QED
        BY <3>1, <3>2
    <2> HIDE DEF E
    <2>7. /\ t \in StateType /\ t.places = s.places \ E /\ t.index = s.index \ Entries(p)
          /\ t.cells = u.cells /\ t.where = u.where
      <3> HIDE DEF u
      <3> QED
        BY <2>3, <2>4 DEF StateType
    <2>8. Gone(s, r, t, p, E)
      BY <2>1, <2>6, <2>7 DEF Gone
    <2> QED
      BY <2>8
  <1> QED
    BY <1>1, <1>2

\* DelLYPlace: the object stays tidy, and the row can come in again.
LEMMA Deleted ==
    ASSUME NEW s \in StateType, Tidy(s), NEW r \in DataRow,
           NEW t, t = DelLYPlace(s, r.id, r.pt)
    PROVE  /\ t \in StateType /\ Tidy(t)
           /\ r.kind \in VarPlaceKind => VarPlacesAt(t.places, r) = {}
           /\ Fresh(t, r)
  <1>1. CASE GetLYPlace(s, r.id, r.pt) = {} /\ t = s
    <2>1. VarPlacesAt(s.places, r) = {}
      <3> SUFFICES ASSUME NEW q \in s.places, q.kind \in VarPlaceKind, SameKey(q, r) PROVE FALSE
        BY DEF VarPlacesAt
      <3>1. q \in DataRow /\ MapOf(q) \in PlaceMap /\ getUniqId(q) \in {r.id, r.id \o <<r.pt>>}
        BY VarPlaceKey
      <3>2. GetLYPlace(s, r.id, r.pt) = FoundAt(s, r.id, r.id \o <<r.pt>>)
        BY RowName, Lookup
      <3>3. First(PlaceMaps(s, r.id)) = {} /\ First(PlaceMaps(s, r.id \o <<r.pt>>)) = {}
        BY <1>1, <3>2 DEF FoundAt
      <3>4. First(PlaceMaps(s, getUniqId(q))) # {}
        BY <3>1, FirstHas
      <3> QED
        BY <3>1, <3>3, <3>4
    <2> QED
      BY <1>1, <2>1 DEF Fresh
  <1>2. CASE \E p, E : Gone(s, r, t, p, E)
    <2>1. PICK p, E : Gone(s, r, t, p, E)
      BY <1>2
    <2>2. FoundOf(s, r, p) /\ p \in s.places /\ p \in DataRow /\ p.id = r.id
      BY <2>1 DEF Gone, FoundOf
    <2>3. /\ p \in E /\ t \in StateType /\ t.places = s.places \ E
          /\ t.index = s.index \ Entries(p) /\ \A q \in E : q = p \/ Entries(q) = {}
      BY <2>1, MadeEntries DEF Gone
    <2>4. Tidy(t)
      BY <2>2, <2>3, TakenAway
    <2>5. r.kind \in VarPlaceKind => VarPlacesAt(t.places, r) = {}
      <3> SUFFICES ASSUME r.kind \in VarPlaceKind,
                          NEW q \in t.places, q.kind \in VarPlaceKind, SameKey(q, r)
                   PROVE  FALSE
        BY DEF VarPlacesAt
      <3>1. q \in s.places /\ q # p
        BY <2>3
      <3>2. p.kind \in VarPlaceKind /\ p.pt = r.pt
        <4>1. CASE p.refer = None
          BY <2>2, <4>1, OwnId
        <4>2. CASE p.refer # None
          BY <2>2, <4>2, RowName DEF FoundOf, VarPlaceKind
        <4> QED
          BY <4>1, <4>2
      <3>3. SameKey(p, q)
        BY <2>2, <3>2 DEF SameKey
      <3> QED
        BY <2>2, <3>1, <3>2, <3>3 DEF Tidy
    <2> QED
      BY <2>3, <2>4, <2>5 DEF Fresh
  <1> QED
    BY <1>1, <1>2, DeletedIs

\* InsertLYPlace and InsertCityPlaceList.
LEMMA OnePlaceMore ==
    ASSUME NEW s, Tidy(s), NEW p \in AnyPlace, Fresh(s, p), Inserts(s, p),
           NEW t, t.places = s.places \union {p}, t.index = s.index \union Entries(p)
    PROVE  Tidy(t)
  <1>1. t.places \subseteq AnyPlace /\ s.places \subseteq AnyPlace
    BY DEF Tidy
  <1>2. t.index = UNION {Entries(q) : q \in t.places}
    BY DEF Tidy
  <1>3. \A q \in s.places : MapOf(q) = MapOf(p) => getUniqId(q) # getUniqId(p)
    BY AtIs DEF Inserts
  <1>4. \A q \in s.places : q.kind \in VarPlaceKind /\ p.kind \in VarPlaceKind => ~SameKey(q, p)
    <2> SUFFICES ASSUME NEW q \in s.places, q.kind \in VarPlaceKind, p.kind \in VarPlaceKind,
                        SameKey(q, p)
                 PROVE  FALSE
      OBVIOUS
    <2>1. q = p
      BY DEF Fresh, VarPlacesAt
    <2> QED
      BY <1>3, <2>1
  <1>5. ASSUME NEW x \in t.places, NEW y \in t.places
        PROVE  /\ MapOf(x) = MapOf(y) /\ getUniqId(x) = getUniqId(y) => x = y
               /\ x.kind \in VarPlaceKind /\ y.kind \in VarPlaceKind /\ SameKey(x, y) => x = y
    <2>1. CASE x \in s.places /\ y \in s.places
      BY <2>1 DEF Tidy
    <2>2. CASE x = p /\ y \in s.places
      BY <1>3, <1>4, <2>2 DEF SameKey
    <2>3. CASE y = p /\ x \in s.places
      BY <1>3, <1>4, <2>3
    <2>4. CASE x = p /\ y = p
      BY <2>4
    <2> QED
      BY <2>1, <2>2, <2>3, <2>4
  <1> QED
    BY <1>1, <1>2, <1>5 DEF Tidy

\* InsertLYPlace of a city: the core hotel is made anew.
LEMMA CoreRenewed ==
    ASSUME NEW s, Tidy(s), NEW r \in DataRow, NEW core,
           core = Made("hotel", coreId(r.id), r.pt, r.cell),
           NEW t, t.places = (s.places \ At(s, "hotel", coreId(r.id))) \union {core},
           t.index = s.index
    PROVE  Tidy(t)
  <1>1. /\ core.kind = "hotel" /\ MapOf(core) = "hotel" /\ Entries(core) = {}
        /\ getUniqId(core) = coreId(r.id)
    <2>1. core.id = coreId(r.id)
      BY DEF Made
    <2> QED
      BY <2>1, CoreName
  <1>2. core \in AnyPlace
    BY DEF AnyPlace, Cores
  <1>3. t.places \subseteq AnyPlace
    BY <1>2 DEF Tidy
  <1>4. \A q \in At(s, "hotel", coreId(r.id)) : Entries(q) = {}
    BY AtIs, HotelEntries DEF VarKind
  <1>5. t.index = UNION {Entries(q) : q \in t.places}
    <2>1. s.index = UNION {Entries(q) : q \in s.places}
      BY DEF Tidy
    <2> QED
      BY <1>1, <1>4, <2>1
  <1>6. \A q \in s.places \ At(s, "hotel", coreId(r.id)) :
            /\ MapOf(q) = "hotel" => getUniqId(q) # getUniqId(core)
            /\ ~SameKey(q, core)
    <2> SUFFICES ASSUME NEW q \in s.places, q \notin At(s, "hotel", coreId(r.id))
                 PROVE  /\ MapOf(q) = "hotel" => getUniqId(q) # getUniqId(core)
                        /\ ~SameKey(q, core)
      OBVIOUS
    <2>1. MapOf(q) = "hotel" => getUniqId(q) # getUniqId(core)
      BY <1>1, AtIs
    <2>2. ASSUME SameKey(q, core) PROVE FALSE
      <3>1. q \in AnyPlace /\ q.id = <<"coreHotel", r.id[1]>>
        BY <2>2, CoreName DEF Tidy, SameKey
      <3>2. q \notin DataRow /\ q \notin Locals
        BY <3>1, RowName, LocalName, LongKeys DEF Locals
      <3>3. q \in Cores
        BY <3>1, <3>2 DEF AnyPlace
      <3>4. MapOf(q) = "hotel" /\ getUniqId(q) = q.id
        BY <3>3, CoreName DEF Cores
      <3> QED
        BY <1>1, <2>1, <2>2, <3>4, CoreName DEF SameKey
    <2> QED
      BY <2>1, <2>2
  <1>7. ASSUME NEW x \in t.places, NEW y \in t.places
        PROVE  /\ MapOf(x) = MapOf(y) /\ getUniqId(x) = getUniqId(y) => x = y
               /\ x.kind \in VarPlaceKind /\ y.kind \in VarPlaceKind /\ SameKey(x, y) => x = y
    <2>1. CASE x # core /\ y # core
      <3>1. x \in s.places /\ y \in s.places
        BY <2>1
      <3> QED
        BY <3>1 DEF Tidy
    <2>2. CASE x = core /\ y # core
      BY <1>1, <1>6, <2>2 DEF SameKey
    <2>3. CASE y = core /\ x # core
      BY <1>1, <1>6, <2>3
    <2> QED
      BY <2>1, <2>2, <2>3
  <1> QED
    BY <1>3, <1>5, <1>7 DEF Tidy

Changed(s, P, J) == [s EXCEPT !.places = P, !.index = J]

LEMMA ChangedIs ==
    ASSUME NEW T \in {ObjectType, StateType}, NEW s \in T,
           NEW P \in SUBSET AnyPlace, NEW J \in SUBSET AnyEntry
    PROVE  /\ Changed(s, P, J) \in T
           /\ Changed(s, P, J).places = P /\ Changed(s, P, J).index = J
  <1>1. CASE T = ObjectType
    BY <1>1 DEF ObjectType, Changed
  <1>2. CASE T = StateType
    BY <1>2 DEF StateType, Changed
  <1> QED
    BY <1>1, <1>2

LEMMA Inserted ==
    ASSUME NEW T \in {ObjectType, StateType}, NEW s \in T, Tidy(s), NEW p \in AnyPlace,
           Fresh(s, p), p.kind = "city" => p \in DataRow
    PROVE  /\ DoInsert(s, p) \in T /\ Tidy(DoInsert(s, p))
           /\ DoInsert(s, p).places \subseteq s.places \union {p} \union Cores
  <1>1. s.places \subseteq AnyPlace /\ s.index \subseteq AnyEntry
    BY DEF Tidy, AnyEntry, ObjectType, StateType
  <1>2. Entries(p) \subseteq AnyEntry
    BY DEF AnyEntry
  <1>4. CASE ~Inserts(s, p)
    BY <1>4 DEF DoInsert
  <1>5. CASE Inserts(s, p) /\ p.kind = "city"
    <2> DEFINE core == Made("hotel", coreId(p.id), p.pt, p.cell)
               gone == At(s, "hotel", coreId(p.id))
               P1 == (s.places \ gone) \union {core}
               P == (s.places \ gone) \union {p, core}
               J == s.index \union Entries(p)
               t == Changed(s, P, J)
               t1 == Changed(s, P1, s.index)
    <2>1. DoInsert(s, p) = t
      <3> DEFINE gone1 == IF p.kind = "city" THEN At(s, "hotel", coreId(p.id)) ELSE {}
                 new1 == IF p.kind = "city" THEN {p, Made("hotel", coreId(p.id), p.pt, p.cell)} ELSE {p}
      <3>1. DoInsert(s, p) = IF Inserts(s, p)
                THEN [s EXCEPT !.places = (s.places \ gone1) \union new1,
                               !.index = s.index \union Entries(p)]
                ELSE s
        BY Zenon DEF DoInsert
      <3>2. (s.places \ gone1) \union new1 = P
        BY <1>5
      <3> HIDE DEF gone1, new1, P
      <3>3. t = [s EXCEPT !.places = P, !.index = J]
        BY DEF Changed
      <3> HIDE DEF t
      <3> QED
        BY <1>5, <3>1, <3>2, <3>3
    <2>2. p \in DataRow
      BY <1>5
    <2>3. core \in AnyPlace /\ core \in Cores
      BY <2>2 DEF AnyPlace, Cores
    <2>4. P \subseteq AnyPlace /\ J \subseteq AnyEntry /\ P1 \subseteq AnyPlace
      BY <1>1, <1>2, <2>3
    <2>5. t \in T /\ t.places = P /\ t.index = J
      <3> HIDE DEF P, J
      <3> QED
        BY <2>4, ChangedIs
    <2>6. t1.places = P1 /\ t1.index = s.index
      <3> HIDE DEF P1
      <3> QED
        BY <1>1, <2>4, ChangedIs
    <2>7. Tidy(t1)
      <3>1. t1.places = (s.places \ At(s, "hotel", coreId(p.id))) \union {core}
        BY <2>6
      <3> HIDE DEF t1, core
      <3>2. core = Made("hotel", coreId(p.id), p.pt, p.cell)
        BY DEF core
      <3> QED
        BY <2>2, <2>6, <3>1, <3>2, CoreRenewed
    <2>8. MapOf(p) = "city" /\ MapOf(core) = "hotel"
      BY <1>5, <2>2, CoreName DEF MapOf, TourKind
    <2>9. Inserts(t1, p)
      <3>1. ASSUME NEW q \in At(t1, MapOf(p), getUniqId(p)) PROVE FALSE
        <4>1. q \in P1 /\ MapOf(q) = MapOf(p) /\ getUniqId(q) = getUniqId(p)
          <5> HIDE DEF t1
          <5> QED
            BY <2>6, <3>1, AtIs
        <4>2. q \in s.places
          BY <2>8, <4>1
        <4>3. q \in At(s, MapOf(p), getUniqId(p))
          BY <4>1, <4>2, AtIs
        <4> QED
          BY <1>5, <4>3 DEF Inserts
      <3> QED
        BY <3>1 DEF Inserts
    <2>10. Fresh(t1, p)
      BY <1>5 DEF Fresh, VarPlaceKind, VarKind
    <2>11. t.places = t1.places \union {p} /\ t.index = t1.index \union Entries(p)
      BY <2>5, <2>6
    <2> HIDE DEF t1
    <2>12. Tidy(t)
      <3> HIDE DEF t
      <3> QED
        BY <2>7, <2>9, <2>10, <2>11, OnePlaceMore
    <2> QED
      BY <2>1, <2>3, <2>5, <2>12
  <1>6. CASE Inserts(s, p) /\ p.kind # "city"
    <2> DEFINE P == s.places \union {p}
               J == s.index \union Entries(p)
               t == Changed(s, P, J)
    <2>1. DoInsert(s, p) = t
      <3> DEFINE gone1 == IF p.kind = "city" THEN At(s, "hotel", coreId(p.id)) ELSE {}
                 new1 == IF p.kind = "city" THEN {p, Made("hotel", coreId(p.id), p.pt, p.cell)} ELSE {p}
      <3>1. DoInsert(s, p) = IF Inserts(s, p)
                THEN [s EXCEPT !.places = (s.places \ gone1) \union new1,
                               !.index = s.index \union Entries(p)]
                ELSE s
        BY Zenon DEF DoInsert
      <3>2. (s.places \ gone1) \union new1 = P
        BY <1>6
      <3> HIDE DEF gone1, new1, P
      <3>3. t = [s EXCEPT !.places = P, !.index = J]
        BY DEF Changed
      <3> HIDE DEF t
      <3> QED
        BY <1>6, <3>1, <3>2, <3>3
    <2>2. P \subseteq AnyPlace /\ J \subseteq AnyEntry
      BY <1>1, <1>2
    <2>3. t \in T /\ t.places = P /\ t.index = J
      <3> HIDE DEF P, J
      <3> QED
        BY <2>2, ChangedIs
    <2>4. Tidy(t)
      <3> HIDE DEF t
      <3> QED
        BY <1>6, <2>3, OnePlaceMore
    <2> QED
      BY <2>1, <2>3, <2>4
  <1> QED
    BY <1>4, <1>5, <1>6

LEMMA SameParts ==
    ASSUME NEW s, Tidy(s), NEW t, t.places = s.places, t.index = s.index
    PROVE  Tidy(t) /\ \A r : Fresh(s, r) => Fresh(t, r)
  BY DEF Tidy, Fresh, VarPlacesAt

LEMMA Dropped ==
    ASSUME NEW s, Tidy(s), NEW E, \A q \in E : Entries(q) = {},
           NEW t, t.places = s.places \ E, t.index = s.index
    PROVE  Tidy(t)
  <1>1. t.places \subseteq s.places /\ t.places \subseteq AnyPlace
    BY DEF Tidy
  <1>2. t.index = UNION {Entries(q) : q \in t.places}
    <2>1. s.index = UNION {Entries(q) : q \in s.places}
      BY DEF Tidy
    <2> QED
      BY <2>1
  <1>3. ASSUME NEW x \in t.places, NEW y \in t.places
        PROVE  /\ MapOf(x) = MapOf(y) /\ getUniqId(x) = getUniqId(y) => x = y
               /\ x.kind \in VarPlaceKind /\ y.kind \in VarPlaceKind /\ SameKey(x, y) => x = y
    <2>1. x \in s.places /\ y \in s.places
      BY <1>1
    <2> QED
      BY <2>1 DEF Tidy
  <1> QED
    BY <1>1, <1>2, <1>3 DEF Tidy

TidyState == {s \in StateType : Tidy(s)}
TidyObject == {o \in ObjectType : Tidy(o)}

\* What is taken once r takes what it needs from the places N.
TakenAnew(taken, r, N) == {x \in taken : x[1] # r} \union Taken(r, N)

LEMMA TakeIs ==
    ASSUME NEW s \in StateType, NEW r \in DataRow, NEW N, \A p \in N : p.cell \in TakenValue
    PROVE  /\ Take(s, r, N) \in StateType
           /\ Take(s, r, N).places = s.places /\ Take(s, r, N).index = s.index
           /\ Take(s, r, N).shields = s.shields
           /\ Take(s, r, N).cells = s.cells /\ Take(s, r, N).where = s.where
           /\ Take(s, r, N).taken = TakenAnew(s.taken, r, N)
  <1> DEFINE T == TakenAnew(s.taken, r, N)
  <1>1. Taken(r, N) \subseteq Takings
    BY DEF Taken, Takings, TakenValue
  <1>2. T \subseteq Takings
    BY <1>1 DEF StateType, TakenAnew
  <1>3. Take(s, r, N) = [s EXCEPT !.taken = T]
    BY DEF Take, TakenAnew
  <1> HIDE DEF T
  <1>4. /\ Take(s, r, N) \in StateType
        /\ Take(s, r, N).places = s.places /\ Take(s, r, N).index = s.index
        /\ Take(s, r, N).shields = s.shields
        /\ Take(s, r, N).cells = s.cells /\ Take(s, r, N).where = s.where
        /\ Take(s, r, N).taken = T
    BY <1>2, <1>3 DEF StateType
  <1> QED
    BY <1>4 DEF T

\* What GetLYPlace finds is in the object.
LEMMA FoundInside ==
    ASSUME NEW s, NEW id, NEW pt
    PROVE  GetLYPlace(s, id, pt) \subseteq s.places
  <1> DEFINE long == IF pt = None THEN id ELSE id \o <<pt>>
  <1>1. GetLYPlace(s, id, pt) = FoundAt(s, id, long)
    BY Lookup
  <1> HIDE DEF long
  <1>2. \A q \in FoundAt(s, id, long) : q \in s.places
    BY AtIs, FirstAt DEF FoundAt
  <1> QED
    BY <1>1, <1>2

\* What a row takes is a cell, or that there is a place.
LEMMA NamedCells ==
    ASSUME NEW t \in StateType, NEW pri \in Seen, NEW r \in DataRow, NEW p \in Named(t, pri, r)
    PROVE  p.cell \in TakenValue
  <1> DEFINE o == IF pri = None THEN t ELSE pri
  <1>1. o.places \subseteq AnyPlace /\ t.places \subseteq AnyPlace
    BY DEF Seen, ObjectType, StateType
  <1>2. /\ r.ref # None
        /\ p \in IF r.kind = "hotel" THEN GetLYPlace(o, r.ref, None)
                 ELSE First(<<GetLYPlace(t, r.ref, r.pt), Shown(o, r.ref, r.pt)>>)
    BY DEF Named
  <1> HIDE DEF o
  <1>3. \A id, pt : GetLYPlace(o, id, pt) \subseteq AnyPlace /\ GetLYPlace(t, id, pt) \subseteq AnyPlace
    BY <1>1, FoundInside
  <1>4. \A q \in PublicView(r.ref) : q.cell = None
    BY DEF PublicView, Made
  <1>5. \/ p \in GetLYPlace(o, r.ref, None) \/ p \in GetLYPlace(t, r.ref, r.pt)
        \/ p \in Shown(o, r.ref, r.pt)
    BY <1>2, FirstOfTwo
  <1>6. p \in Shown(o, r.ref, r.pt) => p \in GetLYPlace(o, r.ref, r.pt) \/ p \in PublicView(r.ref)
    BY FirstOfTwo DEF Shown
  <1> QED
    BY <1>3, <1>4, <1>5, <1>6 DEF TakenValue

LEMMA VarPlaceRead ==
    ASSUME NEW s \in TidyState, NEW r \in DataRow, r.kind \in VarKind
    PROVE  ReadVarPlace(s, r) \in TidyState
  <1> DEFINE t == DelLYPlace(s, r.id, r.pt)
             u == IF r.refer # None /\ ~r.on
                  THEN [t EXCEPT !.shields = t.shields \union {<<r.pt, r.refer>>}] ELSE t
             v == IF r.cell = None THEN u ELSE addId2Grid(u, r.id, r.pt, r.cell)
  <1>1. t \in StateType /\ Tidy(t) /\ Fresh(t, r)
    BY Deleted DEF TidyState
  <1>2. <<r.pt, r.refer>> \in Shield
    BY DEF Shield
  <1>3. ReadVarPlace(s, r) \in {u, DoInsert(v, r)}
    BY DEF ReadVarPlace
  <1> HIDE DEF t
  <1>4. u \in StateType /\ u.places = t.places /\ u.index = t.index
    BY <1>1, <1>2 DEF StateType
  <1> HIDE DEF u
  <1>5. v \in StateType /\ v.places = t.places /\ v.index = t.index
    BY <1>4, addId2GridIs
  <1> HIDE DEF v
  <1>6. Tidy(u) /\ Tidy(v) /\ Fresh(v, r)
    BY <1>1, <1>4, <1>5, SameParts
  <1>7. r \in AnyPlace /\ r.kind # "city"
    BY DEF AnyPlace, VarKind
  <1>8. DoInsert(v, r) \in StateType /\ Tidy(DoInsert(v, r))
    BY <1>5, <1>6, <1>7, Inserted
  <1> QED
    BY <1>3, <1>4, <1>6, <1>8 DEF TidyState

LEMMA PlainRead ==
    ASSUME NEW s \in TidyState, NEW r \in DataRow, NEW pri \in Seen
    PROVE  /\ ReadHotel(s, pri, r) \in TidyState
           /\ ReadCity(s, r) \in TidyState
  <1> DEFINE t == DelLYPlace(s, r.id, r.pt)
             N == Named(t, pri, r)
             v == Take(t, r, N)
  <1>1. t \in StateType /\ Tidy(t) /\ Fresh(t, r)
    BY Deleted DEF TidyState
  <1>2. r \in AnyPlace
    BY DEF AnyPlace
  <1>3. ReadHotel(s, pri, r) \in {t, DoInsert(v, r)} /\ ReadCity(s, r) \in {s, DoInsert(t, r)}
    BY DEF ReadHotel, ReadCity
  <1> HIDE DEF t
  <1>4. \A p \in N : p.cell \in TakenValue
    BY <1>1, NamedCells
  <1> HIDE DEF N
  <1>5. v \in StateType /\ v.places = t.places /\ v.index = t.index
    BY <1>1, <1>4, TakeIs
  <1> HIDE DEF v
  <1>6. Tidy(v) /\ Fresh(v, r)
    BY <1>1, <1>5, SameParts
  <1>7. /\ DoInsert(t, r) \in StateType /\ Tidy(DoInsert(t, r))
        /\ DoInsert(v, r) \in StateType /\ Tidy(DoInsert(v, r))
    BY <1>1, <1>2, <1>5, <1>6, Inserted
  <1> QED
    BY <1>1, <1>3, <1>7 DEF TidyState

\* The place where a tour meets can be inserted.
LEMMA LocalFresh ==
    ASSUME NEW t, Tidy(t), NEW r \in DataRow,
           NEW local, local = Made("view", gatherId(r.id), None, None)
    PROVE  local \in Locals /\ local \in AnyPlace /\ local.kind = "view" /\ Fresh(t, local)
  <1>1. local \in Locals /\ local \in AnyPlace /\ local.kind = "view" /\ local.id = gatherId(r.id)
    BY DEF AnyPlace, Locals, Made
  <1>2. Fresh(t, local)
    <2> SUFFICES ASSUME NEW q \in t.places, SameKey(q, local) PROVE q = local
      BY DEF Fresh, VarPlacesAt
    <2>1. gatherId(r.id) = <<r.id[1], "gather">> /\ r.id[1] # "coreHotel"
      BY RowName, Pair DEF gatherId
    <2>2. q \in AnyPlace /\ q.id = gatherId(r.id)
      BY <1>1 DEF Tidy, SameKey
    <2>3. q \notin DataRow /\ q \notin Cores
      BY <2>1, <2>2, RowName, CoreName, LongKeys DEF Cores
    <2>4. PICK x \in DataRow : q = Made("view", gatherId(x.id), None, None)
      BY <2>2, <2>3 DEF AnyPlace, Locals
    <2>5. q.id = gatherId(x.id)
      BY <2>4 DEF Made
    <2> QED
      BY <2>2, <2>4, <2>5
  <1> QED
    BY <1>1, <1>2

LEMMA TourRead ==
    ASSUME NEW s \in TidyState, NEW r \in DataRow, r.kind \in TourKind, NEW pri \in Seen
    PROVE  ReadTour(s, pri, r) \in TidyState
  <1> DEFINE t == DelLYPlace(s, r.id, r.pt)
             local == Made("view", gatherId(r.id), None, None)
             u == DoInsert(t, local)
             N == Named(t, pri, r)
             v0 == IF r.gather THEN u ELSE t
             v == Take(v0, r, N)
  <1>1. t \in StateType /\ Tidy(t)
    BY Deleted DEF TidyState
  <1>2. ReadTour(s, pri, r) \in {t, DoInsert(v, r)}
    BY DEF ReadTour
  <1> HIDE DEF t
  <1>4. \A p \in N : p.cell \in TakenValue
    BY <1>1, NamedCells
  <1> HIDE DEF N
  <1>3. local \in AnyPlace /\ local.kind = "view" /\ Fresh(t, local)
    BY <1>1, LocalFresh
  <1> HIDE DEF local
  <1>5. u \in StateType /\ Tidy(u)
    BY <1>1, <1>3, Inserted
  <1> HIDE DEF u
  <1>6. v \in StateType /\ Tidy(v)
    <2>1. v0 \in StateType /\ Tidy(v0)
      BY <1>1, <1>5
    <2> HIDE DEF v0
    <2>2. v \in StateType /\ v.places = v0.places /\ v.index = v0.index
      BY <1>4, <2>1, TakeIs
    <2> QED
      BY <2>1, <2>2, SameParts
  <1> HIDE DEF v
  <1>7. r \in AnyPlace /\ r.kind # "city" /\ r.kind \notin VarPlaceKind
    BY DEF AnyPlace, TourKind, VarKind, VarPlaceKind
  <1>8. Fresh(v, r)
    BY <1>7 DEF Fresh
  <1>9. DoInsert(v, r) \in StateType /\ Tidy(DoInsert(v, r))
    BY <1>6, <1>7, <1>8, Inserted
  <1> QED
    BY <1>1, <1>2, <1>9 DEF TidyState

LEMMA FunRead ==
    ASSUME NEW s \in TidyState, NEW r \in DataRow, r.kind = "fun"
    PROVE  ReadFun(s, r) \in TidyState
  <1> DEFINE E == At(s, "fun", r.id)
             P == s.places \ E
             t == Changed(s, P, s.index)
             u == ReadFun(s, r)
  <1>1. s \in StateType /\ Tidy(s) /\ s.places \subseteq AnyPlace /\ s.index \subseteq AnyEntry
    BY DEF TidyState, Tidy, StateType
  <1>2. r \in AnyPlace /\ MapOf(r) = "fun" /\ getUniqId(r) = r.id /\ Entries(r) = {}
    BY DEF AnyPlace, MapOf, getUniqId, Entries, VarKind, TourKind
  <1>3. \A q \in E : Entries(q) = {}
    BY AtIs, HotelEntries DEF VarKind
  <1>4. u.places = IF r.on THEN P \union {r} ELSE P
    BY <1>1 DEF ReadFun, StateType
  <1>5. u.index = s.index /\ u \in StateType
    BY <1>1, <1>2 DEF ReadFun, StateType
  <1>6. \A q \in P : ~(MapOf(q) = "fun" /\ getUniqId(q) = r.id)
    BY AtIs
  <1> HIDE DEF u, E
  <1>7. t.places = P /\ t.index = s.index
    <2>1. P \subseteq AnyPlace
      BY <1>1
    <2> HIDE DEF P
    <2> QED
      BY <1>1, <2>1, ChangedIs
  <1> HIDE DEF t
  <1>8. Tidy(t)
    BY <1>1, <1>3, <1>7, Dropped
  <1> HIDE DEF P
  <1>9. Inserts(t, r) /\ Fresh(t, r)
    BY <1>2, <1>6, <1>7, AtIs DEF Inserts, Fresh, VarPlaceKind, VarKind
  <1>10. CASE r.on
    <2>1. u.places = t.places \union {r} /\ u.index = t.index \union Entries(r)
      BY <1>2, <1>4, <1>5, <1>7, <1>10
    <2>2. Tidy(u)
      BY <1>2, <1>8, <1>9, <2>1, OnePlaceMore
    <2> QED
      BY <1>5, <2>2 DEF TidyState, u
  <1>11. CASE ~r.on
    <2>1. u.places = t.places /\ u.index = t.index
      BY <1>4, <1>5, <1>7, <1>11
    <2>2. Tidy(u)
      BY <1>8, <2>1, SameParts
    <2> QED
      BY <1>5, <2>2 DEF TidyState, u
  <1> QED
    BY <1>10, <1>11

LEMMA RowRead ==
    ASSUME NEW s \in TidyState, NEW r \in DataRow, NEW pri \in Seen
    PROVE  ReadRow(s, pri, r) \in TidyState
  <1>1. r.kind \in VarKind \union TourKind \union {"city", "hotel", "fun"}
    BY RowAssumption DEF Kind
  <1>2. CASE r.kind \in VarKind
    <2>1. ReadRow(s, pri, r) = ReadVarPlace(s, r)
      BY <1>2 DEF ReadRow, VarKind, TourKind
    <2> QED
      BY <1>2, <2>1, VarPlaceRead
  <1>3. CASE r.kind \in TourKind
    <2>1. ReadRow(s, pri, r) = ReadTour(s, pri, r)
      BY <1>3 DEF ReadRow, VarKind, TourKind
    <2> QED
      BY <1>3, <2>1, TourRead
  <1>4. CASE r.kind = "hotel"
    <2>1. ReadRow(s, pri, r) = ReadHotel(s, pri, r)
      BY <1>4 DEF ReadRow, VarKind, TourKind
    <2> QED
      BY <2>1, PlainRead
  <1>5. CASE r.kind = "city"
    <2>1. ReadRow(s, pri, r) = ReadCity(s, r)
      BY <1>5 DEF ReadRow, VarKind, TourKind
    <2> QED
      BY <2>1, PlainRead
  <1>6. CASE r.kind = "fun"
    <2>1. ReadRow(s, pri, r) = ReadFun(s, r)
      BY <1>6 DEF ReadRow, VarKind, TourKind
    <2> QED
      BY <1>6, <2>1, FunRead
  <1> QED
    BY <1>1, <1>2, <1>3, <1>4, <1>5, <1>6

\* The states between the rows of a table.
RowByRow(s, pri, rows, A) ==
    /\ A[0] = s
    /\ \A k \in 1..Len(rows) : A[k] = ReadRow(A[k - 1], pri, rows[k])
    /\ \A k \in 0..Len(rows) : A[k] \in TidyState

LEMMA RowsSteps ==
    ASSUME NEW s \in TidyState, NEW rows \in Seq(DataRow), NEW pri \in Seen
    PROVE  \E A : RowByRow(s, pri, rows, A) /\ ReadRows(s, pri, rows) = A[Len(rows)]
  <1> DEFINE n == Len(rows)
             item(k) == rows[k]
             step == [k \in 0..n |-> [v \in TidyState |->
                        IF k = 0 THEN v ELSE ReadRow(v, pri, item(k))]]
             A == CHOOSE f : f = [k \in 0..n |-> IF k = 0 THEN s ELSE ReadRow(f[k - 1], pri, item(k))]
  <1>1. n \in Nat /\ \A k \in 1..n : item(k) \in DataRow
    OBVIOUS
  <1>2. ReadRows(s, pri, rows) = A[n]
    BY DEF ReadRows
  <1> HIDE DEF item, n
  <1>3. step \in [0..n -> [TidyState -> TidyState]]
    <2> SUFFICES ASSUME NEW k \in 0..n, NEW v \in TidyState
                 PROVE  (IF k = 0 THEN v ELSE ReadRow(v, pri, item(k))) \in TidyState
      OBVIOUS
    <2>1. k = 0 \/ k \in 1..n
      BY <1>1
    <2> QED
      BY <1>1, <2>1, RowRead
  <1>4. PICK f \in [0..n -> TidyState] :
            f[0] = s /\ \A k \in 0..n : k # 0 => f[k] = step[k][f[k - 1]]
    <2> HIDE DEF step
    <2>1. Recursive(0, n, TidyState, s, step)
      BY <1>1, <1>3 DEF Recursive
    <2> QED
      BY <2>1, Recursion
  <1>5. \A k \in 0..n : k # 0 => f[k] = ReadRow(f[k - 1], pri, item(k))
    <2> SUFFICES ASSUME NEW k \in 0..n, k # 0 PROVE f[k] = ReadRow(f[k - 1], pri, item(k))
      OBVIOUS
    <2>1. k - 1 \in 0..n
      BY <1>1
    <2>2. step[k] = [v \in TidyState |-> ReadRow(v, pri, item(k))]
      OBVIOUS
    <2> HIDE DEF step
    <2> QED
      BY <1>4, <2>1, <2>2
  <1>6. f = [k \in 0..n |-> IF k = 0 THEN s ELSE ReadRow(f[k - 1], pri, item(k))]
    BY <1>4, <1>5
  <1>7. A = [k \in 0..n |-> IF k = 0 THEN s ELSE ReadRow(A[k - 1], pri, item(k))]
    BY <1>6
  <1> HIDE DEF A
  <1>8. A[0] = s /\ \A k \in 0..n : k # 0 => A[k] = ReadRow(A[k - 1], pri, item(k))
    <2>1. 0 \in 0..n
      BY <1>1
    <2> QED
      BY <1>7, <2>1
  <1> DEFINE I == {k \in 0..n : A[k] \in TidyState}
  <1>9. 0 \in I
    BY <1>1, <1>8
  <1>10. \A k \in 0..n : k # 0 /\ k - 1 \in I => k \in I
    <2> SUFFICES ASSUME NEW k \in 0..n, k # 0, k - 1 \in I PROVE k \in I
      OBVIOUS
    <2>1. item(k) \in DataRow
      BY <1>1
    <2>2. ReadRow(A[k - 1], pri, item(k)) \in TidyState
      BY <2>1, RowRead
    <2> QED
      BY <1>8, <2>2
  <1> HIDE DEF I
  <1>11. \A k \in 0..n : k \in I
    BY <1>1, <1>9, <1>10, Upwards
  <1>12. \A k \in 0..n : A[k] \in TidyState
    BY <1>11 DEF I
  <1>13. RowByRow(s, pri, rows, A)
    <2>1. \A k \in 1..n : k \in 0..n /\ k # 0
      BY <1>1
    <2>2. \A k \in 1..n : A[k] = ReadRow(A[k - 1], pri, item(k))
      BY <1>8, <2>1
    <2> QED
      BY <1>8, <1>12, <2>2 DEF RowByRow, n, item
  <1> QED
    BY <1>2, <1>13 DEF n

LEMMA RowsRead ==
    ASSUME NEW s \in TidyState, NEW rows \in Seq(DataRow), NEW pri \in Seen
    PROVE  ReadRows(s, pri, rows) \in TidyState
  <1>1. PICK A : RowByRow(s, pri, rows, A) /\ ReadRows(s, pri, rows) = A[Len(rows)]
    BY RowsSteps
  <1>2. Len(rows) \in 0..Len(rows)
    OBVIOUS
  <1> QED
    BY <1>1, <1>2 DEF RowByRow

\* What a copy of o may hold while it is made.
CopyOf(o) == {t \in TidyObject : t.places \subseteq o.places \union Cores}

LEMMA PlaceCopied ==
    ASSUME NEW o \in TidyObject, NEW t \in CopyOf(o), NEW p \in o.places \ Cores
    PROVE  DoInsert(t, p) \in CopyOf(o)
  <1>1. t \in ObjectType /\ Tidy(t) /\ t.places \subseteq o.places \union Cores
    BY DEF CopyOf, TidyObject
  <1>2. Tidy(o) /\ p \in AnyPlace
    BY DEF TidyObject, Tidy
  <1>3. Fresh(t, p)
    <2> SUFFICES ASSUME NEW q \in t.places, p.kind \in VarPlaceKind, q.kind \in VarPlaceKind,
                        SameKey(q, p)
                 PROVE  q = p
      BY DEF Fresh, VarPlacesAt
    <2>1. CASE q \in Cores
      <3>1. p \notin DataRow /\ p \notin Locals
        BY <2>1, RowName, CoreName, LocalName, LongKeys DEF Cores, Locals, SameKey
      <3> QED
        BY <1>2, <3>1 DEF AnyPlace
    <2>2. CASE q \in o.places
      BY <1>2, <2>2 DEF Tidy
    <2> QED
      BY <1>1, <2>1, <2>2
  <1>4. p.kind = "city" => p \in DataRow
    BY <1>2, CoreName, LocalName DEF AnyPlace, Cores, Locals
  <1>5. /\ DoInsert(t, p) \in ObjectType /\ Tidy(DoInsert(t, p))
        /\ DoInsert(t, p).places \subseteq t.places \union {p} \union Cores
    BY <1>1, <1>2, <1>3, <1>4, Inserted
  <1> QED
    BY <1>1, <1>5 DEF CopyOf, TidyObject

\* The states between the places of a copy.
PlaceByPlace(o, s, places, A) ==
    /\ A[0] = s
    /\ \A k \in 1..Len(places) : A[k] = DoInsert(A[k - 1], places[k])
    /\ \A k \in 0..Len(places) : A[k] \in CopyOf(o)

LEMMA CopySteps ==
    ASSUME NEW o \in TidyObject, NEW s \in CopyOf(o), NEW places \in Seq(o.places \ Cores)
    PROVE  \E A : PlaceByPlace(o, s, places, A) /\ CopyAndInsert(s, places) = A[Len(places)]
  <1> DEFINE n == Len(places)
             S == CopyOf(o)
             item(k) == places[k]
             step == [k \in 0..n |-> [v \in S |-> IF k = 0 THEN v ELSE DoInsert(v, item(k))]]
             A == CHOOSE f : f = [k \in 0..n |-> IF k = 0 THEN s ELSE DoInsert(f[k - 1], item(k))]
  <1>1. n \in Nat /\ \A k \in 1..n : item(k) \in o.places \ Cores
    OBVIOUS
  <1>2. CopyAndInsert(s, places) = A[n]
    BY DEF CopyAndInsert
  <1>0. s \in S /\ \A v \in S : \A p \in o.places \ Cores : DoInsert(v, p) \in S
    BY PlaceCopied
  <1> HIDE DEF item, n, S
  <1>3. step \in [0..n -> [S -> S]]
    <2> SUFFICES ASSUME NEW k \in 0..n, NEW v \in S
                 PROVE  (IF k = 0 THEN v ELSE DoInsert(v, item(k))) \in S
      OBVIOUS
    <2>1. k = 0 \/ k \in 1..n
      BY <1>1
    <2> QED
      BY <1>0, <1>1, <2>1
  <1>4. PICK f \in [0..n -> S] :
            f[0] = s /\ \A k \in 0..n : k # 0 => f[k] = step[k][f[k - 1]]
    <2> HIDE DEF step
    <2>1. Recursive(0, n, S, s, step)
      BY <1>0, <1>1, <1>3 DEF Recursive
    <2> QED
      BY <2>1, Recursion
  <1>5. \A k \in 0..n : k # 0 => f[k] = DoInsert(f[k - 1], item(k))
    <2> SUFFICES ASSUME NEW k \in 0..n, k # 0 PROVE f[k] = DoInsert(f[k - 1], item(k))
      OBVIOUS
    <2>1. k - 1 \in 0..n
      BY <1>1
    <2>2. step[k] = [v \in S |-> DoInsert(v, item(k))]
      OBVIOUS
    <2> HIDE DEF step
    <2> QED
      BY <1>4, <2>1, <2>2
  <1>6. f = [k \in 0..n |-> IF k = 0 THEN s ELSE DoInsert(f[k - 1], item(k))]
    BY <1>4, <1>5
  <1>7. A = [k \in 0..n |-> IF k = 0 THEN s ELSE DoInsert(A[k - 1], item(k))]
    BY <1>6
  <1> HIDE DEF A
  <1>8. A[0] = s /\ \A k \in 0..n : k # 0 => A[k] = DoInsert(A[k - 1], item(k))
    <2>1. 0 \in 0..n
      BY <1>1
    <2> QED
      BY <1>7, <2>1
  <1> DEFINE I == {k \in 0..n : A[k] \in S}
  <1>9. 0 \in I
    BY <1>0, <1>1, <1>8
  <1>10. \A k \in 0..n : k # 0 /\ k - 1 \in I => k \in I
    <2> SUFFICES ASSUME NEW k \in 0..n, k # 0, k - 1 \in I PROVE k \in I
      OBVIOUS
    <2>1. item(k) \in o.places \ Cores
      BY <1>1
    <2>2. DoInsert(A[k - 1], item(k)) \in S
      BY <1>0, <2>1
    <2> QED
      BY <1>8, <2>2
  <1> HIDE DEF I
  <1>11. \A k \in 0..n : k \in I
    BY <1>1, <1>9, <1>10, Upwards
  <1>12. \A k \in 0..n : A[k] \in CopyOf(o)
    BY <1>11 DEF I, S
  <1>13. PlaceByPlace(o, s, places, A)
    <2>1. \A k \in 1..n : k \in 0..n /\ k # 0
      BY <1>1
    <2>2. \A k \in 1..n : A[k] = DoInsert(A[k - 1], item(k))
      BY <1>8, <2>1
    <2> QED
      BY <1>8, <1>12, <2>2 DEF PlaceByPlace, n, item
  <1> QED
    BY <1>2, <1>13 DEF n

-----------------------------------------------------------------------------
(* The objects of the program. *)

LEMMA FinitePlaces ==
    /\ \A rows \in SUBSET DataRow : IsFiniteSet(rows)
    /\ \A ps \in SUBSET AnyPlace : IsFiniteSet(ps)
  <1>1. IsFiniteSet(DataRow)
    BY RowAssumption
  <1>2. IsFiniteSet(Cores)
    <2> DEFINE f == [r \in DataRow |-> Made("hotel", coreId(r.id), r.pt, r.cell)]
    <2>1. f \in Surjection(DataRow, Cores)
      BY DEF Surjection, Cores
    <2> HIDE DEF f
    <2> QED
      BY <1>1, <2>1, FS_Surjection
  <1>3. IsFiniteSet(Locals)
    <2> DEFINE f == [r \in DataRow |-> Made("view", gatherId(r.id), None, None)]
    <2>1. f \in Surjection(DataRow, Locals)
      BY DEF Surjection, Locals
    <2> HIDE DEF f
    <2> QED
      BY <1>1, <2>1, FS_Surjection
  <1>4. IsFiniteSet(DataRow \union Cores)
    BY <1>1, <1>2, FS_Union
  <1>5. IsFiniteSet(AnyPlace)
    BY <1>3, <1>4, FS_Union DEF AnyPlace
  <1> QED
    BY <1>1, <1>5, FS_Subset

LEMMA EmptyTidy ==
    /\ Empty \in TidyObject
    /\ \A C \in SUBSET Spot : \A W \in SUBSET GridKey : With(Empty, <<C, W>>) \in TidyState
  BY DEF Empty, With, TidyObject, TidyState, ObjectType, StateType, Tidy

LEMMA WithTidy ==
    ASSUME NEW o \in TidyObject, NEW C \in SUBSET Spot, NEW W \in SUBSET GridKey
    PROVE  With(o, <<C, W>>) \in TidyState
  <1> DEFINE s == With(o, <<C, W>>)
  <1>1. o \in ObjectType /\ Tidy(o)
    BY DEF TidyObject
  <1>2. s \in StateType /\ s.places = o.places /\ s.index = o.index
    BY <1>1 DEF With, StateType, ObjectType
  <1> HIDE DEF s
  <1>3. Tidy(s)
    BY <1>1, <1>2, SameParts
  <1> QED
    BY <1>2, <1>3 DEF TidyState, s

LEMMA ObjectTidy ==
    ASSUME NEW s \in TidyState
    PROVE  /\ Object(s) \in TidyObject
           /\ s.cells \in SUBSET Spot /\ s.where \in SUBSET GridKey
  <1> DEFINE o == Object(s)
  <1>1. s \in StateType /\ Tidy(s)
    BY DEF TidyState
  <1>2. o \in ObjectType /\ s.places = o.places /\ s.index = o.index
    BY <1>1 DEF Object, StateType, ObjectType
  <1>3. s.cells \in SUBSET Spot /\ s.where \in SUBSET GridKey
    BY <1>1 DEF StateType
  <1> HIDE DEF o
  <1>4. Tidy(o)
    BY <1>1, <1>2, SameParts
  <1> QED
    BY <1>2, <1>3, <1>4 DEF TidyObject, o

LEMMA LoadTidy ==
    ASSUME NEW rows \in SUBSET DataRow, NEW pri \in Seen, NEW C \in SUBSET Spot, NEW W \in SUBSET GridKey
    PROVE  PrivateLoad(rows, pri, <<C, W>>) \in TidyState
  <1> DEFINE of(k) == SetToSeq(OfKind(rows, LoadOrder[k]))
             seq == of(1) \o of(2) \o of(3) \o of(4) \o of(5) \o of(6) \o of(7)
  <1>1. ASSUME NEW k PROVE of(k) \in Seq(DataRow)
    <2> DEFINE some == OfKind(rows, LoadOrder[k])
    <2>1. some \in SUBSET DataRow
      BY DEF OfKind
    <2> HIDE DEF some
    <2>2. IsFiniteSet(some)
      BY <2>1, FinitePlaces
    <2>3. SetToSeq(some) \in Seq(some)
      BY <2>2, Enumerated
    <2>4. SetToSeq(some) \in Seq(DataRow)
      BY <2>1, <2>3
    <2> QED
      BY <2>4 DEF some
  <1>2. PrivateLoad(rows, pri, <<C, W>>) = ReadRows(With(Empty, <<C, W>>), pri, seq)
    BY DEF PrivateLoad
  <1> HIDE DEF of
  <1>3. seq \in Seq(DataRow)
    BY <1>1
  <1> HIDE DEF seq
  <1> QED
    BY <1>2, <1>3, EmptyTidy, RowsRead

\* What is copied: everything but the core hotels.
LEMMA WhatIsCopied ==
    ASSUME NEW o \in TidyObject
    PROVE  LET of(k) == SetToSeq(Copied(o, CopyOrder[k]))
               seq == of(1) \o of(2) \o of(3) \o of(4) \o of(5) \o of(6) \o of(7)
           IN  seq \in Seq(o.places \ Cores) /\ ToSet(seq) = o.places \ Cores
  <1> DEFINE of(k) == SetToSeq(Copied(o, CopyOrder[k]))
             S == o.places \ Cores
             seq == of(1) \o of(2) \o of(3) \o of(4) \o of(5) \o of(6) \o of(7)
  <1>0. o.places \in SUBSET AnyPlace
    BY DEF TidyObject, Tidy
  <1>1. ASSUME NEW k PROVE of(k) \in Seq(S) /\ ToSet(of(k)) = Copied(o, CopyOrder[k])
    <2> DEFINE some == Copied(o, CopyOrder[k])
    <2>1. some \in SUBSET S /\ some \in SUBSET AnyPlace
      <3> SUFFICES ASSUME NEW p \in some PROVE p \in o.places /\ p \notin Cores
        BY <1>0
      <3>1. p \in o.places /\ ~(MapOf(p) = "hotel" /\ p.id[1] = "coreHotel")
        BY DEF Copied
      <3> QED
        BY <3>1, MadeIds
    <2> HIDE DEF some, S
    <2>2. IsFiniteSet(some)
      BY <2>1, FinitePlaces
    <2>3. SetToSeq(some) \in Seq(some) /\ ToSet(SetToSeq(some)) = some
      BY <2>2, Enumerated
    <2>4. SetToSeq(some) \in Seq(S)
      BY <2>1, <2>3
    <2> QED
      BY <2>3, <2>4 DEF some
  <1> HIDE DEF of
  <1>2. Lists(S, seq, ToSet(of(1)) \union ToSet(of(2)) \union ToSet(of(3)) \union ToSet(of(4))
                      \union ToSet(of(5)) \union ToSet(of(6)) \union ToSet(of(7)))
    <2> HIDE DEF S
    <2>1. \A k : Lists(S, of(k), ToSet(of(k)))
      BY <1>1 DEF Lists
    <2> QED
      BY <2>1, SevenTables
  <1>3. seq \in Seq(S) /\ \A p \in ToSet(seq) : p \in S
    <2> HIDE DEF seq
    <2> QED
      BY <1>2 DEF Lists, ToSet
  <1> HIDE DEF seq
  <1>4. ASSUME NEW p \in S PROVE p \in ToSet(seq)
    <2>1. \E k \in 1..7 : MapOf(p) = CopyOrder[k]
      <3>1. MapOf(p) \in {"city", "hotel", "view", "shop", "restaurant", "tour", "fun"}
        <4>1. CASE p \in DataRow
          BY <4>1, RowName DEF VarKind
        <4>2. CASE p \in Cores \union Locals
          BY <4>2, MadeIds
        <4> QED
          BY <1>0, <4>1, <4>2 DEF AnyPlace
      <3>2. /\ CopyOrder[1] = "city" /\ CopyOrder[2] = "hotel" /\ CopyOrder[3] = "view"
            /\ CopyOrder[4] = "shop" /\ CopyOrder[5] = "restaurant" /\ CopyOrder[6] = "tour"
            /\ CopyOrder[7] = "fun"
        BY DEF CopyOrder
      <3>3. 1 \in 1..7 /\ 2 \in 1..7 /\ 3 \in 1..7 /\ 4 \in 1..7 /\ 5 \in 1..7 /\ 6 \in 1..7
            /\ 7 \in 1..7
        OBVIOUS
      <3> QED
        BY <3>1, <3>2, <3>3
    <2>2. PICK k \in 1..7 : MapOf(p) = CopyOrder[k]
      BY <2>1
    <2>3. ~(MapOf(p) = "hotel" /\ p.id[1] = "coreHotel")
      <3>1. CASE p \in DataRow
        BY <3>1, RowName
      <3>2. CASE p \in Locals
        BY <3>2, MadeIds
      <3> QED
        BY <1>0, <3>1, <3>2 DEF AnyPlace
    <2>4. p \in Copied(o, CopyOrder[k])
      BY <2>2, <2>3 DEF Copied
    <2>5. p \in ToSet(of(k))
      BY <1>1, <2>4
    <2>6. k = 1 \/ k = 2 \/ k = 3 \/ k = 4 \/ k = 5 \/ k = 6 \/ k = 7
      BY <2>2
    <2> QED
      BY <1>2, <2>5, <2>6 DEF Lists
  <1>5. seq \in Seq(o.places \ Cores) /\ ToSet(seq) = o.places \ Cores
    BY <1>3, <1>4
  <1> QED
    BY <1>5 DEF seq, of

LEMMA CopyTidy ==
    ASSUME NEW o \in TidyObject
    PROVE  CopyData(o) \in TidyObject
  <1> DEFINE of(k) == SetToSeq(Copied(o, CopyOrder[k]))
             seq == of(1) \o of(2) \o of(3) \o of(4) \o of(5) \o of(6) \o of(7)
             t == CopyAndInsert(Empty, seq)
             u == CopyData(o)
  <1>0. o.places \in SUBSET AnyPlace /\ o \in ObjectType
    BY DEF TidyObject, Tidy
  <1>3. seq \in Seq(o.places \ Cores)
    BY WhatIsCopied
  <1>2. u = [t EXCEPT !.shields = o.shields, !.taken = o.taken]
    BY DEF CopyData
  <1> HIDE DEF of, seq, u
  <1>4. Empty \in CopyOf(o)
    BY EmptyTidy DEF CopyOf, Empty
  <1>5. t \in ObjectType /\ Tidy(t)
    <2>1. PICK A : PlaceByPlace(o, Empty, seq, A) /\ CopyAndInsert(Empty, seq) = A[Len(seq)]
      BY <1>3, <1>4, CopySteps
    <2>2. Len(seq) \in 0..Len(seq)
      BY <1>3
    <2> QED
      BY <2>1, <2>2 DEF PlaceByPlace, CopyOf, TidyObject
  <1> HIDE DEF t
  <1>6. u \in ObjectType /\ u.places = t.places /\ u.index = t.index
    BY <1>0, <1>2, <1>5 DEF ObjectType
  <1>7. Tidy(u)
    BY <1>5, <1>6, SameParts
  <1> QED
    BY <1>6, <1>7 DEF TidyObject, u

-----------------------------------------------------------------------------
\* Every object is tidy, and the grid knows rows only.
DataInv ==
    /\ db \subseteq DataRow
    /\ fixed \in TidyObject /\ shared \in TidyObject /\ next \in TidyObject
    /\ cells \subseteq Spot /\ where \subseteq GridKey

LEMMA DataInvInit == DataInit => DataInv
  <1> SUFFICES ASSUME DataInit PROVE DataInv
    OBVIOUS
  <1>1. db \subseteq DataRow
    BY RowAssumption DEF DataInit
  <1> QED
    BY <1>1, EmptyTidy DEF DataInit, DataInv

LEMMA DataInvStep == DataInv /\ [DataNext]_privVars => DataInv'
  <1> SUFFICES ASSUME DataInv, [DataNext]_privVars PROVE DataInv'
    OBVIOUS
  <1> USE DEF DataInv
  <1>0. None \in Seen /\ fixed \in Seen
    BY DEF Seen, TidyObject
  <1>1. ASSUME NEW r \in DataRow, Change(r) \/ Delete(r) PROVE DataInv'
    BY <1>1 DEF Change, Delete, objVars, gridVars
  <1>2. CASE LoadFixed
    <2> DEFINE s == PrivateLoad(db, None, <<cells, where>>)
    <2>1. s \in TidyState
      BY <1>0, LoadTidy
    <2>2. fixed' = Object(s) /\ cells' = s.cells /\ where' = s.where
      BY <1>2 DEF LoadFixed
    <2> HIDE DEF s
    <2>3. UNCHANGED <<db, shared, next>>
      BY <1>2 DEF LoadFixed
    <2> QED
      BY <2>1, <2>2, <2>3, ObjectTidy
  <1>3. CASE Load
    <2> DEFINE s == PrivateLoad(db, fixed, <<cells, where>>)
    <2>1. s \in TidyState
      BY <1>0, LoadTidy
    <2>2. shared' = Object(s) /\ cells' = s.cells /\ where' = s.where
      BY <1>3 DEF Load
    <2> HIDE DEF s
    <2>3. UNCHANGED <<db, fixed, next>>
      BY <1>3 DEF Load
    <2> QED
      BY <2>1, <2>2, <2>3, ObjectTidy
  <1>4. CASE Begin
    BY <1>4, CopyTidy DEF Begin, gridVars
  <1>5. CASE ReadTable
    <2>1. PICK rows, seq : /\ rows \in SUBSET db /\ seq \in SetToSeqs(rows)
                          /\ LET s == ReadRows(With(next, <<cells, where>>), fixed, seq) IN
                             next' = Object(s) /\ cells' = s.cells /\ where' = s.where
      BY <1>5 DEF ReadTable, OfKind
    <2>2. seq \in Seq(DataRow)
      <3>1. rows \in SUBSET DataRow
        BY <2>1
      <3>2. Cardinality(rows) \in Nat
        BY <3>1, FinitePlaces, FS_CardinalityType
      <3>3. seq \in [1..Cardinality(rows) -> rows]
        BY <2>1 DEF SetToSeqs
      <3> QED
        BY <3>1, <3>2, <3>3, SeqOfFunction
    <2> DEFINE s == ReadRows(With(next, <<cells, where>>), fixed, seq)
    <2>3. s \in TidyState
      BY <1>0, <2>2, WithTidy, RowsRead
    <2>4. next' = Object(s) /\ cells' = s.cells /\ where' = s.where
      BY <2>1
    <2> HIDE DEF s
    <2>5. UNCHANGED <<db, fixed, shared>>
      BY <1>5 DEF ReadTable
    <2> QED
      BY <2>3, <2>4, <2>5, ObjectTidy
  <1>6. CASE TableFails
    BY <1>6 DEF TableFails, objVars, gridVars
  <1>7. CASE PublishData
    BY <1>7, EmptyTidy DEF PublishData, gridVars
  <1>8. CASE UNCHANGED privVars
    BY <1>8 DEF privVars, objVars, gridVars
  <1> QED
    BY <1>1, <1>2, <1>3, <1>4, <1>5, <1>6, <1>7, <1>8 DEF DataNext

LEMMA DataInvHolds == DataSpec => []DataInv
  BY DataInvInit, DataInvStep, PTL DEF DataSpec

\* In every object of the private data the lists of the cities hold the ids of
\* the places of the maps and nothing else, whatever is changed, read, copied
\* and published in whatever order (PrivateConstData.cpp, DoInsert and
\* DelLYPlace).
THEOREM PrivateIndexExact == DataSpec => []IndexExact
  <1>1. DataInv => IndexExact
    BY DEF DataInv, IndexExact, TidyObject, Tidy
  <1> QED
    BY <1>1, DataInvHolds, PTL

-----------------------------------------------------------------------------
(* The grid, at the id and the ptid of a row z. *)

Cell == {r.cell : r \in DataRow}
CellsAt(C, z) == {c \in Cell : <<c, z.id, z.pt>> \in C}
WhereAt(W, z) == {c \in Cell : <<z.id, z.pt, c>> \in W}
PosAt(P, z) ==
    {c \in Cell : c # None /\ \E p \in VarPlacesAt(P, z) : p.kind \in VarKind /\ p.cell = c}

\* The grid shows the place in its cell, but may still show, and remember, it
\* where it was in the cells F.
GridUpTo(s, z, F) ==
    /\ PosAt(s.places, z) \subseteq CellsAt(s.cells, z)
    /\ CellsAt(s.cells, z) \subseteq F \union PosAt(s.places, z)
    /\ IF PosAt(s.places, z) = {} THEN WhereAt(s.where, z) \subseteq F
       ELSE WhereAt(s.where, z) = PosAt(s.places, z)

LEMMA delIdFromGridAt ==
    ASSUME NEW s \in StateType, NEW p, NEW z \in DataRow,
           NEW t, t = delIdFromGrid(s, p.id, p.pt)
    PROVE  /\ SameKey(p, z) => /\ CellsAt(t.cells, z) = CellsAt(s.cells, z) \ WhereAt(s.where, z)
                               /\ WhereAt(t.where, z) = {}
           /\ ~SameKey(p, z) => /\ CellsAt(t.cells, z) = CellsAt(s.cells, z)
                                /\ WhereAt(t.where, z) = WhereAt(s.where, z)
  <1> DEFINE old == {x \in s.where : x[1] = p.id /\ x[2] = p.pt}
             gone == {<<x[3], x[1], x[2]>> : x \in old}
  <1>1. t.where = s.where \ old /\ t.cells = s.cells \ gone
    <2>1. t = [s EXCEPT !.where = s.where \ old, !.cells = s.cells \ gone]
      BY DEF delIdFromGrid, StateType
    <2> HIDE DEF old, gone
    <2> QED
      BY <2>1 DEF StateType
  <1>2. ASSUME NEW c PROVE <<z.id, z.pt, c>> \in old <=> <<z.id, z.pt, c>> \in s.where /\ SameKey(p, z)
    BY DEF SameKey
  <1>3. ASSUME NEW c PROVE <<c, z.id, z.pt>> \in gone <=> <<z.id, z.pt, c>> \in s.where /\ SameKey(p, z)
    <2>1. ASSUME <<c, z.id, z.pt>> \in gone PROVE <<z.id, z.pt, c>> \in s.where /\ SameKey(p, z)
      <3>1. PICK x \in s.where : x[1] = p.id /\ x[2] = p.pt /\ <<c, z.id, z.pt>> = <<x[3], x[1], x[2]>>
        BY <2>1
      <3>2. PICK r \in DataRow : x = <<r.id, r.pt, r.cell>>
        BY DEF StateType, GridKey
      <3>3. x = <<z.id, z.pt, c>>
        BY <3>1, <3>2
      <3> QED
        BY <3>1, <3>3 DEF SameKey
    <2>2. ASSUME <<z.id, z.pt, c>> \in s.where, SameKey(p, z) PROVE <<c, z.id, z.pt>> \in gone
      <3> DEFINE x == <<z.id, z.pt, c>>
      <3>1. x \in old /\ <<x[3], x[1], x[2]>> = <<c, z.id, z.pt>>
        BY <2>2 DEF SameKey
      <3> QED
        BY <3>1
    <2> QED
      BY <2>1, <2>2
  <1> HIDE DEF old, gone
  <1>4. CASE SameKey(p, z)
    BY <1>1, <1>2, <1>3, <1>4 DEF CellsAt, WhereAt
  <1>5. CASE ~SameKey(p, z)
    BY <1>1, <1>2, <1>3, <1>5 DEF CellsAt, WhereAt
  <1> QED
    BY <1>4, <1>5

LEMMA addId2GridAt ==
    ASSUME NEW s \in StateType, NEW r \in DataRow, NEW z \in DataRow,
           NEW t, t = addId2Grid(s, r.id, r.pt, r.cell)
    PROVE  /\ SameKey(r, z) => /\ CellsAt(t.cells, z) = CellsAt(s.cells, z) \union {r.cell}
                               /\ WhereAt(t.where, z) = {r.cell}
           /\ ~SameKey(r, z) => /\ CellsAt(t.cells, z) = CellsAt(s.cells, z)
                                /\ WhereAt(t.where, z) = WhereAt(s.where, z)
  <1> DEFINE kept == {x \in s.where : x[1] # r.id \/ x[2] # r.pt}
  <1>1. /\ t.where = kept \union {<<r.id, r.pt, r.cell>>}
        /\ t.cells = s.cells \union {<<r.cell, r.id, r.pt>>}
    <2>1. t = [s EXCEPT !.where = kept \union {<<r.id, r.pt, r.cell>>},
                        !.cells = s.cells \union {<<r.cell, r.id, r.pt>>}]
      BY DEF addId2Grid, StateType
    <2> HIDE DEF kept
    <2> QED
      BY <2>1 DEF StateType
  <1>2. ASSUME NEW c PROVE <<z.id, z.pt, c>> \in kept <=> <<z.id, z.pt, c>> \in s.where /\ ~SameKey(r, z)
    BY DEF SameKey
  <1>3. ASSUME NEW c PROVE /\ <<z.id, z.pt, c>> = <<r.id, r.pt, r.cell>> <=> SameKey(r, z) /\ c = r.cell
                           /\ <<c, z.id, z.pt>> = <<r.cell, r.id, r.pt>> <=> SameKey(r, z) /\ c = r.cell
    BY DEF SameKey
  <1>4. r.cell \in Cell
    BY DEF Cell
  <1> HIDE DEF kept
  <1>5. CASE SameKey(r, z)
    BY <1>1, <1>2, <1>3, <1>4, <1>5 DEF CellsAt, WhereAt
  <1>6. CASE ~SameKey(r, z)
    BY <1>1, <1>2, <1>3, <1>6 DEF CellsAt, WhereAt
  <1> QED
    BY <1>5, <1>6

\* A VarPlace at the key of a row is a row.
LEMMA RowsAtKey ==
    ASSUME NEW s, Tidy(s), NEW z \in DataRow, NEW q \in VarPlacesAt(s.places, z)
    PROVE  q \in s.places /\ q \in DataRow /\ q \notin Cores /\ q \notin Locals
  <1>1. q \in s.places /\ q.kind \in VarPlaceKind /\ SameKey(q, z)
    BY DEF VarPlacesAt
  <1>2. q \in DataRow
    BY <1>1, VarPlaceKey
  <1>3. q.id = <<q.id[1]>>
    BY <1>2, RowName
  <1> QED
    BY <1>1, <1>2, <1>3, MadeIds

LEMMA DeletedAt ==
    ASSUME NEW s \in StateType, Tidy(s), NEW r \in DataRow, NEW z \in DataRow,
           NEW t, t = DelLYPlace(s, r.id, r.pt)
    PROVE  /\ ~(r.kind \in VarPlaceKind /\ SameKey(r, z)) =>
                  VarPlacesAt(t.places, z) = VarPlacesAt(s.places, z)
           /\ \A F : GridUpTo(s, z, F) => GridUpTo(t, z, F)
  <1>1. CASE t = s
    BY <1>1
  <1>2. CASE \E p, E : Gone(s, r, t, p, E)
    <2>1. PICK p, E : Gone(s, r, t, p, E)
      BY <1>2
    <2>2. /\ p \in s.places /\ p \in DataRow /\ p.id = r.id /\ p \in E
          /\ E \subseteq {p} \union Cores \union Locals /\ t.places = s.places \ E
      BY <2>1 DEF Gone, FoundOf
    <2>3. VarPlacesAt(t.places, z) = VarPlacesAt(s.places, z) \ {p}
      <3>1. ASSUME NEW q \in VarPlacesAt(s.places, z), q # p PROVE q \in VarPlacesAt(t.places, z)
        <4>1. q \in s.places /\ q \notin E
          BY <2>2, <3>1, RowsAtKey
        <4> QED
          BY <2>2, <3>1, <4>1 DEF VarPlacesAt
      <3>2. ASSUME NEW q \in VarPlacesAt(t.places, z) PROVE q \in VarPlacesAt(s.places, z) \ {p}
        BY <2>2, <3>2 DEF VarPlacesAt
      <3> QED
        BY <3>1, <3>2
    <2>4. ASSUME p \in VarPlacesAt(s.places, z) PROVE r.kind \in VarPlaceKind /\ SameKey(r, z)
      <3>1. p.kind \in VarPlaceKind /\ SameKey(p, z)
        BY <2>4 DEF VarPlacesAt
      <3>2. CASE p.refer = None
        BY <2>2, <3>1, <3>2, OwnId DEF SameKey
      <3>3. CASE p.refer # None
        <4>1. p.pt = r.pt
          BY <2>1, <3>3 DEF Gone, FoundOf
        <4>2. r.refer = None => r.kind = p.kind
          BY <2>2, OwnId
        <4>3. r.refer # None => r.kind \in VarPlaceKind
          BY RowName DEF VarPlaceKind
        <4> QED
          BY <2>2, <3>1, <4>1, <4>2, <4>3 DEF SameKey
      <3> QED
        BY <3>2, <3>3
    <2>5. ASSUME NEW F, GridUpTo(s, z, F) PROVE GridUpTo(t, z, F)
      <3> DEFINE u == delIdFromGrid(s, p.id, p.pt)
      <3>1. CASE p.kind \in VarKind /\ SameKey(p, z)
        <4>1. p \in VarPlacesAt(s.places, z)
          BY <2>2, <3>1 DEF VarPlacesAt, VarPlaceKind
        <4>2. \A q \in VarPlacesAt(s.places, z) : q = p
          BY <4>1 DEF Tidy, VarPlacesAt, SameKey
        <4>3. PosAt(t.places, z) = {}
          BY <2>3, <4>2 DEF PosAt
        <4>4. t.cells = u.cells /\ t.where = u.where
          BY <2>1, <3>1 DEF Gone
        <4>5. /\ CellsAt(t.cells, z) = CellsAt(s.cells, z) \ WhereAt(s.where, z)
              /\ WhereAt(t.where, z) = {}
          BY <3>1, <4>4, delIdFromGridAt
        <4> QED
          BY <2>5, <4>3, <4>5 DEF GridUpTo
      <3>2. CASE ~(p.kind \in VarKind /\ SameKey(p, z))
        <4>1. PosAt(t.places, z) = PosAt(s.places, z)
          BY <2>3, <3>2 DEF PosAt, VarPlacesAt
        <4>2. CellsAt(t.cells, z) = CellsAt(s.cells, z) /\ WhereAt(t.where, z) = WhereAt(s.where, z)
          <5>1. CASE p.kind \in VarKind
            <6>1. t.cells = u.cells /\ t.where = u.where
              BY <2>1, <5>1 DEF Gone
            <6> QED
              BY <3>2, <5>1, <6>1, delIdFromGridAt
          <5>2. CASE p.kind \notin VarKind
            BY <2>1, <5>2 DEF Gone
          <5> QED
            BY <5>1, <5>2
        <4> QED
          BY <2>5, <4>1, <4>2 DEF GridUpTo
      <3> QED
        BY <3>1, <3>2
    <2> QED
      BY <2>3, <2>4, <2>5
  <1> QED
    BY <1>1, <1>2, DeletedIs

\* A place that comes in comes to its key, and no other VarPlace leaves one.
LEMMA InsertedAt ==
    ASSUME NEW T \in {ObjectType, StateType}, NEW s \in T, Tidy(s), NEW p \in AnyPlace,
           p.kind = "city" => p \in DataRow, NEW z \in DataRow, NEW t, t = DoInsert(s, p)
    PROVE  /\ T = StateType => t.cells = s.cells /\ t.where = s.where
           /\ Inserts(s, p) /\ p.kind \in VarPlaceKind /\ SameKey(p, z) =>
                  VarPlacesAt(t.places, z) = VarPlacesAt(s.places, z) \union {p}
           /\ ~(p \in DataRow /\ p.kind \in VarPlaceKind /\ SameKey(p, z)) =>
                  VarPlacesAt(t.places, z) = VarPlacesAt(s.places, z)
           /\ \A q \in s.places : q \notin Cores => q \in t.places
           /\ Inserts(s, p) => p \in t.places
  <1>1. CASE ~Inserts(s, p)
    BY <1>1 DEF DoInsert
  <1>2. CASE Inserts(s, p)
    <2> DEFINE gone == IF p.kind = "city" THEN At(s, "hotel", coreId(p.id)) ELSE {}
               add == IF p.kind = "city" THEN {p, Made("hotel", coreId(p.id), p.pt, p.cell)} ELSE {p}
               P == (s.places \ gone) \union add
               J == s.index \union Entries(p)
    <2>1. t = [s EXCEPT !.places = P, !.index = J]
      BY <1>2, Zenon DEF DoInsert
    <2>2. gone \subseteq Cores
      <3> SUFFICES ASSUME p.kind = "city", NEW q \in At(s, "hotel", coreId(p.id)) PROVE q \in Cores
        OBVIOUS
      <3>1. q \in AnyPlace /\ getUniqId(q) = coreId(p.id)
        BY AtIs DEF Tidy
      <3> QED
        BY <3>1, CoreKey
    <2>3. p \in add /\ add \subseteq {p} \union Cores
      BY DEF Cores
    <2> HIDE DEF gone, add, J
    <2>4. t.places = P /\ (T = StateType => t.cells = s.cells /\ t.where = s.where)
      <3> HIDE DEF P
      <3>1. CASE T = ObjectType
        <4>1. s \in ObjectType
          BY <3>1
        <4>2. t.places = P
          BY <2>1, <4>1 DEF ObjectType
        <4>3. "cells" \notin DOMAIN s
          BY <4>1 DEF ObjectType
        <4>4. T # StateType
          <5> SUFFICES ASSUME s \in StateType PROVE FALSE
            OBVIOUS
          <5> QED
            BY <4>3 DEF StateType
        <4> QED
          BY <4>2, <4>4
      <3>2. CASE T = StateType
        <4>1. s \in StateType
          BY <3>2
        <4> QED
          BY <2>1, <4>1 DEF StateType
      <3> QED
        BY <3>1, <3>2
    <2>5. \A q \in VarPlacesAt(s.places, z) : q \in VarPlacesAt(t.places, z)
      <3> SUFFICES ASSUME NEW q \in VarPlacesAt(s.places, z) PROVE q \in VarPlacesAt(t.places, z)
        OBVIOUS
      <3>1. q \in s.places /\ q \notin Cores
        BY RowsAtKey
      <3> QED
        BY <2>2, <2>4, <3>1 DEF VarPlacesAt
    <2>6. \A q \in VarPlacesAt(t.places, z) : q \in VarPlacesAt(s.places, z) \/ q = p
      <3> SUFFICES ASSUME NEW q \in VarPlacesAt(t.places, z), q # p
                   PROVE  q \in VarPlacesAt(s.places, z)
        OBVIOUS
      <3>1. q \notin Cores
        <4>1. q.id = z.id /\ z.id = <<z.id[1]>>
          BY RowName DEF VarPlacesAt, SameKey
        <4> QED
          BY <4>1, MadeIds
      <3>2. q \in s.places
        BY <2>3, <2>4, <3>1 DEF VarPlacesAt
      <3> QED
        BY <3>2 DEF VarPlacesAt
    <2>7. p \in VarPlacesAt(t.places, z) <=> p.kind \in VarPlaceKind /\ SameKey(p, z)
      BY <2>3, <2>4 DEF VarPlacesAt
    <2>8. p.kind \in VarPlaceKind /\ SameKey(p, z) => p \in DataRow
      <3> SUFFICES ASSUME SameKey(p, z) PROVE p \in DataRow
        OBVIOUS
      <3>1. p.id = <<z.id[1]>>
        BY RowName DEF SameKey
      <3> QED
        BY <3>1, MadeIds DEF AnyPlace
    <2>9. \A q \in s.places : q \notin Cores => q \in t.places
      BY <2>2, <2>4
    <2>10. p \in t.places
      BY <2>3, <2>4
    <2> HIDE DEF P
    <2>11. p.kind \in VarPlaceKind /\ SameKey(p, z) =>
              VarPlacesAt(t.places, z) = VarPlacesAt(s.places, z) \union {p}
      BY <2>5, <2>6, <2>7
    <2>12. ~(p \in DataRow /\ p.kind \in VarPlaceKind /\ SameKey(p, z)) =>
              VarPlacesAt(t.places, z) = VarPlacesAt(s.places, z)
      <3> SUFFICES ASSUME ~(p \in DataRow /\ p.kind \in VarPlaceKind /\ SameKey(p, z))
                   PROVE  VarPlacesAt(t.places, z) = VarPlacesAt(s.places, z)
        OBVIOUS
      <3>1. p \notin VarPlacesAt(t.places, z)
        BY <2>7, <2>8
      <3> QED
        BY <2>5, <2>6, <3>1
    <2> QED
      BY <2>4, <2>9, <2>10, <2>11, <2>12
  <1> QED
    BY <1>1, <1>2

\* Where no VarPlace has the key of a row, the row comes in.
LEMMA RowComesIn ==
    ASSUME NEW s, Tidy(s), NEW r \in DataRow, r.kind \in VarPlaceKind,
           VarPlacesAt(s.places, r) = {}
    PROVE  Inserts(s, r)
  <1> SUFFICES ASSUME NEW q \in s.places, MapOf(q) = MapOf(r), getUniqId(q) = getUniqId(r)
               PROVE  FALSE
    BY AtIs DEF Inserts
  <1>1. q \in AnyPlace /\ r.id = <<r.id[1]>>
    BY RowName DEF Tidy
  <1>2. q.kind \in VarPlaceKind
    BY DEF MapOf, VarPlaceKind, VarKind, TourKind
  <1>3. CASE r.refer = None
    <2>1. getUniqId(q) = <<r.id[1]>>
      BY <1>3, RowName
    <2>2. q \in DataRow /\ q.refer = None /\ q.id = r.id
      BY <1>1, <2>1, ShortKey
    <2>3. q.pt = r.pt
      BY <2>2, OwnId
    <2> QED
      BY <1>2, <2>2, <2>3 DEF VarPlacesAt, SameKey
  <1>4. CASE r.refer # None
    <2>1. getUniqId(q) = <<r.id[1], r.pt>> /\ r.id[1] # "coreHotel" /\ r.pt # "gather"
      BY <1>4, RowName
    <2>2. q \notin Cores /\ q \notin Locals
      BY <2>1, CoreName, LocalName, LongKeys DEF Cores, Locals
    <2>3. q \in DataRow
      BY <1>1, <2>2 DEF AnyPlace
    <2>4. q.id[1] = r.id[1] /\ q.pt = r.pt /\ q.id = <<q.id[1]>>
      BY <2>1, <2>3, RowName, LongKeys
    <2> QED
      BY <1>1, <1>2, <2>4 DEF VarPlacesAt, SameKey
  <1> QED
    BY <1>3, <1>4

\* A row that is not skipped.
Lands(r) ==
    /\ r.on
    /\ r.refer = None \/ r.refer \in Base
    /\ r.kind \in VarKind => r.cell # Bad

LEMMA VarPlaceReadAt ==
    ASSUME NEW s \in TidyState, NEW r \in DataRow, r.kind \in VarKind, NEW z \in DataRow,
           NEW x, x = ReadVarPlace(s, r)
    PROVE  /\ SameKey(r, z) => VarPlacesAt(x.places, z) = IF Lands(r) THEN {r} ELSE {}
           /\ ~SameKey(r, z) => VarPlacesAt(x.places, z) = VarPlacesAt(s.places, z)
           /\ \A F : GridUpTo(s, z, F) => GridUpTo(x, z, F)
  <1> DEFINE t == DelLYPlace(s, r.id, r.pt)
             u == IF r.refer # None /\ ~r.on
                  THEN [t EXCEPT !.shields = t.shields \union {<<r.pt, r.refer>>}] ELSE t
             v == IF r.cell = None THEN u ELSE addId2Grid(u, r.id, r.pt, r.cell)
  <1>0. s \in StateType /\ Tidy(s) /\ r.kind \in VarPlaceKind
    BY DEF TidyState, VarPlaceKind
  <1>1. t \in StateType /\ Tidy(t) /\ VarPlacesAt(t.places, r) = {}
    BY <1>0, Deleted
  <1>2. <<r.pt, r.refer>> \in Shield
    BY DEF Shield
  <1>3. x = IF Lands(r) THEN DoInsert(v, r) ELSE u
    BY DEF ReadVarPlace, Lands
  <1>4. /\ ~SameKey(r, z) => VarPlacesAt(t.places, z) = VarPlacesAt(s.places, z)
        /\ \A F : GridUpTo(s, z, F) => GridUpTo(t, z, F)
    BY <1>0, DeletedAt
  <1>5. SameKey(r, z) => VarPlacesAt(t.places, z) = {}
    BY <1>1 DEF SameKey, VarPlacesAt
  <1> HIDE DEF t
  <1>6. /\ u \in StateType /\ u.places = t.places /\ u.index = t.index
        /\ u.cells = t.cells /\ u.where = t.where
    BY <1>1, <1>2 DEF StateType
  <1> HIDE DEF u
  <1>7. v \in StateType /\ v.places = t.places /\ v.index = t.index
    BY <1>6, addId2GridIs
  <1>8. /\ r.cell = None \/ ~SameKey(r, z) =>
              CellsAt(v.cells, z) = CellsAt(t.cells, z) /\ WhereAt(v.where, z) = WhereAt(t.where, z)
        /\ r.cell # None /\ SameKey(r, z) =>
              /\ CellsAt(v.cells, z) = CellsAt(t.cells, z) \union {r.cell}
              /\ WhereAt(v.where, z) = {r.cell}
    BY <1>6, addId2GridAt
  <1> HIDE DEF v
  <1>9. Tidy(u) /\ Tidy(v)
    BY <1>1, <1>6, <1>7, SameParts
  <1>10. r \in AnyPlace /\ r.kind # "city"
    BY DEF AnyPlace, VarKind
  <1>11. CASE ~Lands(r)
    <2>1. x = u
      BY <1>3, <1>11
    <2>2. \A F : GridUpTo(t, z, F) => GridUpTo(u, z, F)
      BY <1>6 DEF GridUpTo
    <2> QED
      BY <1>4, <1>5, <1>6, <1>11, <2>1, <2>2
  <1>12. CASE Lands(r)
    <2> DEFINE y == DoInsert(v, r)
    <2>1. x = y
      BY <1>3, <1>12
    <2>2. Inserts(v, r)
      BY <1>0, <1>1, <1>7, <1>9, RowComesIn
    <2>3. /\ y.cells = v.cells /\ y.where = v.where
          /\ SameKey(r, z) => VarPlacesAt(y.places, z) = VarPlacesAt(v.places, z) \union {r}
          /\ ~SameKey(r, z) => VarPlacesAt(y.places, z) = VarPlacesAt(v.places, z)
      BY <1>0, <1>7, <1>9, <1>10, <2>2, InsertedAt
    <2> HIDE DEF y
    <2>4. ASSUME NEW F, GridUpTo(s, z, F) PROVE GridUpTo(y, z, F)
      <3>1. GridUpTo(t, z, F)
        BY <1>4, <2>4
      <3>2. CASE ~SameKey(r, z)
        <4>1. PosAt(y.places, z) = PosAt(t.places, z)
          BY <1>7, <2>3, <3>2 DEF PosAt
        <4> QED
          BY <1>8, <2>3, <3>1, <3>2, <4>1 DEF GridUpTo
      <3>3. CASE SameKey(r, z)
        <4>1. VarPlacesAt(y.places, z) = {r}
          BY <1>5, <1>7, <2>3, <3>3
        <4>2. PosAt(t.places, z) = {}
          BY <1>5, <3>3 DEF PosAt
        <4>3. CellsAt(t.cells, z) \subseteq F /\ WhereAt(t.where, z) \subseteq F
          BY <3>1, <4>2 DEF GridUpTo
        <4>4. CASE r.cell = None
          <5>1. PosAt(y.places, z) = {}
            BY <4>1, <4>4 DEF PosAt
          <5> QED
            BY <1>8, <2>3, <4>3, <4>4, <5>1 DEF GridUpTo
        <4>5. CASE r.cell # None
          <5>1. PosAt(y.places, z) = {r.cell}
            BY <4>1, <4>5 DEF PosAt, Cell
          <5> QED
            BY <1>8, <2>3, <3>3, <4>3, <4>5, <5>1 DEF GridUpTo
        <4> QED
          BY <4>4, <4>5
      <3> QED
        BY <3>2, <3>3
    <2>5. SameKey(r, z) => VarPlacesAt(y.places, z) = {r}
      BY <1>5, <1>7, <2>3
    <2>6. ~SameKey(r, z) => VarPlacesAt(y.places, z) = VarPlacesAt(s.places, z)
      BY <1>4, <1>7, <2>3
    <2> QED
      BY <1>12, <2>1, <2>4, <2>5, <2>6
  <1> QED
    BY <1>11, <1>12

\* What reading a row does at a key: a VarPlace of the key takes the place of
\* what is there, if it is not skipped; the grid follows.
ReadAt(s, r, z, x) ==
    /\ r.kind \in VarPlaceKind /\ SameKey(r, z) =>
          VarPlacesAt(x.places, z) = IF Lands(r) THEN {r} ELSE {}
    /\ ~(r.kind \in VarPlaceKind /\ SameKey(r, z)) =>
          VarPlacesAt(x.places, z) = VarPlacesAt(s.places, z)
    /\ \A F : GridUpTo(s, z, F) => GridUpTo(x, z, F)

\* A change that leaves the grid and the positions at a key alone.
LEMMA GridAlone ==
    ASSUME NEW s, NEW t, NEW z, NEW F, GridUpTo(s, z, F), t.cells = s.cells, t.where = s.where,
           PosAt(t.places, z) = PosAt(s.places, z)
    PROVE  GridUpTo(t, z, F)
  BY DEF GridUpTo

LEMMA HotelReadAt ==
    ASSUME NEW s \in TidyState, NEW r \in DataRow, r.kind = "hotel", NEW pri \in Seen,
           NEW z \in DataRow
    PROVE  ReadAt(s, r, z, ReadHotel(s, pri, r))
  <1> DEFINE t == DelLYPlace(s, r.id, r.pt)
             x == ReadHotel(s, pri, r)
             N == Named(t, pri, r)
             u == Take(t, r, N)
             y == DoInsert(u, r)
  <1>0. s \in StateType /\ Tidy(s) /\ r.kind \in VarPlaceKind /\ r.kind \notin VarKind
    BY DEF TidyState, VarPlaceKind, VarKind
  <1>1. t \in StateType /\ Tidy(t) /\ VarPlacesAt(t.places, r) = {}
    BY <1>0, Deleted
  <1>2. x = IF Lands(r) THEN y ELSE t
    BY <1>0 DEF ReadHotel, Lands
  <1>3. /\ ~SameKey(r, z) => VarPlacesAt(t.places, z) = VarPlacesAt(s.places, z)
        /\ \A F : GridUpTo(s, z, F) => GridUpTo(t, z, F)
    BY <1>0, DeletedAt
  <1>4. SameKey(r, z) => VarPlacesAt(t.places, z) = {}
    BY <1>1 DEF SameKey, VarPlacesAt
  <1> HIDE DEF t
  <1>5. r \in AnyPlace /\ r.kind # "city"
    BY DEF AnyPlace
  <1>11. \A p \in N : p.cell \in TakenValue
    BY <1>1, NamedCells
  <1> HIDE DEF N
  <1>12. /\ u \in StateType /\ u.places = t.places /\ u.index = t.index
         /\ u.cells = t.cells /\ u.where = t.where
    BY <1>1, <1>11, TakeIs
  <1> HIDE DEF u
  <1>13. Tidy(u) /\ VarPlacesAt(u.places, r) = {} /\ VarPlacesAt(u.places, z) = VarPlacesAt(t.places, z)
    BY <1>1, <1>12, SameParts
  <1>6. Inserts(u, r)
    BY <1>0, <1>12, <1>13, RowComesIn
  <1>7. /\ y.cells = t.cells /\ y.where = t.where
        /\ SameKey(r, z) => VarPlacesAt(y.places, z) = VarPlacesAt(t.places, z) \union {r}
        /\ ~SameKey(r, z) => VarPlacesAt(y.places, z) = VarPlacesAt(t.places, z)
    BY <1>0, <1>5, <1>6, <1>12, <1>13, InsertedAt
  <1> HIDE DEF x, y
  <1>8. PosAt(y.places, z) = PosAt(t.places, z)
    BY <1>0, <1>7 DEF PosAt
  <1>9. \A F : GridUpTo(t, z, F) => GridUpTo(y, z, F)
    BY <1>7, <1>8, GridAlone
  <1>10. ReadAt(s, r, z, x)
    <2>1. CASE Lands(r)
      <3>1. /\ x = y /\ \A F : GridUpTo(s, z, F) => GridUpTo(x, z, F)
        BY <1>2, <1>3, <1>9, <2>1
      <3>2. SameKey(r, z) => VarPlacesAt(x.places, z) = {r}
        BY <1>4, <1>7, <3>1
      <3>3. ~SameKey(r, z) => VarPlacesAt(x.places, z) = VarPlacesAt(s.places, z)
        BY <1>3, <1>7, <3>1
      <3> QED
        BY <1>0, <2>1, <3>1, <3>2, <3>3 DEF ReadAt
    <2>2. CASE ~Lands(r)
      BY <1>0, <1>2, <1>3, <1>4, <2>2 DEF ReadAt
    <2> QED
      BY <2>1, <2>2
  <1> QED
    BY <1>10 DEF x

\* Inserting what is no VarPlace of the database.
LEMMA OtherInsertedAt ==
    ASSUME NEW s \in StateType, Tidy(s), NEW p \in AnyPlace, p.kind = "city" => p \in DataRow,
           ~(p \in DataRow /\ p.kind \in VarPlaceKind), NEW z \in DataRow
    PROVE  /\ VarPlacesAt(DoInsert(s, p).places, z) = VarPlacesAt(s.places, z)
           /\ \A F : GridUpTo(s, z, F) => GridUpTo(DoInsert(s, p), z, F)
  <1> DEFINE t == DoInsert(s, p)
  <1>1. /\ t.cells = s.cells /\ t.where = s.where
        /\ VarPlacesAt(t.places, z) = VarPlacesAt(s.places, z)
    BY InsertedAt
  <1> HIDE DEF t
  <1>2. PosAt(t.places, z) = PosAt(s.places, z)
    BY <1>1 DEF PosAt
  <1>3. \A F : GridUpTo(s, z, F) => GridUpTo(t, z, F)
    BY <1>1, <1>2, GridAlone
  <1> QED
    BY <1>1, <1>3 DEF t

LEMMA CityReadAt ==
    ASSUME NEW s \in TidyState, NEW r \in DataRow, r.kind = "city", NEW z \in DataRow
    PROVE  ReadAt(s, r, z, ReadCity(s, r))
  <1> DEFINE t == DelLYPlace(s, r.id, r.pt)
             x == ReadCity(s, r)
             y == DoInsert(t, r)
  <1>0. s \in StateType /\ Tidy(s) /\ r.kind \notin VarPlaceKind /\ r \in AnyPlace
    BY DEF TidyState, VarPlaceKind, VarKind, AnyPlace
  <1>1. t \in StateType /\ Tidy(t)
    BY <1>0, Deleted
  <1>2. x \in {s, y}
    BY DEF ReadCity
  <1>3. /\ VarPlacesAt(t.places, z) = VarPlacesAt(s.places, z)
        /\ \A F : GridUpTo(s, z, F) => GridUpTo(t, z, F)
    BY <1>0, DeletedAt
  <1> HIDE DEF t
  <1>4. /\ VarPlacesAt(y.places, z) = VarPlacesAt(t.places, z)
        /\ \A F : GridUpTo(t, z, F) => GridUpTo(y, z, F)
    BY <1>0, <1>1, OtherInsertedAt
  <1> HIDE DEF x, y
  <1>5. ReadAt(s, r, z, x)
    BY <1>0, <1>2, <1>3, <1>4 DEF ReadAt
  <1> QED
    BY <1>5 DEF x

LEMMA TourReadAt ==
    ASSUME NEW s \in TidyState, NEW r \in DataRow, r.kind \in TourKind, NEW pri \in Seen, NEW z \in DataRow
    PROVE  ReadAt(s, r, z, ReadTour(s, pri, r))
  <1> DEFINE t == DelLYPlace(s, r.id, r.pt)
             local == Made("view", gatherId(r.id), None, None)
             u == DoInsert(t, local)
             N == Named(t, pri, r)
             v0 == IF r.gather THEN u ELSE t
             v == Take(v0, r, N)
             x == ReadTour(s, pri, r)
             y == DoInsert(v, r)
  <1>0. /\ s \in StateType /\ Tidy(s) /\ r.kind \notin VarPlaceKind /\ r.kind # "city"
        /\ r \in AnyPlace
    BY DEF TidyState, VarPlaceKind, VarKind, TourKind, AnyPlace
  <1>1. t \in StateType /\ Tidy(t)
    BY <1>0, Deleted
  <1>2. x \in {t, y}
    BY DEF ReadTour
  <1>3. /\ VarPlacesAt(t.places, z) = VarPlacesAt(s.places, z)
        /\ \A F : GridUpTo(s, z, F) => GridUpTo(t, z, F)
    BY <1>0, DeletedAt
  <1> HIDE DEF t
  <1>11. \A p \in N : p.cell \in TakenValue
    BY <1>1, NamedCells
  <1> HIDE DEF N
  <1>4. local \in Locals /\ local \in AnyPlace /\ local.kind = "view" /\ Fresh(t, local)
    BY <1>1, LocalFresh
  <1>5. local \notin DataRow
    BY <1>4, RowName, MadeIds
  <1> HIDE DEF local
  <1>6. u \in StateType /\ Tidy(u)
    BY <1>1, <1>4, Inserted
  <1>7. /\ VarPlacesAt(u.places, z) = VarPlacesAt(t.places, z)
        /\ \A F : GridUpTo(t, z, F) => GridUpTo(u, z, F)
    BY <1>1, <1>4, <1>5, OtherInsertedAt
  <1> HIDE DEF u
  <1>8. /\ v \in StateType /\ Tidy(v) /\ VarPlacesAt(v.places, z) = VarPlacesAt(t.places, z)
        /\ \A F : GridUpTo(t, z, F) => GridUpTo(v, z, F)
    <2>1. /\ v0 \in StateType /\ Tidy(v0) /\ VarPlacesAt(v0.places, z) = VarPlacesAt(t.places, z)
          /\ \A F : GridUpTo(t, z, F) => GridUpTo(v0, z, F)
      BY <1>1, <1>6, <1>7
    <2> HIDE DEF v0
    <2>2. /\ v \in StateType /\ v.places = v0.places /\ v.index = v0.index
          /\ v.cells = v0.cells /\ v.where = v0.where
      BY <1>11, <2>1, TakeIs
    <2> HIDE DEF v
    <2>3. Tidy(v) /\ \A F : GridUpTo(v0, z, F) => GridUpTo(v, z, F)
      BY <2>1, <2>2, SameParts, GridAlone
    <2> QED
      BY <2>1, <2>2, <2>3
  <1> HIDE DEF v
  <1>9. /\ VarPlacesAt(y.places, z) = VarPlacesAt(v.places, z)
        /\ \A F : GridUpTo(v, z, F) => GridUpTo(y, z, F)
    BY <1>0, <1>8, OtherInsertedAt
  <1> HIDE DEF x, y
  <1>10. ReadAt(s, r, z, x)
    BY <1>0, <1>2, <1>3, <1>8, <1>9 DEF ReadAt
  <1> QED
    BY <1>10 DEF x

LEMMA FunReadAt ==
    ASSUME NEW s \in TidyState, NEW r \in DataRow, r.kind = "fun", NEW z \in DataRow
    PROVE  ReadAt(s, r, z, ReadFun(s, r))
  <1> DEFINE P == (s.places \ At(s, "fun", r.id)) \union (IF r.on THEN {r} ELSE {})
             x == ReadFun(s, r)
  <1>0. s \in StateType /\ r.kind \notin VarPlaceKind
    BY DEF TidyState, VarPlaceKind, VarKind
  <1>1. x.places = P /\ x.cells = s.cells /\ x.where = s.where
    BY <1>0 DEF ReadFun, StateType
  <1>2. ASSUME NEW q, q.kind \in VarPlaceKind PROVE q \in P <=> q \in s.places
    <2>1. MapOf(q) # "fun"
      BY <1>2 DEF MapOf, VarPlaceKind, VarKind, TourKind
    <2>2. q \notin At(s, "fun", r.id)
      BY <2>1, AtIs
    <2>3. q # r
      BY <1>0, <1>2
    <2> QED
      BY <2>2, <2>3
  <1> HIDE DEF P, x
  <1>3. VarPlacesAt(x.places, z) = VarPlacesAt(s.places, z)
    BY <1>1, <1>2 DEF VarPlacesAt
  <1>4. PosAt(x.places, z) = PosAt(s.places, z)
    BY <1>3 DEF PosAt
  <1>5. \A F : GridUpTo(s, z, F) => GridUpTo(x, z, F)
    BY <1>1, <1>4, GridAlone
  <1>6. ReadAt(s, r, z, x)
    BY <1>0, <1>3, <1>5 DEF ReadAt
  <1> QED
    BY <1>6 DEF x

LEMMA RowReadAt ==
    ASSUME NEW s \in TidyState, NEW r \in DataRow, NEW pri \in Seen, NEW z \in DataRow
    PROVE  ReadAt(s, r, z, ReadRow(s, pri, r))
  <1>1. r.kind \in VarKind \union TourKind \union {"city", "hotel", "fun"}
    BY RowAssumption DEF Kind
  <1>2. CASE r.kind \in VarKind
    <2> DEFINE x == ReadVarPlace(s, r)
    <2>1. ReadRow(s, pri, r) = x
      BY <1>2 DEF ReadRow, VarKind, TourKind
    <2>2. /\ SameKey(r, z) => VarPlacesAt(x.places, z) = IF Lands(r) THEN {r} ELSE {}
          /\ ~SameKey(r, z) => VarPlacesAt(x.places, z) = VarPlacesAt(s.places, z)
          /\ \A F : GridUpTo(s, z, F) => GridUpTo(x, z, F)
      BY <1>2, VarPlaceReadAt
    <2>3. r.kind \in VarPlaceKind
      BY <1>2 DEF VarPlaceKind
    <2> HIDE DEF x
    <2> QED
      BY <2>1, <2>2, <2>3 DEF ReadAt
  <1>3. CASE r.kind \in TourKind
    <2>1. ReadRow(s, pri, r) = ReadTour(s, pri, r)
      BY <1>3 DEF ReadRow, VarKind, TourKind
    <2> QED
      BY <1>3, <2>1, TourReadAt
  <1>4. CASE r.kind = "hotel"
    <2>1. ReadRow(s, pri, r) = ReadHotel(s, pri, r)
      BY <1>4 DEF ReadRow, VarKind, TourKind
    <2> QED
      BY <1>4, <2>1, HotelReadAt
  <1>5. CASE r.kind = "city"
    <2>1. ReadRow(s, pri, r) = ReadCity(s, r)
      BY <1>5 DEF ReadRow, VarKind, TourKind
    <2> QED
      BY <1>5, <2>1, CityReadAt
  <1>6. CASE r.kind = "fun"
    <2>1. ReadRow(s, pri, r) = ReadFun(s, r)
      BY <1>6 DEF ReadRow, VarKind, TourKind
    <2> QED
      BY <1>6, <2>1, FunReadAt
  <1> QED
    BY <1>1, <1>2, <1>3, <1>4, <1>5, <1>6

-----------------------------------------------------------------------------
(* Many rows, at a key. *)

AtKey(r, z) == r.kind \in VarPlaceKind /\ SameKey(r, z)

\* The last of the rows that is at the key decides what is there.
RowsReadAt(s, rows, z, x) ==
    /\ \A F : GridUpTo(s, z, F) => GridUpTo(x, z, F)
    /\ (\A k \in 1..Len(rows) : ~AtKey(rows[k], z)) =>
           VarPlacesAt(x.places, z) = VarPlacesAt(s.places, z)
    /\ \A j \in 1..Len(rows) :
           AtKey(rows[j], z) /\ (\A k \in (j + 1)..Len(rows) : ~AtKey(rows[k], z)) =>
               VarPlacesAt(x.places, z) = IF Lands(rows[j]) THEN {rows[j]} ELSE {}

LEMMA RowsAt ==
    ASSUME NEW s \in TidyState, NEW rows \in Seq(DataRow), NEW pri \in Seen, NEW z \in DataRow
    PROVE  RowsReadAt(s, rows, z, ReadRows(s, pri, rows))
  <1> DEFINE n == Len(rows)
             item(k) == rows[k]
             x == ReadRows(s, pri, rows)
  <1>1. PICK A : RowByRow(s, pri, rows, A) /\ x = A[n]
    BY RowsSteps
  <1>2. n \in Nat /\ \A k \in 1..n : item(k) \in DataRow
    OBVIOUS
  <1>3. /\ A[0] = s /\ \A k \in 1..n : A[k] = ReadRow(A[k - 1], pri, item(k))
        /\ \A k \in 0..n : A[k] \in TidyState
    BY <1>1 DEF RowByRow
  <1> HIDE DEF n, item, x
  <1>4. ASSUME NEW k \in 1..n PROVE ReadAt(A[k - 1], item(k), z, A[k])
    <2>1. k - 1 \in 0..n
      BY <1>2
    <2> QED
      BY <1>2, <1>3, <2>1, RowReadAt
  <1>5. ASSUME NEW F, GridUpTo(s, z, F) PROVE GridUpTo(x, z, F)
    <2> DEFINE I == {k \in 0..n : GridUpTo(A[k], z, F)}
    <2>1. 0 \in I
      BY <1>2, <1>3, <1>5
    <2>2. ASSUME NEW k \in 0..n, k # 0, k - 1 \in I PROVE k \in I
      <3>1. k \in 1..n
        BY <1>2, <2>2
      <3>2. ReadAt(A[k - 1], item(k), z, A[k])
        BY <1>4, <3>1
      <3>3. GridUpTo(A[k - 1], z, F)
        BY <2>2
      <3> QED
        BY <3>2, <3>3 DEF ReadAt
    <2> HIDE DEF I
    <2>3. \A k \in 0..n : k \in I
      BY <1>2, <2>1, <2>2, Upwards
    <2>4. n \in I
      BY <1>2, <2>3
    <2> QED
      BY <1>1, <2>4 DEF I, n
  <1>6. ASSUME NEW j \in 0..n, \A k \in (j + 1)..n : ~AtKey(item(k), z)
        PROVE  VarPlacesAt(x.places, z) = VarPlacesAt(A[j].places, z)
    <2> DEFINE I == {k \in j..n : VarPlacesAt(A[k].places, z) = VarPlacesAt(A[j].places, z)}
    <2>1. j \in I /\ j \in Nat
      BY <1>2
    <2>2. ASSUME NEW k \in j..n, k # j, k - 1 \in I PROVE k \in I
      <3>1. k \in 1..n /\ k \in (j + 1)..n
        BY <1>2, <2>2
      <3>2. ReadAt(A[k - 1], item(k), z, A[k]) /\ ~AtKey(item(k), z)
        BY <1>4, <1>6, <3>1
      <3>3. VarPlacesAt(A[k].places, z) = VarPlacesAt(A[k - 1].places, z)
        BY <3>2 DEF ReadAt, AtKey
      <3> QED
        BY <2>2, <3>3
    <2> HIDE DEF I
    <2>3. \A k \in j..n : k \in I
      BY <1>2, <2>1, <2>2, Upwards
    <2>4. n \in I
      BY <1>2, <2>3
    <2> QED
      BY <1>1, <2>4 DEF I, n
  <1>7. ASSUME \A k \in 1..n : ~AtKey(item(k), z)
        PROVE  VarPlacesAt(x.places, z) = VarPlacesAt(s.places, z)
    <2>1. 0 \in 0..n /\ \A k \in (0 + 1)..n : k \in 1..n
      BY <1>2
    <2> QED
      BY <1>3, <1>6, <1>7, <2>1
  <1>8. ASSUME NEW j \in 1..n, AtKey(item(j), z), \A k \in (j + 1)..n : ~AtKey(item(k), z)
        PROVE  VarPlacesAt(x.places, z) = IF Lands(item(j)) THEN {item(j)} ELSE {}
    <2>1. VarPlacesAt(A[j].places, z) = IF Lands(item(j)) THEN {item(j)} ELSE {}
      BY <1>4, <1>8 DEF ReadAt, AtKey
    <2> QED
      BY <1>6, <1>8, <2>1
  <1> QED
    BY <1>5, <1>7, <1>8 DEF n, item, x, RowsReadAt

\* The table that a row is read from, as PrivateLoad counts them.
Rank(r) ==
    CASE r.kind = "city" -> 1 [] r.kind = "hotel" -> 2 [] r.kind = "view" -> 3
      [] r.kind = "restaurant" -> 4 [] r.kind = "shop" -> 5 [] r.kind \in TourKind -> 6
      [] r.kind = "fun" -> 7

LEMMA RankIs ==
    /\ \A r \in DataRow : Rank(r) \in 1..7 /\ \A k \in 1..7 : r.kind \in LoadOrder[k] <=> Rank(r) = k
    /\ \A q, r \in DataRow : q.kind \in VarPlaceKind /\ r.kind \in VarPlaceKind /\ Rank(q) = Rank(r) =>
          q.kind = r.kind
  <1>1. ASSUME NEW r \in DataRow
        PROVE  Rank(r) \in 1..7 /\ \A k \in 1..7 : r.kind \in LoadOrder[k] <=> Rank(r) = k
    <2>1. r.kind \in {"city", "hotel", "view", "restaurant", "shop", "ticket", "tour", "fun"}
      BY RowAssumption DEF Kind, VarKind, TourKind
    <2>2. /\ LoadOrder[1] = {"city"} /\ LoadOrder[2] = {"hotel"} /\ LoadOrder[3] = {"view"}
          /\ LoadOrder[4] = {"restaurant"} /\ LoadOrder[5] = {"shop"}
          /\ LoadOrder[6] = {"ticket", "tour"} /\ LoadOrder[7] = {"fun"}
      BY DEF LoadOrder, TourKind
    <2>3. \A k \in 1..7 : k = 1 \/ k = 2 \/ k = 3 \/ k = 4 \/ k = 5 \/ k = 6 \/ k = 7
      OBVIOUS
    <2> QED
      BY <2>1, <2>2, <2>3 DEF Rank, TourKind
  <1>2. ASSUME NEW q \in DataRow, NEW r \in DataRow, q.kind \in VarPlaceKind,
               r.kind \in VarPlaceKind, Rank(q) = Rank(r)
        PROVE  q.kind = r.kind
    BY <1>2 DEF Rank, VarPlaceKind, VarKind, TourKind
  <1> QED
    BY <1>1, <1>2

\* What a load has before the tables after the first m: all their rows, one
\* table after the other.
ByTable(seq) == \A j, k \in DOMAIN seq : j < k => Rank(seq[j]) <= Rank(seq[k])

Stage(seq, D, m) ==
    /\ seq \in Seq(DataRow)
    /\ ByTable(seq)
    /\ ToSet(seq) = {r \in D : Rank(r) <= m}

LEMMA NextTable ==
    ASSUME NEW D \in SUBSET DataRow, NEW m \in 0..6, NEW s, Stage(s, D, m),
           NEW t, t = SetToSeq(OfKind(D, LoadOrder[m + 1]))
    PROVE  Stage(s \o t, D, m + 1)
  <1> DEFINE some == OfKind(D, LoadOrder[m + 1])
             u == s \o t
             n == Len(s)
             h == Len(t)
  <1>0. m + 1 \in 1..7
    OBVIOUS
  <1>1. some = {r \in D : Rank(r) = m + 1}
    BY <1>0, RankIs DEF OfKind
  <1>2. some \in SUBSET DataRow
    BY DEF OfKind
  <1> HIDE DEF some
  <1>3. t \in Seq(some) /\ ToSet(t) = some
    BY <1>2, FinitePlaces, Enumerated DEF some
  <1>4. s \in Seq(DataRow) /\ t \in Seq(DataRow)
    BY <1>2, <1>3 DEF Stage
  <1>5. u \in Seq(DataRow) /\ ToSet(u) = ToSet(s) \union ToSet(t)
    BY <1>4, ToSetJoined
  <1>6. ToSet(u) = {r \in D : Rank(r) <= m + 1}
    <2>1. \A r \in D : Rank(r) \in Int
      BY RankIs
    <2>2. \A r \in D : Rank(r) <= m + 1 <=> Rank(r) <= m \/ Rank(r) = m + 1
      BY <2>1
    <2> QED
      BY <1>1, <1>3, <1>5, <2>2 DEF Stage
  <1>7. /\ n \in Nat /\ h \in Nat /\ DOMAIN s = 1..n /\ DOMAIN t = 1..h /\ DOMAIN u = 1..(n + h)
        /\ \A k \in 1..(n + h) : u[k] = IF k <= n THEN s[k] ELSE t[k - n]
    BY <1>4, ConcatProperties
  <1> HIDE DEF u, n, h
  <1>8. /\ \A k \in 1..n : u[k] \in D /\ Rank(u[k]) <= m
        /\ \A k \in (n + 1)..(n + h) : u[k] \in D /\ Rank(u[k]) = m + 1
    <2>1. ASSUME NEW k \in 1..n PROVE u[k] \in D /\ Rank(u[k]) <= m
      <3>1. u[k] = s[k] /\ s[k] \in ToSet(s)
        BY <1>7 DEF ToSet
      <3> QED
        BY <3>1 DEF Stage
    <2>2. ASSUME NEW k \in (n + 1)..(n + h) PROVE u[k] \in D /\ Rank(u[k]) = m + 1
      <3>1. k \in 1..(n + h) /\ ~(k <= n) /\ k - n \in 1..h
        BY <1>7
      <3>2. u[k] = t[k - n] /\ t[k - n] \in ToSet(t)
        BY <1>7, <3>1 DEF ToSet
      <3> QED
        BY <1>1, <1>3, <3>2
    <2> QED
      BY <2>1, <2>2
  <1>9. ASSUME NEW j \in DOMAIN u, NEW k \in DOMAIN u, j < k PROVE Rank(u[j]) <= Rank(u[k])
    <2>1. j \in 1..n \/ j \in (n + 1)..(n + h)
      BY <1>7
    <2>2. k \in 1..n \/ k \in (n + 1)..(n + h)
      BY <1>7
    <2>3. CASE j \in 1..n /\ k \in 1..n
      <3>1. u[j] = s[j] /\ u[k] = s[k] /\ j \in DOMAIN s /\ k \in DOMAIN s
        BY <1>7, <2>3
      <3> QED
        BY <1>9, <3>1 DEF Stage, ByTable
    <2>4. CASE k \in (n + 1)..(n + h)
      <3>1. Rank(u[j]) <= m \/ Rank(u[j]) = m + 1
        BY <1>8, <2>1
      <3>2. Rank(u[k]) = m + 1 /\ u[j] \in DataRow
        BY <1>8, <2>1, <2>4
      <3> QED
        BY <3>1, <3>2, RankIs
    <2>5. ~(j \in (n + 1)..(n + h) /\ k \in 1..n)
      BY <1>7, <1>9
    <2> QED
      BY <2>1, <2>2, <2>3, <2>4, <2>5
  <1>10. Stage(u, D, m + 1)
    BY <1>5, <1>6, <1>9 DEF Stage, ByTable
  <1> QED
    BY <1>10 DEF u

\* The rows at a key that a load reads last, if they are not skipped.
TopOf(D, z) ==
    {r \in VarPlacesAt(D, z) : Lands(r) /\ \A q \in VarPlacesAt(D, z) : Rank(q) <= Rank(r)}

UniqueRows(D) == \A q, r \in D : SameRow(q, r) => q = r

\* Of the rows at a key, the one of the last table wins.
LEMMA LastWins ==
    ASSUME NEW s \in TidyState, s.places = {},
           NEW D \in SUBSET DataRow, UniqueRows(D), NEW rows, Stage(rows, D, 7),
           NEW pri \in Seen, NEW z \in DataRow, NEW x, x = ReadRows(s, pri, rows)
    PROVE  VarPlacesAt(x.places, z) = TopOf(D, z)
  <1> DEFINE n == Len(rows)
             H == {k \in 1..n : AtKey(rows[k], z)}
  <1>1. rows \in Seq(DataRow) /\ n \in Nat /\ DOMAIN rows = 1..n
    BY DEF Stage
  <1>2. ToSet(rows) = D
    <2>1. \A r \in D : Rank(r) <= 7
      BY RankIs
    <2> QED
      BY <2>1 DEF Stage
  <1>3. \A r \in VarPlacesAt(D, z) : \E k \in H : rows[k] = r
    <2> SUFFICES ASSUME NEW r \in VarPlacesAt(D, z) PROVE \E k \in H : rows[k] = r
      OBVIOUS
    <2>1. r \in ToSet(rows) /\ AtKey(r, z)
      BY <1>2 DEF VarPlacesAt, AtKey
    <2>2. PICK k \in 1..n : rows[k] = r
      BY <1>1, <2>1 DEF ToSet
    <2> QED
      BY <2>1, <2>2
  <1>4. \A k \in H : rows[k] \in VarPlacesAt(D, z)
    <2> SUFFICES ASSUME NEW k \in H PROVE rows[k] \in VarPlacesAt(D, z)
      OBVIOUS
    <2>1. rows[k] \in ToSet(rows)
      BY <1>1 DEF ToSet
    <2> QED
      BY <1>2, <2>1 DEF VarPlacesAt, AtKey
  <1>7. RowsReadAt(s, rows, z, x)
    BY <1>1, RowsAt
  <1>5. CASE H = {}
    <2>1. VarPlacesAt(D, z) = {}
      <3> HIDE DEF H
      <3> QED
        BY <1>3, <1>5
    <2>2. \A k \in 1..Len(rows) : ~AtKey(rows[k], z)
      BY <1>5
    <2> HIDE DEF H
    <2> HIDE DEF n
    <2>3. VarPlacesAt(x.places, z) = VarPlacesAt(s.places, z)
      BY <1>7, <2>2 DEF RowsReadAt
    <2>4. VarPlacesAt(s.places, z) = {} /\ TopOf(D, z) = {}
      BY <2>1 DEF TopOf, VarPlacesAt
    <2> QED
      BY <2>3, <2>4
  <1>6. CASE H # {}
    <2>3. PICK j \in H : \A k \in H : k <= j
      <3>1. H \in SUBSET (1..n)
        OBVIOUS
      <3> HIDE DEF H
      <3> QED
        BY <1>1, <1>6, <3>1, GreatestNumber
    <2>4. j \in 1..n /\ AtKey(rows[j], z) /\ \A k \in H : k <= j
      BY <2>3
    <2>5. \A k \in (j + 1)..n : ~AtKey(rows[k], z)
      BY <1>1, <2>4
    <2> HIDE DEF H
    <2>6. VarPlacesAt(x.places, z) = IF Lands(rows[j]) THEN {rows[j]} ELSE {}
      BY <1>1, <1>7, <2>4, <2>5 DEF RowsReadAt
    <2>7. rows[j] \in VarPlacesAt(D, z)
      BY <1>4, <2>3
    <2>8. \A q \in VarPlacesAt(D, z) : Rank(q) <= Rank(rows[j])
      <3> SUFFICES ASSUME NEW q \in VarPlacesAt(D, z) PROVE Rank(q) <= Rank(rows[j])
        OBVIOUS
      <3>1. PICK k \in H : rows[k] = q
        BY <1>3
      <3>2. k \in 1..n /\ k <= j
        BY <2>4, <3>1 DEF H
      <3>3. Rank(rows[j]) \in Int
        BY <1>1, <2>4, RankIs
      <3>4. CASE k = j
        BY <3>1, <3>3, <3>4
      <3>5. CASE k < j
        BY <1>1, <2>4, <3>1, <3>2, <3>5 DEF Stage, ByTable
      <3> QED
        BY <1>1, <2>4, <3>2, <3>4, <3>5
    <2>9. \A r \in VarPlacesAt(D, z) :
              (\A q \in VarPlacesAt(D, z) : Rank(q) <= Rank(r)) => r = rows[j]
      <3> SUFFICES ASSUME NEW r \in VarPlacesAt(D, z),
                          \A q \in VarPlacesAt(D, z) : Rank(q) <= Rank(r)
                   PROVE  r = rows[j]
        OBVIOUS
      <3> DEFINE w == rows[j]
      <3>1. w \in VarPlacesAt(D, z)
        BY <2>7
      <3>2. Rank(r) <= Rank(w) /\ Rank(w) <= Rank(r)
        BY <2>8, <3>1
      <3> HIDE DEF w
      <3>3. /\ r \in DataRow /\ w \in DataRow /\ r \in D /\ w \in D
            /\ r.kind \in VarPlaceKind /\ w.kind \in VarPlaceKind
            /\ SameKey(r, z) /\ SameKey(w, z)
        BY <3>1 DEF VarPlacesAt
      <3>4. Rank(r) = Rank(w)
        BY <3>2, <3>3, RankIs
      <3>5. r.kind = w.kind
        BY <3>3, <3>4, RankIs
      <3>6. SameRow(r, w)
        BY <3>3, <3>5 DEF SameRow, SameKey
      <3> QED
        BY <3>3, <3>6 DEF UniqueRows, w
    <2>10. TopOf(D, z) = IF Lands(rows[j]) THEN {rows[j]} ELSE {}
      <3> DEFINE w == rows[j]
                 V == VarPlacesAt(D, z)
      <3>1. w \in V /\ (\A q \in V : Rank(q) <= Rank(w))
            /\ \A r \in V : (\A q \in V : Rank(q) <= Rank(r)) => r = w
        BY <2>7, <2>8, <2>9
      <3>2. TopOf(D, z) = {r \in V : Lands(r) /\ \A q \in V : Rank(q) <= Rank(r)}
        BY DEF TopOf
      <3> HIDE DEF w, V
      <3>3. TopOf(D, z) = IF Lands(w) THEN {w} ELSE {}
        BY <3>1, <3>2
      <3> QED
        BY <3>3 DEF w
    <2> QED
      BY <2>6, <2>10
  <1> QED
    BY <1>5, <1>6

\* The rows in the order of their tables.
LEMMA LoadOf ==
    ASSUME NEW D \in SUBSET DataRow, NEW pri, NEW C, NEW W
    PROVE  \E rows : /\ Stage(rows, D, 7) /\ ToSet(rows) = D
                     /\ PrivateLoad(D, pri, <<C, W>>) = ReadRows(With(Empty, <<C, W>>), pri, rows)
  <1> DEFINE of(k) == SetToSeq(OfKind(D, LoadOrder[k]))
             seq == of(1) \o of(2) \o of(3) \o of(4) \o of(5) \o of(6) \o of(7)
  <1>1. \A m \in 0..6 : \A t : Stage(t, D, m) => Stage(t \o of(m + 1), D, m + 1)
    BY NextTable
  <1>2. PrivateLoad(D, pri, <<C, W>>) = ReadRows(With(Empty, <<C, W>>), pri, seq)
    BY DEF PrivateLoad
  <1> HIDE DEF of
  <1>3. Stage(<<>>, D, 0)
    <2>1. \A r \in D : ~(Rank(r) <= 0)
      BY RankIs
    <2> QED
      BY <2>1 DEF Stage, ByTable, ToSet
  <1>4. Stage(seq, D, 7)
    <2>1. Stage(<<>> \o of(1), D, 1)
      <3>1. 0 \in 0..6 /\ 0 + 1 = 1
        OBVIOUS
      <3> QED
        BY <1>1, <1>3, <3>1
    <2>2. of(1) \in Seq(DataRow)
      <3> DEFINE some == OfKind(D, LoadOrder[1])
      <3>1. some \in SUBSET DataRow
        BY DEF OfKind
      <3> HIDE DEF some
      <3>2. SetToSeq(some) \in Seq(DataRow)
        <4>1. SetToSeq(some) \in Seq(some)
          BY <3>1, FinitePlaces, Enumerated
        <4> QED
          BY <3>1, <4>1
      <3> QED
        BY <3>2 DEF of, some
    <2>3. <<>> \o of(1) = of(1)
      BY <2>2
    <2>4. Stage(of(1), D, 1)
      BY <2>1, <2>3
    <2>5. 1 \in 0..6 /\ 2 \in 0..6 /\ 3 \in 0..6 /\ 4 \in 0..6 /\ 5 \in 0..6 /\ 6 \in 0..6
          /\ 1 + 1 = 2 /\ 2 + 1 = 3 /\ 3 + 1 = 4 /\ 4 + 1 = 5 /\ 5 + 1 = 6 /\ 6 + 1 = 7
      OBVIOUS
    <2>6. Stage(of(1) \o of(2), D, 2)
      BY <1>1, <2>4, <2>5
    <2>7. Stage(of(1) \o of(2) \o of(3), D, 3)
      BY <1>1, <2>5, <2>6
    <2>8. Stage(of(1) \o of(2) \o of(3) \o of(4), D, 4)
      BY <1>1, <2>5, <2>7
    <2>9. Stage(of(1) \o of(2) \o of(3) \o of(4) \o of(5), D, 5)
      BY <1>1, <2>5, <2>8
    <2>10. Stage(of(1) \o of(2) \o of(3) \o of(4) \o of(5) \o of(6), D, 6)
      BY <1>1, <2>5, <2>9
    <2> QED
      BY <1>1, <2>5, <2>10
  <1> HIDE DEF seq
  <1>5. ToSet(seq) = D
    <2>1. \A r \in D : Rank(r) <= 7
      BY RankIs
    <2> QED
      BY <1>4, <2>1 DEF Stage
  <1> QED
    BY <1>2, <1>4, <1>5

\* What a load makes of a key.
LEMMA LoadAt ==
    ASSUME NEW D \in SUBSET DataRow, UniqueRows(D), NEW pri \in Seen,
           NEW C \in SUBSET Spot, NEW W \in SUBSET GridKey, NEW z \in DataRow,
           NEW x, x = PrivateLoad(D, pri, <<C, W>>)
    PROVE  /\ VarPlacesAt(x.places, z) = TopOf(D, z)
           /\ \A F : CellsAt(C, z) \subseteq F /\ WhereAt(W, z) \subseteq F => GridUpTo(x, z, F)
  <1> DEFINE s == With(Empty, <<C, W>>)
  <1>1. PICK rows : Stage(rows, D, 7) /\ x = ReadRows(s, pri, rows)
    BY LoadOf
  <1>2. /\ s \in TidyState /\ s.places = {} /\ s.cells = C /\ s.where = W
    BY EmptyTidy DEF With, Empty
  <1> HIDE DEF s
  <1>3. VarPlacesAt(x.places, z) = TopOf(D, z)
    BY <1>1, <1>2, LastWins
  <1>4. ASSUME NEW F, CellsAt(C, z) \subseteq F, WhereAt(W, z) \subseteq F PROVE GridUpTo(x, z, F)
    <2>1. PosAt(s.places, z) = {}
      BY <1>2 DEF PosAt, VarPlacesAt
    <2>2. GridUpTo(s, z, F)
      BY <1>2, <1>4, <2>1 DEF GridUpTo
    <2>3. rows \in Seq(DataRow)
      BY <1>1 DEF Stage
    <2> QED
      BY <1>1, <1>2, <2>2, <2>3, RowsAt DEF RowsReadAt
  <1> QED
    BY <1>3, <1>4

-----------------------------------------------------------------------------
(* A copy, at a key. *)

\* Everything but the core hotels is copied.
LEMMA CopyHasAll ==
    ASSUME NEW o \in TidyObject
    PROVE  /\ CopyData(o).places \subseteq o.places \union Cores
           /\ \A p \in o.places \ Cores : p \in CopyData(o).places
  <1> DEFINE of(k) == SetToSeq(Copied(o, CopyOrder[k]))
             seq == of(1) \o of(2) \o of(3) \o of(4) \o of(5) \o of(6) \o of(7)
             t == CopyAndInsert(Empty, seq)
             u == CopyData(o)
             n == Len(seq)
  <1>0. Tidy(o) /\ o.places \subseteq AnyPlace
    BY DEF TidyObject, Tidy
  <1>1. seq \in Seq(o.places \ Cores) /\ ToSet(seq) = o.places \ Cores
    BY WhatIsCopied
  <1>2. u = [t EXCEPT !.shields = o.shields, !.taken = o.taken]
    BY DEF CopyData
  <1> HIDE DEF of, seq, u
  <1>3. n \in Nat /\ DOMAIN seq = 1..n /\ \A k \in 1..n : seq[k] \in o.places \ Cores
    BY <1>1
  <1>4. Empty \in CopyOf(o)
    BY EmptyTidy DEF CopyOf, Empty
  <1>5. PICK A : PlaceByPlace(o, Empty, seq, A) /\ t = A[n]
    BY <1>1, <1>4, CopySteps
  <1> HIDE DEF t, n
  <1>6. /\ \A k \in 0..n : /\ A[k] \in ObjectType /\ Tidy(A[k])
                           /\ A[k].places \subseteq o.places \union Cores
        /\ \A k \in 1..n : A[k] = DoInsert(A[k - 1], seq[k])
    BY <1>5 DEF PlaceByPlace, CopyOf, TidyObject, n
  <1>7. u.places = t.places /\ t.places \subseteq o.places \union Cores
    <2>1. n \in 0..n
      BY <1>3
    <2>2. t \in ObjectType
      BY <1>5, <1>6, <2>1
    <2> QED
      BY <1>2, <1>5, <1>6, <2>1, <2>2 DEF ObjectType
  <1>8. ASSUME NEW k \in 1..n
        PROVE  /\ \A q \in A[k - 1].places : q \notin Cores => q \in A[k].places
               /\ Inserts(A[k - 1], seq[k]) => seq[k] \in A[k].places
    <2> DEFINE s == A[k - 1]
               p == seq[k]
    <2>1. s \in ObjectType /\ Tidy(s) /\ A[k] = DoInsert(s, p) /\ p \in o.places \ Cores
      <3>1. k - 1 \in 0..n
        BY <1>3
      <3> QED
        BY <1>3, <1>6, <3>1
    <2> HIDE DEF s, p
    <2>2. p \in AnyPlace
      BY <1>0, <2>1
    <2>3. p.kind = "city" => p \in DataRow
      BY <2>1, <2>2, LocalName DEF AnyPlace, Locals
    <2>4. /\ \A q \in s.places : q \notin Cores => q \in A[k].places
          /\ Inserts(s, p) => p \in A[k].places
      <3>1. PICK z \in DataRow : TRUE
        BY <2>2 DEF AnyPlace, Cores, Locals
      <3> QED
        BY <2>1, <2>2, <2>3, InsertedAt
    <2> QED
      BY <2>4 DEF s, p
  <1>9. ASSUME NEW p \in o.places \ Cores PROVE p \in t.places
    <2>1. PICK j \in 1..n : p = seq[j]
      BY <1>1, <1>3, <1>9 DEF ToSet
    <2>2. p \in A[j].places
      <3>1. j - 1 \in 0..n
        BY <1>3
      <3>2. CASE Inserts(A[j - 1], p)
        BY <1>8, <2>1, <3>2
      <3>3. CASE ~Inserts(A[j - 1], p)
        <4>1. PICK q \in A[j - 1].places : MapOf(q) = MapOf(p) /\ getUniqId(q) = getUniqId(p)
          BY <3>3, AtIs DEF Inserts
        <4>2. q \in o.places \union Cores
          BY <1>6, <3>1, <4>1
        <4>3. q \notin Cores
          <5> SUFFICES ASSUME q \in Cores PROVE FALSE
            OBVIOUS
          <5>1. PICK r \in DataRow : q = Made("hotel", coreId(r.id), r.pt, r.cell)
            BY DEF Cores
          <5>2. getUniqId(p) = coreId(r.id)
            <6>1. q.id = coreId(r.id)
              BY <5>1 DEF Made
            <6> QED
              BY <4>1, <5>1, <6>1, CoreName
          <5> QED
            BY <1>0, <1>9, <5>2, CoreKey
        <4>4. q = p
          BY <1>0, <1>9, <4>1, <4>2, <4>3 DEF Tidy
        <4> QED
          BY <1>8, <1>9, <2>1, <4>1, <4>4
      <3> QED
        BY <3>2, <3>3
    <2> DEFINE I == {k \in j..n : p \in A[k].places}
    <2>3. j \in I /\ j \in Nat
      BY <1>3, <2>1, <2>2
    <2>4. ASSUME NEW k \in j..n, k # j, k - 1 \in I PROVE k \in I
      <3>1. k \in 1..n /\ p \in A[k - 1].places
        BY <1>3, <2>1, <2>4
      <3> QED
        BY <1>8, <1>9, <3>1
    <2> HIDE DEF I
    <2>5. \A k \in j..n : k \in I
      BY <1>3, <2>3, <2>4, Upwards
    <2>6. n \in I
      BY <1>3, <2>1, <2>5
    <2> QED
      BY <1>5, <2>6 DEF I
  <1>10. u.places \subseteq o.places \union Cores /\ \A p \in o.places \ Cores : p \in u.places
    BY <1>7, <1>9
  <1> QED
    BY <1>10 DEF u

LEMMA CopyAt ==
    ASSUME NEW o \in TidyObject, NEW z \in DataRow
    PROVE  VarPlacesAt(CopyData(o).places, z) = VarPlacesAt(o.places, z)
  <1> DEFINE u == CopyData(o)
  <1>1. Tidy(o)
    BY DEF TidyObject
  <1>2. u.places \subseteq o.places \union Cores /\ \A p \in o.places \ Cores : p \in u.places
    BY CopyHasAll
  <1> HIDE DEF u
  <1>3. ASSUME NEW p \in VarPlacesAt(o.places, z) PROVE p \in VarPlacesAt(u.places, z)
    <2>1. p \in o.places \ Cores
      BY <1>1, RowsAtKey
    <2> QED
      BY <1>2, <2>1 DEF VarPlacesAt
  <1>4. ASSUME NEW p \in VarPlacesAt(u.places, z) PROVE p \in VarPlacesAt(o.places, z)
    <2>1. p \notin Cores
      <3>1. p.id = z.id /\ z.id = <<z.id[1]>>
        BY RowName DEF VarPlacesAt, SameKey
      <3> QED
        BY <3>1, MadeIds
    <2>2. p \in o.places
      BY <1>2, <2>1 DEF VarPlacesAt
    <2> QED
      BY <2>2 DEF VarPlacesAt
  <1>5. VarPlacesAt(u.places, z) = VarPlacesAt(o.places, z)
    BY <1>3, <1>4
  <1> QED
    BY <1>5 DEF u

-----------------------------------------------------------------------------
(* The grid and the newest object. *)

\* Where a load puts the place of a key.
TopPos(D, z) == PosAt(TopOf(D, z), z)

Still(z) == <<z.id, z.pt>> \notin moved

\* At every key that did not change between the two loads, the grid has the
\* position in the newest object; the second load finds the first one's.
GridInv ==
    /\ UniqueRows(db)
    /\ pc \in {"fixed", "load", "idle", "update"}
    /\ pc = "fixed" => cells = {} /\ where = {}
    /\ pc = "load" => \A z \in DataRow : Still(z) =>
          CellsAt(cells, z) \subseteq TopPos(db, z) /\ WhereAt(where, z) \subseteq TopPos(db, z)
    /\ pc \in {"idle", "update"} => \A z \in DataRow : Still(z) =>
          GridUpTo(With(NewestData, <<cells, where>>), z, {})

LEMMA TopPosIs ==
    ASSUME NEW D, NEW P, NEW z, VarPlacesAt(P, z) = TopOf(D, z)
    PROVE  PosAt(P, z) = TopPos(D, z)
  <1>1. VarPlacesAt(TopOf(D, z), z) = TopOf(D, z)
    BY DEF VarPlacesAt, TopOf
  <1> QED
    BY <1>1 DEF TopPos, PosAt

\* GridUpTo is about the places and the grid alone.
LEMMA SameGrid ==
    ASSUME NEW s, NEW t, NEW z, NEW F, GridUpTo(s, z, F), t.cells = s.cells, t.where = s.where,
           VarPlacesAt(t.places, z) = VarPlacesAt(s.places, z)
    PROVE  GridUpTo(t, z, F)
  BY DEF GridUpTo, PosAt

LEMMA WithParts ==
    ASSUME NEW o, NEW C, NEW W
    PROVE  /\ With(o, <<C, W>>).places = o.places
           /\ With(o, <<C, W>>).cells = C /\ With(o, <<C, W>>).where = W
  BY DEF With

LEMMA GridInvInit == DataInit => GridInv
  BY StartAssumption DEF DataInit, GridInv, UniqueRows, SameRow

\* A row that changes or is deleted between the loads changes nothing at other
\* keys.
LEMMA ChangedRow ==
    ASSUME NEW r \in DataRow, UniqueRows(db), Change(r) \/ Delete(r)
    PROVE  /\ UniqueRows(db')
           /\ \A q : ~SameRow(q, r) => (q \in db' <=> q \in db)
           /\ \A z : ~SameKey(r, z) => TopPos(db', z) = TopPos(db, z)
  <1>1. db' = {q \in db : ~SameRow(q, r)} \union {r} \/ db' = db \ {r}
    BY DEF Change, Delete
  <1>2. UniqueRows(db')
    BY <1>1 DEF UniqueRows, SameRow
  <1>3. \A q : ~SameRow(q, r) => (q \in db' <=> q \in db)
    BY <1>1 DEF SameRow
  <1>4. ASSUME NEW z, ~SameKey(r, z) PROVE TopPos(db', z) = TopPos(db, z)
    <2>1. \A q : SameKey(q, z) => ~SameRow(q, r)
      BY <1>4 DEF SameRow, SameKey
    <2>2. VarPlacesAt(db', z) = VarPlacesAt(db, z)
      BY <1>3, <2>1 DEF VarPlacesAt
    <2>3. TopOf(db', z) = TopOf(db, z)
      BY <2>2 DEF TopOf
    <2> QED
      BY <2>3 DEF TopPos
  <1> QED
    BY <1>2, <1>3, <1>4

LEMMA GridInvStep == DataInv /\ GridInv /\ [DataNext]_privVars => GridInv'
  <1> SUFFICES ASSUME DataInv, GridInv, [DataNext]_privVars PROVE GridInv'
    OBVIOUS
  <1>0. /\ db \in SUBSET DataRow /\ UniqueRows(db)
        /\ fixed \in TidyObject /\ shared \in TidyObject /\ next \in TidyObject
        /\ cells \in SUBSET Spot /\ where \in SUBSET GridKey
        /\ None \in Seen /\ fixed \in Seen
    BY DEF DataInv, GridInv, Seen, TidyObject
  <1>1. ASSUME NEW r \in DataRow, Change(r) \/ Delete(r) PROVE GridInv'
    <2>1. /\ UniqueRows(db') /\ UNCHANGED <<pc, cells, where, shared, next>>
          /\ \A z : ~SameKey(r, z) => TopPos(db', z) = TopPos(db, z)
      BY <1>0, <1>1, ChangedRow DEF Change, Delete, objVars, gridVars
    <2>2. /\ moved \subseteq moved'
          /\ pc = "load" => <<r.id, r.pt>> \in moved'
      BY <1>1 DEF Change, Delete, Noted
    <2>3. \A z : Still(z)' => Still(z)
      BY <2>2 DEF Still
    <2>4. ASSUME pc = "load", NEW z \in DataRow, Still(z)'
          PROVE  CellsAt(cells', z) \subseteq TopPos(db', z) /\ WhereAt(where', z) \subseteq TopPos(db', z)
      <3>1. ~SameKey(r, z)
        BY <2>2, <2>4 DEF Still, SameKey
      <3> QED
        BY <2>1, <2>3, <2>4, <3>1 DEF GridInv
    <2>5. NewestData' = NewestData
      BY <2>1 DEF NewestData
    <2>6. ASSUME pc \in {"idle", "update"}, NEW z \in DataRow, Still(z)'
          PROVE  GridUpTo(With(NewestData', <<cells', where'>>), z, {})
      BY <2>1, <2>3, <2>5, <2>6 DEF GridInv
    <2> QED
      BY <2>1, <2>4, <2>6 DEF GridInv
  <1>2. CASE LoadFixed
    <2> DEFINE x == PrivateLoad(db, None, <<cells, where>>)
    <2>1. /\ cells' = x.cells /\ where' = x.where /\ pc = "fixed" /\ pc' = "load"
          /\ UNCHANGED <<db, moved>>
      BY <1>2 DEF LoadFixed, histVars
    <2>2. ASSUME NEW z \in DataRow
          PROVE  VarPlacesAt(x.places, z) = TopOf(db, z) /\ GridUpTo(x, z, {})
      <3>1. CellsAt(cells, z) \subseteq {} /\ WhereAt(where, z) \subseteq {}
        BY <2>1 DEF GridInv, CellsAt, WhereAt
      <3> QED
        BY <1>0, <3>1, LoadAt
    <2> HIDE DEF x
    <2>3. ASSUME NEW z \in DataRow
          PROVE  CellsAt(cells', z) \subseteq TopPos(db', z) /\ WhereAt(where', z) \subseteq TopPos(db', z)
      <3>1. PosAt(x.places, z) = TopPos(db, z)
        BY <2>2, TopPosIs
      <3>2. CellsAt(x.cells, z) \subseteq PosAt(x.places, z) /\ WhereAt(x.where, z) \subseteq PosAt(x.places, z)
        BY <2>2 DEF GridUpTo
      <3> QED
        BY <2>1, <3>1, <3>2
    <2> QED
      BY <1>0, <2>1, <2>3 DEF GridInv
  <1>3. CASE Load
    <2> DEFINE x == PrivateLoad(db, fixed, <<cells, where>>)
    <2>1. /\ shared' = Object(x) /\ cells' = x.cells /\ where' = x.where
          /\ pc = "load" /\ pc' = "idle" /\ UNCHANGED <<db, moved>>
      BY <1>3 DEF Load, histVars
    <2>2. ASSUME NEW z \in DataRow, Still(z) PROVE GridUpTo(x, z, {})
      <3> DEFINE F == TopPos(db, z)
      <3>1. CellsAt(cells, z) \subseteq F /\ WhereAt(where, z) \subseteq F
        BY <2>1, <2>2 DEF GridInv
      <3> HIDE DEF F
      <3>2. VarPlacesAt(x.places, z) = TopOf(db, z) /\ GridUpTo(x, z, F)
        BY <1>0, <3>1, LoadAt
      <3> HIDE DEF x
      <3>3. PosAt(x.places, z) = F
        BY <3>2, TopPosIs DEF F
      <3> QED
        BY <3>2, <3>3 DEF GridUpTo
    <2> HIDE DEF x
    <2>3. /\ NewestData' = Object(x) /\ Object(x).places = x.places
      BY <2>1 DEF NewestData, Object
    <2>4. ASSUME NEW z \in DataRow, Still(z) PROVE GridUpTo(With(Object(x), <<x.cells, x.where>>), z, {})
      BY <2>2, <2>3, <2>4, WithParts, SameGrid
    <2> QED
      BY <1>0, <2>1, <2>3, <2>4 DEF GridInv, Still
  <1>4. CASE Begin
    <2>1. /\ next' = CopyData(shared) /\ pc = "idle" /\ pc' = "update"
          /\ UNCHANGED <<db, cells, where, moved>>
      BY <1>4 DEF Begin, gridVars, histVars
    <2>2. NewestData = shared /\ NewestData' = CopyData(shared)
      BY <2>1 DEF NewestData
    <2>3. ASSUME NEW z \in DataRow, Still(z)
          PROVE  GridUpTo(With(CopyData(shared), <<cells, where>>), z, {})
      <3>1. GridUpTo(With(shared, <<cells, where>>), z, {})
        BY <2>1, <2>2, <2>3 DEF GridInv
      <3>2. VarPlacesAt(CopyData(shared).places, z) = VarPlacesAt(shared.places, z)
        BY <1>0, CopyAt
      <3> QED
        BY <3>1, <3>2, WithParts, SameGrid
    <2> QED
      BY <1>0, <2>1, <2>2, <2>3 DEF GridInv, Still
  <1>5. CASE ReadTable
    <2>1. PICK rows, seq : /\ rows \in SUBSET db /\ seq \in SetToSeqs(rows)
                          /\ LET s == ReadRows(With(next, <<cells, where>>), fixed, seq) IN
                             next' = Object(s) /\ cells' = s.cells /\ where' = s.where
      BY <1>5 DEF ReadTable, OfKind
    <2>2. seq \in Seq(DataRow)
      <3>1. rows \in SUBSET DataRow
        BY <1>0, <2>1
      <3>2. Cardinality(rows) \in Nat
        BY <3>1, FinitePlaces, FS_CardinalityType
      <3>3. seq \in [1..Cardinality(rows) -> rows]
        BY <2>1 DEF SetToSeqs
      <3> QED
        BY <3>1, <3>2, <3>3, SeqOfFunction
    <2> DEFINE s == With(next, <<cells, where>>)
               x == ReadRows(s, fixed, seq)
    <2>3. s \in TidyState
      BY <1>0, WithTidy
    <2>4. /\ next' = Object(x) /\ cells' = x.cells /\ where' = x.where /\ pc = "update"
          /\ UNCHANGED <<db, moved, pc>>
      BY <1>5, <2>1 DEF ReadTable
    <2>5. NewestData = next /\ NewestData' = Object(x) /\ Object(x).places = x.places
      BY <2>4 DEF NewestData, Object
    <2>6. ASSUME NEW z \in DataRow, Still(z) PROVE GridUpTo(x, z, {})
      <3>1. GridUpTo(s, z, {})
        BY <2>4, <2>5, <2>6 DEF GridInv
      <3> QED
        BY <1>0, <2>2, <2>3, <3>1, RowsAt DEF RowsReadAt
    <2> HIDE DEF x, s
    <2>7. ASSUME NEW z \in DataRow, Still(z) PROVE GridUpTo(With(Object(x), <<x.cells, x.where>>), z, {})
      BY <2>5, <2>6, <2>7, WithParts, SameGrid
    <2> QED
      BY <1>0, <2>4, <2>5, <2>7 DEF GridInv, Still
  <1>6. CASE TableFails
    BY <1>6 DEF TableFails, objVars, gridVars, GridInv, NewestData, Still
  <1>7. CASE PublishData
    <2>1. shared' = next /\ pc = "update" /\ pc' = "idle" /\ UNCHANGED <<db, cells, where, moved>>
      BY <1>7 DEF PublishData, gridVars, histVars
    <2>2. NewestData' = NewestData
      BY <2>1 DEF NewestData
    <2> QED
      BY <2>1, <2>2 DEF GridInv, Still
  <1>8. CASE UNCHANGED privVars
    BY <1>8 DEF privVars, objVars, gridVars, histVars, GridInv, NewestData, Still
  <1> QED
    BY <1>1, <1>2, <1>3, <1>4, <1>5, <1>6, <1>7, <1>8 DEF DataNext

LEMMA GridInvHolds == DataSpec => [](DataInv /\ GridInv)
  <1>1. DataInit => DataInv /\ GridInv
    BY DataInvInit, GridInvInit
  <1>2. DataInv /\ GridInv /\ [DataNext]_privVars => (DataInv /\ GridInv)'
    BY DataInvStep, GridInvStep
  <1> QED
    BY <1>1, <1>2, PTL DEF DataSpec

\* A place with a position is a row.
LEMMA PositionIsRow ==
    ASSUME NEW p \in AnyPlace, p.kind \in VarKind, p.cell # None
    PROVE  p \in DataRow
  BY MadeIds DEF AnyPlace, MapOf, VarKind, TourKind

LEMMA GridIsExact == DataInv /\ GridInv => GridExact
  <1> SUFFICES ASSUME DataInv, GridInv, pc \in {"idle", "update"}
               PROVE  {x \in cells : <<x[2], x[3]>> \notin moved} =
                          {x \in Positions(NewestData) : <<x[2], x[3]>> \notin moved}
    BY DEF GridExact
  <1> DEFINE o == NewestData
  <1>1. o \in TidyObject
    BY DEF DataInv, NewestData
  <1>2. ASSUME NEW z \in DataRow, Still(z) PROVE CellsAt(cells, z) = PosAt(o.places, z)
    <2>1. GridUpTo(With(o, <<cells, where>>), z, {})
      BY <1>2 DEF GridInv
    <2> HIDE DEF o
    <2> QED
      BY <2>1, WithParts DEF GridUpTo
  <1> HIDE DEF o
  <1>3. ASSUME NEW x \in cells, <<x[2], x[3]>> \notin moved PROVE x \in Positions(o)
    <2>1. PICK z \in DataRow : x = <<z.cell, z.id, z.pt>>
      BY DEF DataInv, Spot
    <2>2. Still(z)
      BY <1>3, <2>1 DEF Still
    <2>3. z.cell \in CellsAt(cells, z)
      BY <2>1 DEF CellsAt, Cell
    <2>4. PICK p \in VarPlacesAt(o.places, z) : p.kind \in VarKind /\ p.cell = z.cell /\ z.cell # None
      BY <1>2, <2>2, <2>3 DEF PosAt
    <2>5. x = <<p.cell, p.id, p.pt>> /\ p \in o.places
      BY <2>1, <2>4 DEF VarPlacesAt, SameKey
    <2> QED
      BY <2>4, <2>5 DEF Positions, OfKind
  <1>4. ASSUME NEW x \in Positions(o), <<x[2], x[3]>> \notin moved PROVE x \in cells
    <2>1. PICK p \in o.places : p.kind \in VarKind /\ p.cell # None /\ x = <<p.cell, p.id, p.pt>>
      BY DEF Positions, OfKind
    <2>2. p \in DataRow
      <3>1. p \in AnyPlace
        BY <1>1 DEF TidyObject, Tidy
      <3> QED
        BY <2>1, <3>1, PositionIsRow
    <2>3. Still(p)
      BY <1>4, <2>1 DEF Still
    <2>4. p \in VarPlacesAt(o.places, p) /\ p.cell \in Cell
      BY <2>1, <2>2 DEF VarPlacesAt, SameKey, VarPlaceKind, Cell
    <2>5. p.cell \in PosAt(o.places, p)
      BY <2>1, <2>4 DEF PosAt
    <2>6. p.cell \in CellsAt(cells, p)
      BY <1>2, <2>2, <2>3, <2>5
    <2> QED
      BY <2>1, <2>6 DEF CellsAt
  <1> QED
    BY <1>3, <1>4 DEF o

\* The grid shows every place of the newest object where it is, and nothing
\* else, whatever is changed, read, copied, published or fails; but for the rows
\* that change between the two loads of the start (MJSquareGrid::addId2Grid
\* leaves the old cell as it is, so that only DelLYPlace can clear it).
THEOREM PrivateGridExact == DataSpec => []GridExact
  BY GridInvHolds, GridIsExact, PTL

-----------------------------------------------------------------------------
(* An object is its rows and what is made for them. *)

CoreOf(r) == Made("hotel", coreId(r.id), r.pt, r.cell)
LocalOf(r) == Made("view", gatherId(r.id), None, None)

\* The core hotel of a city, and the place where a tour meets.
MadeFor(p) ==
    IF p.kind = "city" THEN {CoreOf(p)}
    ELSE IF p.kind \in TourKind /\ p.gather THEN {LocalOf(p)} ELSE {}

RowsIn(P) == P \intersect DataRow

Whole(P) == \A q : q \in P \ DataRow <=> \E p \in RowsIn(P) : q \in MadeFor(p)

LEMMA NoRowIsMade ==
    /\ \A q \in Cores \union Locals : q \notin DataRow
    /\ \A p \in DataRow : CoreOf(p) \in Cores /\ LocalOf(p) \in Locals
  <1>1. ASSUME NEW q \in DataRow, q \in Cores \union Locals PROVE FALSE
    <2>1. q.id = <<q.id[1]>>
      BY RowName
    <2> QED
      BY <1>1, <2>1, MadeIds
  <1> QED
    BY <1>1 DEF Cores, Locals, CoreOf, LocalOf

LEMMA MadeForIs ==
    ASSUME NEW p \in DataRow, NEW q \in MadeFor(p)
    PROVE  /\ q \in Cores \union Locals /\ q \notin DataRow /\ p.refer = None
           /\ p.kind \in TourKind \union {"city"} /\ MapOf(p) \in {"tour", "city"}
           /\ getUniqId(p) = p.id
  <1>1. p.kind \in TourKind \union {"city"} /\ q \in {CoreOf(p), LocalOf(p)}
    BY DEF MadeFor
  <1>2. p.refer = None
    BY <1>1, RowName DEF VarKind, TourKind
  <1> QED
    BY <1>1, <1>2, NoRowIsMade DEF MapOf, getUniqId

LEMMA MadeNames ==
    ASSUME NEW r \in DataRow
    PROVE  /\ coreId(r.id) = <<"coreHotel", r.id[1]>> /\ gatherId(r.id) = <<r.id[1], "gather">>
           /\ getUniqId(CoreOf(r)) = coreId(r.id) /\ getUniqId(LocalOf(r)) = gatherId(r.id)
           /\ MapOf(CoreOf(r)) = "hotel" /\ MapOf(LocalOf(r)) = "view"
  <1>1. CoreOf(r).id = coreId(r.id) /\ LocalOf(r).id = gatherId(r.id)
    BY DEF CoreOf, LocalOf, Made
  <1> QED
    BY <1>1, CoreName, LocalName DEF CoreOf, LocalOf

\* What is made for two rows is made for two ids.
LEMMA MadeApart ==
    ASSUME NEW p \in DataRow, NEW q \in DataRow, NEW x \in MadeFor(p), x \in MadeFor(q)
    PROVE  p.id = q.id /\ MapOf(p) = MapOf(q) /\ getUniqId(p) = getUniqId(q)
  <1>1. x.id = <<"coreHotel", p.id[1]>> \/ x.id = <<p.id[1], "gather">>
    BY CoreName, LocalName DEF MadeFor, CoreOf, LocalOf
  <1>2. x.id = <<"coreHotel", q.id[1]>> \/ x.id = <<q.id[1], "gather">>
    BY CoreName, LocalName DEF MadeFor, CoreOf, LocalOf
  <1>3. p.id = <<p.id[1]>> /\ q.id = <<q.id[1]>> /\ p.id[1] # "coreHotel" /\ q.id[1] # "coreHotel"
    BY RowName
  <1>4. p.id[1] = q.id[1]
    BY <1>1, <1>2, <1>3, LongKeys
  <1> QED
    BY <1>3, <1>4, MadeForIs, OwnId

\* A place with the key of a core hotel or of a meeting place is that place.
LEMMA MadeKeys ==
    ASSUME NEW s, Tidy(s), Whole(s.places), NEW r \in DataRow, NEW q \in s.places
    PROVE  /\ getUniqId(q) = gatherId(r.id) => q = LocalOf(r)
           /\ getUniqId(q) = coreId(r.id) =>
                 \E c \in RowsIn(s.places) : c.kind = "city" /\ c.id = r.id /\ q = CoreOf(c)
  <1>1. q \in AnyPlace /\ r.id = <<r.id[1]>>
    BY RowName DEF Tidy
  <1>2. ASSUME getUniqId(q) = gatherId(r.id) PROVE q = LocalOf(r)
    <2>1. q \in Locals
      BY <1>1, <1>2, GatherKey
    <2>2. PICK c \in DataRow : q = LocalOf(c)
      BY <2>1 DEF Locals, LocalOf
    <2>3. gatherId(c.id) = gatherId(r.id)
      BY <1>2, <2>2 DEF LocalOf, Made, getUniqId
    <2> QED
      BY <2>2, <2>3 DEF LocalOf
  <1>3. ASSUME getUniqId(q) = coreId(r.id)
        PROVE  \E c \in RowsIn(s.places) : c.kind = "city" /\ c.id = r.id /\ q = CoreOf(c)
    <2>1. q \in Cores
      BY <1>1, <1>3, CoreKey
    <2>2. PICK c \in RowsIn(s.places) : q \in MadeFor(c)
      BY <2>1, NoRowIsMade DEF Whole
    <2>3. c \in DataRow /\ c.id = <<c.id[1]>>
      BY <2>2, RowName DEF RowsIn
    <2>4. c.kind = "city" /\ q = CoreOf(c)
      <3>1. q # LocalOf(c)
        BY <2>1, <2>3, NoRowIsMade, MadeIds
      <3> QED
        BY <2>2, <3>1 DEF MadeFor
    <2>5. getUniqId(q) = <<"coreHotel", c.id[1]>> /\ coreId(r.id) = <<"coreHotel", r.id[1]>>
      BY <2>3, <2>4, MadeNames
    <2>6. c.id[1] = r.id[1]
      <3>1. <<"coreHotel", c.id[1]>> = <<"coreHotel", r.id[1]>>
        BY <1>3, <2>5
      <3> QED
        BY <3>1
    <2> QED
      BY <1>1, <2>2, <2>3, <2>4, <2>6
  <1> QED
    BY <1>2, <1>3

\* A tidy object in which everything that is made belongs to a row.
WholeState(s) == s \in StateType /\ Tidy(s) /\ Whole(s.places)

\* Rows with the same id are rows of the same table.
LEMMA SameId ==
    ASSUME NEW p \in DataRow, NEW q \in DataRow, p.id = q.id
    PROVE  /\ p.kind = q.kind /\ MapOf(p) = MapOf(q)
           /\ (p.refer = None \/ q.refer = None) => SameRow(p, q)
           /\ p.pt = q.pt => SameRow(p, q)
  BY IdAssumption, TableAssumption DEF SameRow, MapOf

\* In a tidy object a row is there in one form.
LEMMA OneForm ==
    ASSUME NEW s, Tidy(s), NEW p \in s.places, NEW q \in s.places, p \in DataRow, q \in DataRow,
           SameRow(p, q), p.kind # "fun"
    PROVE  p = q
  <1>1. CASE p.kind \in VarPlaceKind
    BY <1>1 DEF Tidy, SameRow, SameKey
  <1>2. CASE p.kind \notin VarPlaceKind
    <2>1. p.refer = None /\ q.refer = None
      BY <1>2, RowName DEF SameRow, VarPlaceKind
    <2> QED
      BY <2>1 DEF Tidy, SameRow, MapOf, getUniqId
  <1> QED
    BY <1>1, <1>2

\* DelFromPlaceMap: a city goes with its core hotel.
LEMMA ErasedExactly ==
    ASSUME NEW s, Tidy(s), Whole(s.places), NEW r \in DataRow, NEW p, FoundOf(s, r, p)
    PROVE  Erased(s, p) = {p} \union (IF p.kind = "city" THEN {CoreOf(p)} ELSE {})
  <1> DEFINE tours == At(s, "tour", p.id)
             citys == IF tours = {} THEN At(s, "city", p.id) ELSE {}
             core == IF citys = {} THEN {} ELSE At(s, "hotel", coreId(p.id))
             others == First(PlaceMaps(s, getUniqId(p)))
  <1>1. Erased(s, p) = tours \union citys \union core \union others
    BY DEF Erased
  <1>2. p \in s.places /\ p \in DataRow /\ p.id = r.id /\ p \in RowsIn(s.places)
    BY DEF FoundOf, RowsIn
  <1>3. p \in Erased(s, p) /\ \A q \in Erased(s, p) : q = p \/ q \in Cores
    BY ErasedOf
  <1>4. \A q \in tours : q = p
    <2> SUFFICES ASSUME NEW q \in At(s, "tour", p.id) PROVE q = p
      OBVIOUS
    <2>1. q \in s.places /\ MapOf(q) = "tour" /\ getUniqId(q) = r.id
      BY <1>2, AtIs
    <2> QED
      BY <2>1, OnlyFound
  <1>5. \A q \in citys : q = p /\ MapOf(q) = "city"
    <2> SUFFICES ASSUME NEW q \in At(s, "city", p.id) PROVE q = p /\ MapOf(q) = "city"
      OBVIOUS
    <2>1. q \in s.places /\ MapOf(q) = "city" /\ getUniqId(q) = r.id
      BY <1>2, AtIs
    <2> QED
      BY <2>1, OnlyFound
  <1>6. ASSUME NEW q \in Erased(s, p), q # p PROVE p.kind = "city" /\ q = CoreOf(p)
    <2>1. q \in Cores /\ MapOf(q) = "hotel"
      BY <1>3, <1>6, MadeIds
    <2>2. q \notin others
      <3> SUFFICES ASSUME getUniqId(q) = getUniqId(p) PROVE FALSE
        BY FirstAt
      <3>1. PICK c \in DataRow : q = CoreOf(c)
        BY <2>1 DEF Cores, CoreOf
      <3>2. getUniqId(p) = coreId(c.id)
        BY <3>1, MadeNames
      <3>3. p \in Cores
        BY <1>2, <3>2, CoreKey DEF AnyPlace
      <3> QED
        BY <1>2, <3>3, NoRowIsMade
    <2>3. q \in core
      BY <1>1, <1>4, <1>5, <1>6, <2>2
    <2>4. MapOf(p) = "city" /\ q \in s.places /\ getUniqId(q) = coreId(p.id)
      <3> HIDE DEF citys
      <3>1. citys # {}
        BY <2>3
      <3> QED
        BY <1>5, <2>3, <3>1, AtIs
    <2>5. PICK c \in RowsIn(s.places) : c.kind = "city" /\ c.id = p.id /\ q = CoreOf(c)
      BY <1>2, <2>4, MadeKeys
    <2>6. c = p
      <3>1. c \in DataRow /\ c \in s.places
        BY <2>5 DEF RowsIn
      <3>2. SameRow(c, p)
        BY <1>2, <2>5, <3>1, RowName, SameId DEF VarKind
      <3> QED
        BY <1>2, <2>5, <3>1, <3>2, OneForm
    <2> QED
      BY <2>5, <2>6
  <1>7. ASSUME p.kind = "city" PROVE CoreOf(p) \in Erased(s, p)
    <2>1. MapOf(p) = "city" /\ getUniqId(p) = p.id
      BY <1>7, <1>2, RowName DEF MapOf, getUniqId, VarKind, TourKind
    <2>2. tours = {}
      <3> SUFFICES ASSUME NEW q \in At(s, "tour", p.id) PROVE FALSE
        OBVIOUS
      <3>1. q = p /\ MapOf(q) = "tour"
        BY <1>4, AtIs
      <3> QED
        BY <2>1, <3>1
    <2>3. p \in citys
      <3> HIDE DEF tours
      <3> QED
        BY <1>2, <2>1, <2>2, AtIs
    <2>4. CoreOf(p) \in s.places
      <3>1. CoreOf(p) \in MadeFor(p)
        BY <1>7 DEF MadeFor
      <3> QED
        BY <1>2, <3>1 DEF Whole
    <2>5. CoreOf(p) \in At(s, "hotel", coreId(p.id))
      BY <1>2, <2>4, MadeNames, AtIs
    <2> HIDE DEF citys, tours, others
    <2> QED
      BY <1>1, <2>3, <2>5
  <1> QED
    BY <1>3, <1>6, <1>7

\* The place where a tour meets is found by its id, and it alone is erased.
LEMMA LocalErased ==
    ASSUME NEW s, Tidy(s), Whole(s.places), NEW p \in RowsIn(s.places), NEW q, q = LocalOf(p),
           q \in s.places
    PROVE  GetLYPlace(s, gatherId(p.id), None) = {q} /\ Erased(s, q) = {q}
  <1> DEFINE id == gatherId(p.id)
  <1>1. p \in DataRow /\ MapOf(q) = "view" /\ getUniqId(q) = id /\ q.id = id
    BY MadeNames DEF RowsIn, LocalOf, Made
  <1>2. \A x \in s.places : getUniqId(x) = id => x = q
    BY <1>1, MadeKeys
  <1> HIDE DEF id
  <1>3. At(s, "city", id) = {} /\ At(s, "tour", id) = {}
    <2> SUFFICES ASSUME NEW m \in {"city", "tour"}, NEW x \in At(s, m, id) PROVE FALSE
      OBVIOUS
    <2>1. x = q /\ MapOf(x) = m
      BY <1>2, AtIs
    <2> QED
      BY <1>1, <2>1
  <1>4. First(PlaceMaps(s, id)) = {q}
    <2>1. First(PlaceMaps(s, id)) # {}
      BY <1>1, FirstHas DEF PlaceMap
    <2>2. \A x \in First(PlaceMaps(s, id)) : x = q
      BY <1>2, FirstAt
    <2> QED
      BY <2>1, <2>2
  <1>5. GetLYPlace(s, id, None) = {q}
    BY <1>3, <1>4, Lookup DEF FoundAt
  <1>6. Erased(s, q) = {q}
    BY <1>1, <1>3, <1>4 DEF Erased
  <1> QED
    BY <1>5, <1>6 DEF id

\* DelLYPlace: the row goes, in whatever form it is there, with what was made
\* for it.
LEMMA RowDeleted ==
    ASSUME NEW s, WholeState(s), NEW r \in DataRow, r.kind # "fun",
           NEW t, t = DelLYPlace(s, r.id, r.pt)
    PROVE  /\ WholeState(t) /\ t.shields = s.shields /\ t.taken = s.taken
           /\ RowsIn(t.places) = {q \in RowsIn(s.places) : ~SameRow(q, r)}
  <1> DEFINE found == GetLYPlace(s, r.id, r.pt)
  <1>0. s \in StateType /\ Tidy(s) /\ Whole(s.places) /\ s.places \subseteq AnyPlace
    BY DEF WholeState, Tidy
  <1>1. t \in StateType /\ Tidy(t)
    BY <1>0, Deleted
  <1>2. CASE found = {}
    <2>1. t = s
      BY <1>2 DEF DelLYPlace
    <2>2. ASSUME NEW q \in RowsIn(s.places), SameRow(q, r) PROVE FALSE
      <3>1. q \in s.places /\ q \in DataRow /\ MapOf(q) \in PlaceMap \union {"city", "tour"}
        BY <2>2, RowName DEF RowsIn, SameRow, PlaceMap, VarKind, MapOf
      <3>2. /\ q.id = r.id /\ q.id = <<q.id[1]>> /\ r.pt # None
            /\ getUniqId(q) \in {r.id, r.id \o <<r.pt>>}
            /\ MapOf(q) \in {"city", "tour"} => getUniqId(q) = r.id
        <4>1. q.id = r.id /\ q.pt = r.pt /\ q.id = <<q.id[1]>> /\ r.pt # None
          BY <2>2, <3>1, RowName DEF SameRow
        <4>2. getUniqId(q) \in {r.id, r.id \o <<r.pt>>}
          BY <4>1 DEF getUniqId
        <4>3. MapOf(q) \in {"city", "tour"} => getUniqId(q) = r.id
          BY <4>1, <3>1, RowName DEF getUniqId, MapOf, VarKind, TourKind
        <4> QED
          BY <4>1, <4>2, <4>3
      <3>3. found = FoundAt(s, r.id, r.id \o <<r.pt>>)
        BY <3>2, Lookup
      <3>4. /\ At(s, "city", r.id) = {} /\ At(s, "tour", r.id) = {}
            /\ First(PlaceMaps(s, r.id)) = {} /\ First(PlaceMaps(s, r.id \o <<r.pt>>)) = {}
        BY <1>2, <3>3 DEF FoundAt
      <3>5. CASE MapOf(q) \in PlaceMap
        BY <3>1, <3>2, <3>4, <3>5, FirstHas
      <3>6. CASE MapOf(q) \in {"city", "tour"}
        BY <3>1, <3>2, <3>4, <3>6, AtIs
      <3> QED
        BY <3>1, <3>5, <3>6
    <2> QED
      BY <2>1, <2>2
  <1>3. CASE found # {}
    <2>1. PICK p \in s.places : FoundOf(s, r, p)
      BY <1>0, <1>3, FoundRow DEF FoundOf
    <2>2. p \in DataRow /\ p.id = r.id /\ p \in RowsIn(s.places) /\ found = {p}
      BY <2>1 DEF FoundOf, RowsIn
    <2>3. SameRow(p, r)
      <3>1. p.refer = None \/ p.pt = r.pt
        BY <2>1 DEF FoundOf
      <3> QED
        BY <2>2, <3>1, SameId
    <2> DEFINE u == IF p.kind \in VarKind THEN delIdFromGrid(s, p.id, p.pt) ELSE s
               local == IF p.kind \in TourKind /\ p.gather
                        THEN GetLYPlace(s, gatherId(p.id), None) ELSE {}
               E == UNION {Erased(s, q) : q \in {p} \union local}
    <2>4. t = [u EXCEPT !.index = u.index \ Entries(p), !.places = u.places \ E]
      <3>1. (CHOOSE x \in found : TRUE) = p
        BY <2>2
      <3> QED
        BY <1>3, <3>1 DEF DelLYPlace, Without
    <2>5. u \in StateType /\ u.places = s.places /\ u.shields = s.shields /\ u.taken = s.taken
      BY <1>0, delIdFromGridIs
    <2>6. E = {p} \union MadeFor(p)
      <3>1. Erased(s, p) = {p} \union (IF p.kind = "city" THEN {CoreOf(p)} ELSE {})
        BY <1>0, <2>1, ErasedExactly
      <3>2. CASE p.kind \in TourKind /\ p.gather
        <4>1. MadeFor(p) = {LocalOf(p)}
          BY <3>2 DEF MadeFor, TourKind
        <4>2. LocalOf(p) \in s.places
          BY <1>0, <2>2, <4>1 DEF Whole
        <4>3. local = {LocalOf(p)} /\ Erased(s, LocalOf(p)) = {LocalOf(p)}
          BY <1>0, <2>2, <3>2, <4>2, LocalErased
        <4>4. Erased(s, p) = {p}
          BY <3>1, <3>2 DEF TourKind
        <4> HIDE DEF local
        <4> QED
          BY <4>1, <4>3, <4>4
      <3>3. CASE ~(p.kind \in TourKind /\ p.gather)
        <4>1. local = {} /\ MadeFor(p) = IF p.kind = "city" THEN {CoreOf(p)} ELSE {}
          BY <3>3 DEF MadeFor
        <4> HIDE DEF local
        <4> QED
          BY <3>1, <4>1
      <3> QED
        BY <3>2, <3>3
    <2> HIDE DEF E
    <2>7. /\ t.places = s.places \ ({p} \union MadeFor(p))
          /\ t.shields = s.shields /\ t.taken = s.taken
      <3> HIDE DEF u
      <3> QED
        BY <2>4, <2>5, <2>6 DEF StateType
    <2>8. RowsIn(t.places) = RowsIn(s.places) \ {p}
      BY <2>2, <2>7, MadeForIs DEF RowsIn
    <2>9. Whole(t.places)
      <3> SUFFICES ASSUME NEW q
                   PROVE  q \in t.places \ DataRow <=> \E c \in RowsIn(t.places) : q \in MadeFor(c)
        BY DEF Whole
      <3>1. ASSUME q \in t.places \ DataRow PROVE \E c \in RowsIn(t.places) : q \in MadeFor(c)
        <4>1. PICK c \in RowsIn(s.places) : q \in MadeFor(c)
          BY <1>0, <2>7, <3>1 DEF Whole
        <4> QED
          BY <2>7, <2>8, <3>1, <4>1
      <3>2. ASSUME NEW c \in RowsIn(t.places), q \in MadeFor(c) PROVE q \in t.places \ DataRow
        <4>1. c \in RowsIn(s.places) /\ c # p
          BY <2>8
        <4>2. q \in s.places \ DataRow /\ q # p
          BY <1>0, <2>2, <3>2, <4>1 DEF Whole
        <4>3. q \notin MadeFor(p)
          <5> SUFFICES ASSUME q \in MadeFor(p) PROVE FALSE
            OBVIOUS
          <5>1. MapOf(c) = MapOf(p) /\ getUniqId(c) = getUniqId(p)
            BY <2>2, <3>2, <4>1, MadeApart DEF RowsIn
          <5> QED
            BY <1>0, <2>2, <4>1, <5>1 DEF Tidy, RowsIn
        <4> QED
          BY <2>7, <4>2, <4>3
      <3> QED
        BY <3>1, <3>2
    <2>10. \A q \in RowsIn(s.places) : SameRow(q, r) <=> q = p
      <3> SUFFICES ASSUME NEW q \in RowsIn(s.places), SameRow(q, r) PROVE q = p
        BY <2>3
      <3>1. SameRow(p, q) /\ p.kind # "fun"
        BY <2>3 DEF SameRow
      <3> QED
        BY <1>0, <2>2, <3>1, OneForm DEF RowsIn
    <2> QED
      BY <1>1, <2>7, <2>8, <2>9, <2>10 DEF WholeState
  <1> QED
    BY <1>1, <1>2, <1>3 DEF WholeState

\* What DoInsert makes of the places.
LEMMA InsertedPlaces ==
    ASSUME NEW T \in {ObjectType, StateType}, NEW s \in T, NEW p, NEW t, t = DoInsert(s, p)
    PROVE  /\ t.shields = s.shields /\ t.taken = s.taken
           /\ ~Inserts(s, p) => t.places = s.places
           /\ Inserts(s, p) /\ p.kind # "city" => t.places = s.places \union {p}
           /\ Inserts(s, p) /\ p.kind = "city" =>
                 t.places = (s.places \ At(s, "hotel", coreId(p.id))) \union {p, CoreOf(p)}
  <1>1. CASE ~Inserts(s, p)
    BY <1>1 DEF DoInsert
  <1>2. CASE Inserts(s, p)
    <2> DEFINE gone == IF p.kind = "city" THEN At(s, "hotel", coreId(p.id)) ELSE {}
               add == IF p.kind = "city" THEN {p, CoreOf(p)} ELSE {p}
               P == (s.places \ gone) \union add
               J == s.index \union Entries(p)
    <2>1. t = [s EXCEPT !.places = P, !.index = J]
      BY <1>2, Zenon DEF DoInsert, CoreOf
    <2> HIDE DEF P, J
    <2>2. t.places = P /\ t.shields = s.shields /\ t.taken = s.taken
      <3>1. CASE s \in ObjectType
        BY <2>1, <3>1 DEF ObjectType
      <3>2. CASE s \in StateType
        BY <2>1, <3>2 DEF StateType
      <3> QED
        BY <3>1, <3>2
    <2>3. p.kind # "city" => gone = {} /\ add = {p}
      OBVIOUS
    <2> QED
      BY <1>2, <2>2, <2>3 DEF P
  <1> QED
    BY <1>1, <1>2

\* A row that is there in no form comes in.
LEMMA NewRowComesIn ==
    ASSUME NEW s, Tidy(s), NEW r \in DataRow, \A q \in RowsIn(s.places) : ~SameRow(q, r)
    PROVE  Inserts(s, r)
  <1>1. CASE r.kind \in VarPlaceKind
    <2>1. ASSUME NEW q \in VarPlacesAt(s.places, r) PROVE FALSE
      <3>1. q \in RowsIn(s.places) /\ q.id = r.id /\ q.pt = r.pt
        BY RowsAtKey DEF RowsIn, VarPlacesAt, SameKey
      <3> QED
        BY <3>1, SameId DEF RowsIn
    <2> QED
      BY <1>1, <2>1, RowComesIn
  <1>2. CASE r.kind \notin VarPlaceKind
    <2> SUFFICES ASSUME NEW q \in s.places, getUniqId(q) = getUniqId(r) PROVE FALSE
      BY AtIs DEF Inserts
    <2>1. q \in AnyPlace /\ r.id = <<r.id[1]>> /\ getUniqId(q) = <<r.id[1]>>
      BY <1>2, RowName DEF Tidy, VarPlaceKind
    <2>2. q \in DataRow /\ q.refer = None /\ q.id = r.id
      BY <2>1, ShortKey
    <2> QED
      BY <2>2, SameId DEF RowsIn
  <1> QED
    BY <1>1, <1>2

\* A row that comes in with what is made for it.
LEMMA WholeWith ==
    ASSUME NEW P, Whole(P), NEW r \in DataRow, NEW Q, Q = P \union {r} \union MadeFor(r)
    PROVE  Whole(Q) /\ RowsIn(Q) = RowsIn(P) \union {r}
  <1>1. RowsIn(Q) = RowsIn(P) \union {r}
    BY MadeForIs DEF RowsIn
  <1>2. ASSUME NEW q PROVE q \in Q \ DataRow <=> \E p \in RowsIn(Q) : q \in MadeFor(p)
    BY <1>1, MadeForIs DEF Whole, RowsIn
  <1> QED
    BY <1>1, <1>2 DEF Whole

\* No core hotel is there for a city that is not.
LEMMA NoCoreLeft ==
    ASSUME NEW s, Tidy(s), Whole(s.places), NEW r \in DataRow, r.kind = "city",
           \A q \in RowsIn(s.places) : ~SameRow(q, r)
    PROVE  At(s, "hotel", coreId(r.id)) = {}
  <1> SUFFICES ASSUME NEW q \in At(s, "hotel", coreId(r.id)) PROVE FALSE
    OBVIOUS
  <1>1. PICK c \in RowsIn(s.places) : c.kind = "city" /\ c.id = r.id
    BY MadeKeys, AtIs
  <1>2. SameRow(c, r)
    BY <1>1, RowName, SameId DEF RowsIn, VarKind
  <1> QED
    BY <1>1, <1>2

\* DoInsert of a row that is no tour.
LEMMA PlainInserted ==
    ASSUME NEW s, WholeState(s), NEW r \in DataRow, r.kind \notin TourKind \union {"fun"},
           \A q \in RowsIn(s.places) : ~SameRow(q, r), NEW t, t = DoInsert(s, r)
    PROVE  /\ Whole(t.places) /\ t.shields = s.shields /\ t.taken = s.taken
           /\ RowsIn(t.places) = RowsIn(s.places) \union {r}
  <1>1. s \in StateType /\ Tidy(s) /\ Whole(s.places) /\ Inserts(s, r)
    BY NewRowComesIn DEF WholeState
  <1>2. /\ t.places = s.places \union {r} \union MadeFor(r)
        /\ t.shields = s.shields /\ t.taken = s.taken
    <2>1. CASE r.kind = "city"
      <3>1. At(s, "hotel", coreId(r.id)) = {}
        BY <1>1, <2>1, NoCoreLeft
      <3>2. /\ t.places = (s.places \ {}) \union {r, CoreOf(r)}
            /\ t.shields = s.shields /\ t.taken = s.taken
        BY <1>1, <2>1, <3>1, InsertedPlaces
      <3> QED
        BY <2>1, <3>2 DEF MadeFor
    <2>2. CASE r.kind # "city"
      <3>1. t.places = s.places \union {r} /\ t.shields = s.shields /\ t.taken = s.taken
        BY <1>1, <2>2, InsertedPlaces
      <3> QED
        BY <2>2, <3>1 DEF MadeFor
    <2> QED
      BY <2>1, <2>2
  <1> QED
    BY <1>1, <1>2, WholeWith

\* DoInsert of a tour after the place where it meets.
TourComesIn(s, r, N) == DoInsert(Take(IF r.gather THEN DoInsert(s, LocalOf(r)) ELSE s, r, N), r)

LEMMA TourInserted ==
    ASSUME NEW s, WholeState(s), NEW r \in DataRow, r.kind \in TourKind,
           \A q \in RowsIn(s.places) : ~SameRow(q, r),
           NEW N, \A p \in N : p.cell \in TakenValue,
           NEW t, t = TourComesIn(s, r, N)
    PROVE  /\ Whole(t.places) /\ t.shields = s.shields
           /\ t.taken = TakenAnew(s.taken, r, N)
           /\ RowsIn(t.places) = RowsIn(s.places) \union {r}
  <1> DEFINE local == LocalOf(r)
             u == IF r.gather THEN DoInsert(s, local) ELSE s
             v == Take(u, r, N)
  <1>1. s \in StateType /\ Tidy(s) /\ Whole(s.places) /\ local \in Locals /\ r.kind # "city"
    BY NoRowIsMade DEF WholeState, TourKind
  <1>2. /\ u \in StateType /\ Tidy(u) /\ u.shields = s.shields /\ u.taken = s.taken
        /\ u.places = s.places \union MadeFor(r)
    <2>1. CASE ~r.gather
      BY <1>1, <2>1 DEF MadeFor
    <2>2. CASE r.gather
      <3>1. local \in AnyPlace /\ local.kind = "view" /\ Fresh(s, local)
        BY <1>1, LocalFresh DEF LocalOf
      <3>2. u \in StateType /\ Tidy(u)
        BY <1>1, <2>2, <3>1, Inserted
      <3>3. u.shields = s.shields /\ u.places = s.places \union {local} /\ u.taken = s.taken
        <4>1. CASE Inserts(s, local)
          BY <1>1, <2>2, <3>1, <4>1, InsertedPlaces
        <4>2. CASE ~Inserts(s, local)
          <5>1. PICK q \in s.places : getUniqId(q) = getUniqId(local)
            BY <4>2, AtIs DEF Inserts
          <5>2. q = local
            BY <1>1, <5>1, MadeNames, MadeKeys
          <5>3. u.shields = s.shields /\ u.places = s.places /\ u.taken = s.taken
            BY <1>1, <2>2, <4>2, InsertedPlaces
          <5> QED
            BY <5>1, <5>2, <5>3
        <4> QED
          BY <4>1, <4>2
      <3>4. MadeFor(r) = {local}
        BY <1>1, <2>2 DEF MadeFor
      <3> HIDE DEF u, local
      <3> QED
        BY <3>2, <3>3, <3>4
    <2> HIDE DEF u
    <2> QED
      BY <2>1, <2>2
  <1>3. t = DoInsert(v, r)
    BY DEF TourComesIn
  <1> HIDE DEF u
  <1>6. /\ v \in StateType /\ v.places = u.places /\ v.index = u.index /\ v.shields = u.shields
        /\ v.taken = TakenAnew(u.taken, r, N)
    BY <1>2, TakeIs
  <1> HIDE DEF v
  <1>7. Tidy(v)
    BY <1>2, <1>6, SameParts
  <1>4. \A q \in RowsIn(v.places) : ~SameRow(q, r)
    BY <1>2, <1>6, MadeForIs DEF RowsIn
  <1>5. /\ t.places = s.places \union {r} \union MadeFor(r) /\ t.shields = s.shields
        /\ t.taken = TakenAnew(s.taken, r, N)
    <2>1. Inserts(v, r)
      BY <1>4, <1>6, <1>7, NewRowComesIn
    <2>2. t.places = v.places \union {r} /\ t.shields = v.shields /\ t.taken = v.taken
      <3>1. v \in StateType /\ r.kind # "city"
        BY <1>1, <1>6
      <3> QED
        BY <1>3, <2>1, <3>1, InsertedPlaces
    <2> QED
      BY <1>2, <1>6, <2>2
  <1> QED
    BY <1>1, <1>5, WholeWith

-----------------------------------------------------------------------------
(* What a row does to the rows of an object. *)

\* A row that is not skipped; a ticket may be skipped for its view.
ComesIn(r) == Lands(r) /\ (r.kind = "tour" => r.cell # None)

\* What disables a public place.
Shields(r) == IF r.kind \in VarKind /\ r.refer # None /\ ~r.on THEN {<<r.pt, r.refer>>} ELSE {}

\* The place that a row names, in the object from which the row is gone.
NamedBy(s, pri, r) == Named(DelLYPlace(s, r.id, r.pt), pri, r)

\* The kinds whose places take something from the place that they name, and
\* what they take when they are read.
TakerKind == TourKind \union {"hotel"}

TakenStep(s, pri, r, x) ==
    x.taken = IF r.kind \in TakerKind /\ r \in x.places
              THEN TakenAnew(s.taken, r, NamedBy(s, pri, r))
              ELSE s.taken

RowStep(s, pri, r, x) ==
    /\ WholeState(x) /\ TakenStep(s, pri, r, x)
    /\ x.shields = s.shields \union Shields(r)
    /\ \A q \in DataRow : ~SameRow(q, r) => (q \in x.places <=> q \in s.places)
    /\ \A q \in DataRow : SameRow(q, r) /\ q \in x.places =>
          \/ q = r /\ ComesIn(r)
          \/ r.kind = "city" /\ ~r.on /\ q \in s.places
    /\ ComesIn(r) => \/ r \in x.places
                     \/ r.kind = "ticket" /\ NamedBy(s, pri, r) = {}

\* The other rows of an object.
Others(P, r) == {q \in RowsIn(P) : ~SameRow(q, r)}

\* A row that comes in.
LEMMA StepIn ==
    ASSUME NEW s, NEW r \in DataRow, NEW pri, NEW x, WholeState(x), ComesIn(r),
           x.shields = s.shields \union Shields(r), TakenStep(s, pri, r, x),
           RowsIn(x.places) = Others(s.places, r) \union {r}
    PROVE  RowStep(s, pri, r, x)
  <1>1. \A q \in DataRow : /\ q \in x.places <=> q \in RowsIn(x.places)
                           /\ q \in s.places <=> q \in RowsIn(s.places)
    BY DEF RowsIn
  <1>2. SameRow(r, r)
    BY DEF SameRow
  <1>3. \A q : q \in RowsIn(x.places) <=> q = r \/ (q \in RowsIn(s.places) /\ ~SameRow(q, r))
    BY DEF Others
  <1>4. \A q \in DataRow : ~SameRow(q, r) => (q \in x.places <=> q \in s.places)
    BY <1>1, <1>2, <1>3
  <1>5. \A q \in DataRow : SameRow(q, r) /\ q \in x.places => q = r
    BY <1>1, <1>3
  <1>6. r \in x.places
    BY <1>1, <1>3
  <1> QED
    BY <1>4, <1>5, <1>6 DEF RowStep

\* A row that is skipped after it has been deleted.
LEMMA StepOut ==
    ASSUME NEW s, NEW r \in DataRow, NEW pri, NEW x, WholeState(x),
           x.shields = s.shields \union Shields(r), RowsIn(x.places) = Others(s.places, r),
           x.taken = s.taken,
           ComesIn(r) => r.kind = "ticket" /\ NamedBy(s, pri, r) = {}
    PROVE  RowStep(s, pri, r, x)
  <1>1. \A q \in DataRow : /\ q \in x.places <=> q \in RowsIn(x.places)
                           /\ q \in s.places <=> q \in RowsIn(s.places)
    BY DEF RowsIn
  <1>2. \A q \in DataRow : ~SameRow(q, r) => (q \in x.places <=> q \in s.places)
    BY <1>1 DEF Others
  <1>3. \A q \in DataRow : ~(SameRow(q, r) /\ q \in x.places)
    BY <1>1 DEF Others
  <1>4. TakenStep(s, pri, r, x)
    BY <1>3 DEF TakenStep, SameRow
  <1> QED
    BY <1>2, <1>3, <1>4 DEF RowStep

\* A change of the shields and the grid.
LEMMA SamePlaces ==
    ASSUME NEW s, WholeState(s), NEW t \in StateType, t.places = s.places, t.index = s.index
    PROVE  WholeState(t)
  BY SameParts DEF WholeState

LEMMA VarPlaceStep ==
    ASSUME NEW s, WholeState(s), NEW r \in DataRow, r.kind \in VarKind, NEW pri,
           NEW x, x = ReadVarPlace(s, r)
    PROVE  RowStep(s, pri, r, x)
  <1> DEFINE t == DelLYPlace(s, r.id, r.pt)
             u == IF r.refer # None /\ ~r.on
                  THEN [t EXCEPT !.shields = t.shields \union {<<r.pt, r.refer>>}] ELSE t
             v == IF r.cell = None THEN u ELSE addId2Grid(u, r.id, r.pt, r.cell)
  <1>0. r.kind \notin TourKind \union {"fun", "city", "ticket", "tour"}
    BY DEF VarKind, TourKind
  <1>10. r.kind \notin TakerKind
    BY DEF TakerKind, VarKind, TourKind
  <1>1. /\ WholeState(t) /\ t.shields = s.shields /\ t \in StateType /\ t.taken = s.taken
        /\ RowsIn(t.places) = {q \in RowsIn(s.places) : ~SameRow(q, r)}
    BY <1>0, RowDeleted DEF WholeState
  <1>2. ComesIn(r) <=> ~(~r.on \/ (r.refer # None /\ r.refer \notin Base) \/ r.cell = Bad)
    BY <1>0 DEF ComesIn, Lands
  <1>3. x = IF ComesIn(r) THEN DoInsert(v, r) ELSE u
    BY <1>2 DEF ReadVarPlace
  <1> HIDE DEF t
  <1>4. /\ u \in StateType /\ u.places = t.places /\ u.index = t.index
        /\ u.shields = s.shields \union Shields(r) /\ u.taken = t.taken
    <2>1. <<r.pt, r.refer>> \in Shield
      BY DEF Shield
    <2>2. u \in StateType /\ u.places = t.places /\ u.index = t.index /\ u.taken = t.taken
      BY <1>1, <2>1 DEF StateType
    <2>3. u.shields = s.shields \union Shields(r)
      BY <1>1 DEF Shields, StateType
    <2> QED
      BY <2>2, <2>3
  <1> HIDE DEF u
  <1>5. v \in StateType /\ v.places = t.places /\ v.index = t.index
    BY <1>4, addId2GridIs
  <1>6. v.shields = u.shields /\ v.taken = u.taken
    BY <1>4 DEF addId2Grid, StateType
  <1> HIDE DEF v
  <1>7. WholeState(u) /\ WholeState(v)
    BY <1>1, <1>4, <1>5, SamePlaces
  <1>8. CASE ComesIn(r)
    <2>1. \A q \in RowsIn(v.places) : ~SameRow(q, r)
      BY <1>1, <1>5
    <2>2. /\ Whole(x.places) /\ x.shields = v.shields /\ x.taken = v.taken
          /\ RowsIn(x.places) = RowsIn(v.places) \union {r}
      BY <1>0, <1>3, <1>7, <1>8, <2>1, PlainInserted
    <2>3. x \in StateType /\ Tidy(x)
      <3>1. s \in TidyState
        BY DEF WholeState, TidyState
      <3> QED
        BY <3>1, VarPlaceRead DEF TidyState
    <2>4. WholeState(x)
      BY <2>2, <2>3 DEF WholeState
    <2>5. RowsIn(x.places) = Others(s.places, r) \union {r} /\ x.shields = s.shields \union Shields(r)
      BY <1>1, <1>4, <1>5, <1>6, <2>2 DEF Others
    <2>6. TakenStep(s, pri, r, x)
      BY <1>1, <1>4, <1>6, <1>10, <2>2 DEF TakenStep
    <2> QED
      BY <1>8, <2>4, <2>5, <2>6, StepIn
  <1>9. CASE ~ComesIn(r)
    <2>1. x = u
      BY <1>3, <1>9
    <2>2. RowsIn(x.places) = Others(s.places, r)
      BY <1>1, <1>4, <2>1 DEF Others
    <2> QED
      BY <1>1, <1>4, <1>7, <1>9, <2>1, <2>2, StepOut
  <1> QED
    BY <1>8, <1>9

LEMMA HotelStep ==
    ASSUME NEW s, WholeState(s), NEW r \in DataRow, r.kind = "hotel", NEW pri \in Seen,
           NEW x, x = ReadHotel(s, pri, r)
    PROVE  RowStep(s, pri, r, x)
  <1> DEFINE t == DelLYPlace(s, r.id, r.pt)
             N == Named(t, pri, r)
             v == Take(t, r, N)
  <1>0. r.kind \notin VarKind \union TourKind \union {"fun", "city", "ticket", "tour"}
    BY DEF VarKind, TourKind
  <1>1. /\ WholeState(t) /\ t.shields = s.shields /\ t.taken = s.taken
        /\ RowsIn(t.places) = {q \in RowsIn(s.places) : ~SameRow(q, r)}
    BY <1>0, RowDeleted
  <1>2. ComesIn(r) <=> ~(~r.on \/ (r.refer # None /\ r.refer \notin Base))
    BY <1>0 DEF ComesIn, Lands
  <1>3. x = IF ComesIn(r) THEN DoInsert(v, r) ELSE t
    BY <1>2 DEF ReadHotel
  <1>4. Shields(r) = {}
    BY <1>0 DEF Shields
  <1>10. N = NamedBy(s, pri, r)
    BY DEF NamedBy
  <1> HIDE DEF t
  <1>7. \A p \in N : p.cell \in TakenValue
    BY <1>1, NamedCells DEF WholeState
  <1> HIDE DEF N
  <1>8. /\ v \in StateType /\ v.places = t.places /\ v.index = t.index /\ v.shields = t.shields
        /\ v.taken = TakenAnew(t.taken, r, N)
    BY <1>1, <1>7, TakeIs DEF WholeState
  <1> HIDE DEF v
  <1>9. WholeState(v)
    BY <1>1, <1>8, SamePlaces
  <1>5. CASE ComesIn(r)
    <2>1. \A q \in RowsIn(v.places) : ~SameRow(q, r)
      BY <1>1, <1>8
    <2>2. /\ Whole(x.places) /\ x.shields = v.shields /\ x.taken = v.taken
          /\ RowsIn(x.places) = RowsIn(v.places) \union {r}
      BY <1>0, <1>3, <1>5, <1>9, <2>1, PlainInserted
    <2>3. x \in StateType /\ Tidy(x)
      <3>1. s \in TidyState
        BY DEF WholeState, TidyState
      <3> QED
        BY <3>1, PlainRead DEF TidyState
    <2>4. WholeState(x)
      BY <2>2, <2>3 DEF WholeState
    <2>5. RowsIn(x.places) = Others(s.places, r) \union {r} /\ x.shields = s.shields \union Shields(r)
      BY <1>1, <1>4, <1>8, <2>2 DEF Others
    <2>6. TakenStep(s, pri, r, x)
      <3>1. r \in x.places /\ r.kind \in TakerKind
        BY <2>2 DEF RowsIn, TakerKind
      <3> QED
        BY <1>1, <1>8, <1>10, <2>2, <3>1 DEF TakenStep
    <2> QED
      BY <1>5, <2>4, <2>5, <2>6, StepIn
  <1>6. CASE ~ComesIn(r)
    <2>1. x = t /\ RowsIn(x.places) = Others(s.places, r) /\ x.shields = s.shields \union Shields(r)
      BY <1>1, <1>3, <1>4, <1>6 DEF Others
    <2> QED
      BY <1>1, <1>6, <2>1, StepOut
  <1> QED
    BY <1>5, <1>6

LEMMA CityStep ==
    ASSUME NEW s, WholeState(s), NEW r \in DataRow, r.kind = "city", NEW pri,
           NEW x, x = ReadCity(s, r)
    PROVE  RowStep(s, pri, r, x)
  <1> DEFINE t == DelLYPlace(s, r.id, r.pt)
  <1>0. r.kind \notin VarKind \union TourKind \union {"fun", "hotel", "ticket", "tour"}
    BY DEF VarKind, TourKind
  <1>7. r.kind \notin TakerKind
    BY <1>0 DEF TakerKind
  <1>1. /\ WholeState(t) /\ t.shields = s.shields /\ t.taken = s.taken
        /\ RowsIn(t.places) = {q \in RowsIn(s.places) : ~SameRow(q, r)}
    BY <1>0, RowDeleted
  <1>2. ComesIn(r) <=> r.on
    <2>1. r.refer = None
      BY <1>0, RowName
    <2> QED
      BY <1>0, <2>1 DEF ComesIn, Lands
  <1>3. x = IF ComesIn(r) THEN DoInsert(t, r) ELSE s
    BY <1>2 DEF ReadCity
  <1>4. Shields(r) = {}
    BY <1>0 DEF Shields
  <1>8. None \in Seen
    BY DEF Seen
  <1> HIDE DEF t
  <1>5. CASE ComesIn(r)
    <2>1. \A q \in RowsIn(t.places) : ~SameRow(q, r)
      BY <1>1
    <2>2. /\ Whole(x.places) /\ x.shields = t.shields /\ x.taken = t.taken
          /\ RowsIn(x.places) = RowsIn(t.places) \union {r}
      BY <1>0, <1>1, <1>3, <1>5, <2>1, PlainInserted
    <2>3. x \in StateType /\ Tidy(x)
      <3>1. s \in TidyState
        BY DEF WholeState, TidyState
      <3> QED
        BY <1>8, <3>1, PlainRead DEF TidyState
    <2>4. WholeState(x)
      BY <2>2, <2>3 DEF WholeState
    <2>5. RowsIn(x.places) = Others(s.places, r) \union {r} /\ x.shields = s.shields \union Shields(r)
      BY <1>1, <1>4, <2>2 DEF Others
    <2>6. TakenStep(s, pri, r, x)
      BY <1>1, <1>7, <2>2 DEF TakenStep
    <2> QED
      BY <1>5, <2>4, <2>5, <2>6, StepIn
  <1>6. CASE ~ComesIn(r)
    BY <1>2, <1>3, <1>4, <1>6, <1>7 DEF RowStep, TakenStep
  <1> QED
    BY <1>5, <1>6

LEMMA TourStep ==
    ASSUME NEW s, WholeState(s), NEW r \in DataRow, r.kind \in TourKind, NEW pri \in Seen,
           NEW x, x = ReadTour(s, pri, r)
    PROVE  RowStep(s, pri, r, x)
  <1> DEFINE t == DelLYPlace(s, r.id, r.pt)
             local == LocalOf(r)
             N == Named(t, pri, r)
             u == IF r.gather THEN DoInsert(t, local) ELSE t
             stays == ~r.on \/ IF r.kind = "ticket" THEN N = {} ELSE r.cell = None
  <1>0. r.kind \notin VarKind \union {"fun", "hotel", "city"} /\ r.kind \in {"ticket", "tour"}
    BY DEF VarKind, TourKind
  <1>1. /\ WholeState(t) /\ t.shields = s.shields /\ t.taken = s.taken
        /\ RowsIn(t.places) = {q \in RowsIn(s.places) : ~SameRow(q, r)}
    BY <1>0, RowDeleted
  <1>2. ComesIn(r) <=> r.on /\ (r.kind = "tour" => r.cell # None)
    <2>1. r.refer = None
      BY <1>0, RowName
    <2> QED
      BY <1>0, <2>1 DEF ComesIn, Lands
  <1>3. x = IF stays THEN t ELSE DoInsert(Take(u, r, N), r)
    BY Zenon DEF ReadTour, LocalOf
  <1>9. N = NamedBy(s, pri, r) /\ u = IF r.gather THEN DoInsert(t, LocalOf(r)) ELSE t
    BY DEF NamedBy
  <1>4. Shields(r) = {}
    BY <1>0 DEF Shields
  <1>5. ~stays => ComesIn(r)
    BY <1>0, <1>2
  <1>6. ComesIn(r) /\ stays => r.kind = "ticket" /\ NamedBy(s, pri, r) = {}
    BY <1>0, <1>2, <1>9
  <1> HIDE DEF t, stays, u
  <1>10. \A p \in N : p.cell \in TakenValue
    BY <1>1, NamedCells DEF WholeState
  <1> HIDE DEF N
  <1>7. CASE ~stays
    <2>1. \A q \in RowsIn(t.places) : ~SameRow(q, r)
      BY <1>1
    <2>2. x = TourComesIn(t, r, N)
      BY <1>3, <1>7, <1>9 DEF TourComesIn
    <2>3. /\ Whole(x.places) /\ x.shields = t.shields
          /\ RowsIn(x.places) = RowsIn(t.places) \union {r}
          /\ x.taken = TakenAnew(t.taken, r, N)
      <3>1. WholeState(t)
        BY <1>1
      <3>2. /\ Whole(x.places) /\ x.shields = t.shields
            /\ x.taken = TakenAnew(t.taken, r, N)
            /\ RowsIn(x.places) = RowsIn(t.places) \union {r}
        BY ONLY <1>10, <2>1, <2>2, <3>1, r \in DataRow, r.kind \in TourKind, TourInserted
      <3> QED
        BY <3>2
    <2>4. x \in StateType /\ Tidy(x)
      <3>1. s \in TidyState
        BY DEF WholeState, TidyState
      <3> QED
        BY <3>1, TourRead DEF TidyState
    <2>5. WholeState(x)
      BY <2>3, <2>4 DEF WholeState
    <2>6. RowsIn(x.places) = Others(s.places, r) \union {r} /\ x.shields = s.shields \union Shields(r)
      BY <1>1, <1>4, <2>3 DEF Others
    <2>7. TakenStep(s, pri, r, x)
      <3>1. r \in x.places /\ r.kind \in TakerKind
        BY <2>3 DEF RowsIn, TakerKind
      <3> QED
        BY <1>1, <1>9, <2>3, <3>1 DEF TakenStep
    <2> QED
      BY <1>5, <1>7, <2>5, <2>6, <2>7, StepIn
  <1>8. CASE stays
    <2>1. x = t /\ RowsIn(x.places) = Others(s.places, r) /\ x.shields = s.shields \union Shields(r)
      BY <1>1, <1>3, <1>4, <1>8 DEF Others
    <2> QED
      BY <1>1, <1>6, <1>8, <2>1, StepOut
  <1> QED
    BY <1>7, <1>8

\* A ticket for fun has its id alone as the key.
LEMMA FunStep ==
    ASSUME NEW s, WholeState(s), NEW r \in DataRow, r.kind = "fun", NEW pri,
           NEW x, x = ReadFun(s, r)
    PROVE  RowStep(s, pri, r, x)
  <1>0. r.kind \notin VarKind \union TourKind \union {"hotel", "city", "ticket", "tour"} /\ r.refer = None
    <2>1. r.kind \notin VarKind \union TourKind \union {"hotel", "city", "ticket", "tour"}
      BY DEF VarKind, TourKind
    <2> QED
      BY <2>1, RowName
  <1>1. ComesIn(r) <=> r.on
    BY <1>0 DEF ComesIn, Lands
  <1> DEFINE P == (s.places \ At(s, "fun", r.id)) \union (IF r.on THEN {r} ELSE {})
  <1>2. x.places = P /\ x.shields = s.shields /\ x.taken = s.taken
    <2>1. s \in StateType /\ x = [s EXCEPT !.places = P]
      BY DEF WholeState, ReadFun
    <2> HIDE DEF P
    <2> QED
      BY <2>1 DEF StateType
  <1>3. Shields(r) = {}
    BY <1>0 DEF Shields
  <1>4. \A q : q \in At(s, "fun", r.id) <=> q \in RowsIn(s.places) /\ SameRow(q, r)
    <2>1. ASSUME NEW q \in At(s, "fun", r.id) PROVE q \in RowsIn(s.places) /\ SameRow(q, r)
      <3>1. q \in s.places /\ getUniqId(q) = r.id /\ r.id = <<r.id[1]>> /\ q \in AnyPlace
        BY AtIs, RowName DEF WholeState, Tidy
      <3>2. q \in DataRow /\ q.id = r.id
        BY <3>1, ShortKey
      <3> QED
        BY <1>0, <3>1, <3>2, SameId DEF RowsIn
    <2>2. ASSUME NEW q \in RowsIn(s.places), SameRow(q, r) PROVE q \in At(s, "fun", r.id)
      <3>1. q \in DataRow /\ q \in s.places /\ q.kind = "fun" /\ q.id = r.id
        BY <2>2 DEF RowsIn, SameRow
      <3>2. MapOf(q) = "fun" /\ getUniqId(q) = r.id
        BY <3>1 DEF MapOf, getUniqId, TourKind, VarKind
      <3> QED
        BY <3>1, <3>2, AtIs
    <2> QED
      BY <2>1, <2>2
  <1>5. x \in StateType /\ Tidy(x)
    <2>1. s \in TidyState
      BY DEF WholeState, TidyState
    <2> QED
      BY <2>1, FunRead DEF TidyState
  <1>6. RowsIn(x.places) = Others(s.places, r) \union (IF r.on THEN {r} ELSE {})
    BY <1>2, <1>4 DEF RowsIn, Others
  <1>7. Whole(x.places)
    <2>1. \A q : q \in x.places \ DataRow <=> q \in s.places \ DataRow
      BY <1>2, <1>4 DEF RowsIn
    <2>2. \A q, p : p \in DataRow /\ p.kind = "fun" => q \notin MadeFor(p)
      BY DEF MadeFor, TourKind
    <2>3. \A p : p \in RowsIn(x.places) /\ p.kind # "fun" <=> p \in RowsIn(s.places) /\ p.kind # "fun"
      <3>1. \A p \in DataRow : p.kind # "fun" => ~SameRow(p, r) /\ p # r
        BY DEF SameRow
      <3> QED
        BY <1>6, <3>1 DEF Others, RowsIn
    <2>4. \A q : q \in x.places \ DataRow <=> \E p \in RowsIn(x.places) : q \in MadeFor(p)
      <3>1. \A q : q \in s.places \ DataRow <=> \E p \in RowsIn(s.places) : q \in MadeFor(p)
        BY DEF WholeState, Whole
      <3>2. RowsIn(x.places) \subseteq DataRow /\ RowsIn(s.places) \subseteq DataRow
        BY DEF RowsIn
      <3>3. \A q : (\E p \in RowsIn(s.places) : q \in MadeFor(p))
                   <=> \E p \in RowsIn(x.places) : q \in MadeFor(p)
        BY <2>2, <2>3, <3>2
      <3> QED
        BY <2>1, <3>1, <3>3
    <2> QED
      BY <2>4 DEF Whole
  <1>8. WholeState(x) /\ x.shields = s.shields \union Shields(r)
    BY <1>2, <1>3, <1>5, <1>7 DEF WholeState
  <1>11. TakenStep(s, pri, r, x)
    BY <1>0, <1>2 DEF TakenStep, TakerKind
  <1>9. CASE r.on
    <2>1. RowsIn(x.places) = Others(s.places, r) \union {r}
      BY <1>6, <1>9
    <2> QED
      BY <1>1, <1>8, <1>9, <1>11, <2>1, StepIn
  <1>10. CASE ~r.on
    <2>1. RowsIn(x.places) = Others(s.places, r)
      BY <1>6, <1>10
    <2> QED
      BY <1>1, <1>2, <1>8, <1>10, <2>1, StepOut
  <1> QED
    BY <1>9, <1>10

LEMMA RowSteps ==
    ASSUME NEW s, WholeState(s), NEW r \in DataRow, NEW pri \in Seen, NEW x, x = ReadRow(s, pri, r)
    PROVE  RowStep(s, pri, r, x)
  <1>1. CASE r.kind \in VarKind
    <2>1. x = ReadVarPlace(s, r)
      BY <1>1 DEF ReadRow, VarKind, TourKind
    <2> QED
      BY <1>1, <2>1, VarPlaceStep
  <1>2. CASE r.kind \in TourKind
    <2>1. x = ReadTour(s, pri, r)
      BY <1>2 DEF ReadRow, VarKind, TourKind
    <2> QED
      BY <1>2, <2>1, TourStep
  <1>3. CASE r.kind = "hotel"
    <2>1. x = ReadHotel(s, pri, r)
      BY <1>3 DEF ReadRow, VarKind, TourKind
    <2> QED
      BY <1>3, <2>1, HotelStep
  <1>4. CASE r.kind = "city"
    <2>1. x = ReadCity(s, r)
      BY <1>4 DEF ReadRow, VarKind, TourKind
    <2> QED
      BY <1>4, <2>1, CityStep
  <1>5. CASE r.kind = "fun"
    <2>1. x = ReadFun(s, r)
      BY <1>5 DEF ReadRow, VarKind, TourKind
    <2> QED
      BY <1>5, <2>1, FunStep
  <1> QED
    BY <1>1, <1>2, <1>3, <1>4, <1>5, RowAssumption DEF Kind

-----------------------------------------------------------------------------
(* Many rows, one by one. *)

\* Every row makes its step.
RowByRowStep(pri, rows, A) ==
    /\ \A k \in 1..Len(rows) : RowStep(A[k - 1], pri, rows[k], A[k])
    /\ \A k \in 0..Len(rows) : WholeState(A[k])

LEMMA StepByStep ==
    ASSUME NEW s, WholeState(s), NEW rows \in Seq(DataRow), NEW pri \in Seen,
           NEW A, RowByRow(s, pri, rows, A)
    PROVE  RowByRowStep(pri, rows, A)
  <1> DEFINE n == Len(rows)
             item(k) == rows[k]
             I == {k \in 0..n : WholeState(A[k])}
  <1>1. n \in Nat /\ \A k \in 1..n : item(k) \in DataRow
    OBVIOUS
  <1>2. A[0] = s /\ \A k \in 1..n : A[k] = ReadRow(A[k - 1], pri, item(k))
    BY DEF RowByRow
  <1> HIDE DEF n, item
  <1>3. ASSUME NEW k \in 1..n, WholeState(A[k - 1])
        PROVE  RowStep(A[k - 1], pri, item(k), A[k])
    BY <1>1, <1>2, <1>3, RowSteps
  <1>4. 0 \in I
    BY <1>1, <1>2
  <1>5. ASSUME NEW k \in 0..n, k # 0, k - 1 \in I PROVE k \in I
    <2>1. k \in 1..n /\ WholeState(A[k - 1])
      BY <1>1, <1>5
    <2> QED
      BY <1>3, <2>1 DEF RowStep
  <1> HIDE DEF I
  <1>6. \A k \in 0..n : k \in I
    BY <1>1, <1>4, <1>5, Upwards
  <1>7. \A k \in 0..n : WholeState(A[k])
    BY <1>6 DEF I
  <1>8. ASSUME NEW k \in 1..n PROVE RowStep(A[k - 1], pri, item(k), A[k])
    <2>1. k - 1 \in 0..n
      BY <1>1
    <2> QED
      BY <1>3, <1>7, <2>1
  <1> QED
    BY <1>7, <1>8 DEF RowByRowStep, n, item

\* Other rows leave a row alone.
LEMMA RowsKeep ==
    ASSUME NEW rows \in Seq(DataRow), NEW pri, NEW A, RowByRowStep(pri, rows, A), NEW z \in DataRow,
           NEW j \in 0..Len(rows), NEW m \in j..Len(rows),
           \A k \in (j + 1)..m : ~SameRow(rows[k], z)
    PROVE  \A q \in DataRow : SameRow(q, z) => (q \in A[m].places <=> q \in A[j].places)
  <1> DEFINE n == Len(rows)
             item(k) == rows[k]
  <1>1. n \in Nat /\ j \in 0..n /\ m \in j..n /\ j \in Nat /\ m \in Nat
    OBVIOUS
  <1>2. \A k \in 1..n : RowStep(A[k - 1], pri, item(k), A[k])
    BY DEF RowByRowStep
  <1>3. \A k \in (j + 1)..m : ~SameRow(item(k), z)
    OBVIOUS
  <1> HIDE DEF n, item
  <1> SUFFICES ASSUME NEW q \in DataRow, SameRow(q, z)
               PROVE  q \in A[m].places <=> q \in A[j].places
    OBVIOUS
  <1> DEFINE I == {k \in j..m : q \in A[k].places <=> q \in A[j].places}
  <1>4. j \in I
    BY <1>1
  <1>5. ASSUME NEW k \in j..m, k # j, k - 1 \in I PROVE k \in I
    <2>1. k \in 1..n /\ k \in (j + 1)..m
      BY <1>1, <1>5
    <2>2. RowStep(A[k - 1], pri, item(k), A[k]) /\ ~SameRow(item(k), z)
      BY <1>2, <1>3, <2>1
    <2>3. ~SameRow(q, item(k))
      BY <2>2 DEF SameRow
    <2>4. q \in A[k].places <=> q \in A[k - 1].places
      BY <2>2, <2>3 DEF RowStep
    <2> QED
      BY <1>5, <2>4
  <1> HIDE DEF I
  <1>6. \A k \in j..m : k \in I
    BY <1>1, <1>4, <1>5, Upwards
  <1>7. m \in I
    BY <1>1, <1>6
  <1> QED
    BY <1>7 DEF I

\* Shields are never taken back.
LEMMA RowsShield ==
    ASSUME NEW rows \in Seq(DataRow), NEW pri, NEW A, RowByRowStep(pri, rows, A),
           NEW j \in 0..Len(rows), NEW m \in j..Len(rows)
    PROVE  A[j].shields \subseteq A[m].shields
  <1> DEFINE n == Len(rows)
             item(k) == rows[k]
             I == {k \in j..m : A[j].shields \subseteq A[k].shields}
  <1>1. n \in Nat /\ j \in 0..n /\ m \in j..n /\ j \in Nat /\ m \in Nat
    OBVIOUS
  <1>2. \A k \in 1..n : A[k].shields = A[k - 1].shields \union Shields(item(k))
    BY DEF RowByRowStep, RowStep
  <1> HIDE DEF n, item
  <1>4. j \in I
    BY <1>1
  <1>5. ASSUME NEW k \in j..m, k # j, k - 1 \in I PROVE k \in I
    <2>1. k \in 1..n
      BY <1>1, <1>5
    <2> QED
      BY <1>2, <1>5, <2>1
  <1> HIDE DEF I
  <1>6. \A k \in j..m : k \in I
    BY <1>1, <1>4, <1>5, Upwards
  <1>7. m \in I
    BY <1>1, <1>6
  <1> QED
    BY <1>7 DEF I

\* The last of the first m rows that is the row z, in some form.
LastAt(rows, z, m, j) ==
    j \in 1..m /\ SameRow(rows[j], z) /\ \A k \in (j + 1)..m : ~SameRow(rows[k], z)

LEMMA SomeIsLast ==
    ASSUME NEW rows, NEW z, NEW m \in Nat, NEW h \in 1..m, SameRow(rows[h], z)
    PROVE  \E j : LastAt(rows, z, m, j)
  <1> DEFINE H == {k \in 1..m : SameRow(rows[k], z)}
  <1>1. H \in SUBSET (1..m) /\ H # {}
    OBVIOUS
  <1>2. PICK j \in H : \A k \in H : k <= j
    <2> HIDE DEF H
    <2> QED
      BY <1>1, GreatestNumber
  <1>3. \A k \in (j + 1)..m : k \in 1..m /\ ~(k <= j)
    OBVIOUS
  <1>4. LastAt(rows, z, m, j)
    BY <1>2, <1>3 DEF LastAt
  <1> QED
    BY <1>4

\* The last form that has been read is the one that is there, if any.
LEMMA AfterLast ==
    ASSUME NEW rows \in Seq(DataRow), NEW pri, NEW A, RowByRowStep(pri, rows, A), NEW z \in DataRow,
           NEW m \in 0..Len(rows), NEW j, LastAt(rows, z, m, j)
    PROVE  /\ \A q \in DataRow : SameRow(q, z) /\ q \in A[m].places =>
                  (q = rows[j] /\ ComesIn(q)) \/ q.kind = "city"
           /\ ComesIn(rows[j]) =>
                  \/ rows[j] \in A[m].places
                  \/ rows[j].kind = "ticket" /\ NamedBy(A[j - 1], pri, rows[j]) = {}
           /\ Shields(rows[j]) \subseteq A[m].shields
  <1>1. /\ Len(rows) \in Nat /\ j \in 1..Len(rows) /\ j \in 0..Len(rows) /\ m \in j..Len(rows)
        /\ SameRow(rows[j], z) /\ rows[j] \in DataRow
        /\ \A k \in (j + 1)..m : ~SameRow(rows[k], z)
    BY DEF LastAt
  <1>2. RowStep(A[j - 1], pri, rows[j], A[j])
    BY <1>1 DEF RowByRowStep
  <1>3. \A q \in DataRow : SameRow(q, z) => (q \in A[m].places <=> q \in A[j].places)
    BY <1>1, RowsKeep
  <1> DEFINE r == rows[j]
  <1>4. r \in DataRow /\ SameRow(r, z) /\ RowStep(A[j - 1], pri, r, A[j])
    BY <1>1, <1>2
  <1> HIDE DEF r
  <1>5. ASSUME NEW q \in DataRow, SameRow(q, z), q \in A[m].places
        PROVE  (q = r /\ ComesIn(q)) \/ q.kind = "city"
    <2>1. SameRow(q, r) /\ q \in A[j].places
      BY <1>3, <1>4, <1>5 DEF SameRow
    <2> QED
      BY <1>4, <2>1 DEF RowStep, SameRow
  <1>6. ComesIn(r) => r \in A[m].places \/ (r.kind = "ticket" /\ NamedBy(A[j - 1], pri, r) = {})
    BY <1>3, <1>4 DEF RowStep
  <1>7. Shields(r) \subseteq A[m].shields
    <2>1. Shields(r) \subseteq A[j].shields
      BY <1>4 DEF RowStep
    <2>2. A[j].shields \subseteq A[m].shields
      BY <1>1, RowsShield
    <2> QED
      BY <2>1, <2>2
  <1> QED
    BY <1>5, <1>6, <1>7 DEF r

\* An object has of the row z what the rows D say.
Settled(o, D, z) ==
    /\ \A r \in D : SameRow(r, z) /\ ComesIn(r) /\ r.kind # "ticket" => r \in o.places
    /\ \A q \in DataRow : SameRow(q, z) /\ q \in o.places /\ q.kind # "city" => q \in D /\ ComesIn(q)
    /\ \A r \in D : SameRow(r, z) => Shields(r) \subseteq o.shields

\* The last form settles the row.
LEMMA LastSettles ==
    ASSUME NEW rows \in Seq(DataRow), NEW pri, NEW A, RowByRowStep(pri, rows, A), NEW z \in DataRow,
           NEW m \in 0..Len(rows), NEW j, LastAt(rows, z, m, j),
           NEW D \in SUBSET DataRow, UniqueRows(D), ToSet(rows) \subseteq D
    PROVE  Settled(A[m], D, z)
  <1> DEFINE r == rows[j]
  <1>1. r \in D /\ SameRow(r, z)
    <2>1. j \in DOMAIN rows
      BY DEF LastAt
    <2> QED
      BY <2>1 DEF LastAt, ToSet
  <1>2. /\ \A q \in DataRow : SameRow(q, z) /\ q \in A[m].places => (q = r /\ ComesIn(q)) \/ q.kind = "city"
        /\ ComesIn(r) /\ r.kind # "ticket" => r \in A[m].places
        /\ Shields(r) \subseteq A[m].shields
    BY AfterLast
  <1> HIDE DEF r
  <1>3. \A q \in D : SameRow(q, z) => q = r
    <2> SUFFICES ASSUME NEW q \in D, SameRow(q, z) PROVE q = r
      OBVIOUS
    <2>1. SameRow(q, r)
      BY <1>1 DEF SameRow
    <2> QED
      BY <1>1, <2>1 DEF UniqueRows
  <1> QED
    BY <1>1, <1>2, <1>3 DEF Settled

\* What Update and the loads do to a row.
LEMMA RowsSettle ==
    ASSUME NEW s, WholeState(s), NEW rows \in Seq(DataRow), NEW pri \in Seen, NEW D \in SUBSET DataRow,
           UniqueRows(D), ToSet(rows) \subseteq D, NEW x, x = ReadRows(s, pri, rows)
    PROVE  /\ WholeState(x)
           /\ \A z \in DataRow :
                 Settled(s, D, z) \/ (\E r \in ToSet(rows) : SameRow(r, z)) => Settled(x, D, z)
  <1> DEFINE n == Len(rows)
  <1>0. n \in Nat /\ 0 \in 0..n /\ n \in 0..n /\ DOMAIN rows = 1..n
    OBVIOUS
  <1>1. PICK A : RowByRow(s, pri, rows, A) /\ x = A[n]
    <2>1. s \in TidyState
      BY DEF WholeState, TidyState
    <2> QED
      BY <2>1, RowsSteps
  <1>2. RowByRowStep(pri, rows, A) /\ A[0] = s
    BY <1>1, StepByStep DEF RowByRow
  <1>3. WholeState(x)
    BY <1>0, <1>1, <1>2 DEF RowByRowStep
  <1>4. ASSUME NEW z \in DataRow, NEW h \in 1..n, SameRow(rows[h], z) PROVE Settled(x, D, z)
    <2>1. PICK j : LastAt(rows, z, n, j)
      BY <1>0, <1>4, SomeIsLast
    <2> QED
      BY <1>0, <1>1, <1>2, <2>1, LastSettles
  <1>5. ASSUME NEW z \in DataRow, Settled(s, D, z), \A h \in 1..n : ~SameRow(rows[h], z)
        PROVE  Settled(x, D, z)
    <2>1. \A q \in DataRow : SameRow(q, z) => (q \in x.places <=> q \in s.places)
      <3>1. \A k \in (0 + 1)..n : ~SameRow(rows[k], z)
        BY <1>5
      <3>2. n \in 0..Len(rows) /\ 0 \in 0..Len(rows)
        BY <1>0
      <3>3. \A q \in DataRow : SameRow(q, z) => (q \in A[n].places <=> q \in A[0].places)
        BY <1>2, <3>1, <3>2, RowsKeep
      <3> QED
        BY <1>1, <1>2, <3>3
    <2>2. s.shields \subseteq x.shields
      <3>1. A[0].shields \subseteq A[n].shields
        BY <1>0, <1>2, RowsShield
      <3> QED
        BY <1>1, <1>2, <3>1
    <2> QED
      BY <1>5, <2>1, <2>2 DEF Settled
  <1>6. \A r \in ToSet(rows) : \E h \in 1..n : r = rows[h]
    BY <1>0 DEF ToSet
  <1> HIDE DEF n
  <1> QED
    BY <1>3, <1>4, <1>5, <1>6

-----------------------------------------------------------------------------
(* A load. *)

LEMMA NothingWhole ==
    /\ Whole(Empty.places)
    /\ \A C \in SUBSET Spot : \A W \in SUBSET GridKey :
          /\ WholeState(With(Empty, <<C, W>>))
          /\ With(Empty, <<C, W>>).places = {} /\ With(Empty, <<C, W>>).shields = {}
  <1>1. Whole({})
    BY DEF Whole, RowsIn
  <1>2. Empty.places = {} /\ Empty.shields = {}
    BY DEF Empty
  <1>3. ASSUME NEW C \in SUBSET Spot, NEW W \in SUBSET GridKey
        PROVE  /\ WholeState(With(Empty, <<C, W>>))
               /\ With(Empty, <<C, W>>).places = {} /\ With(Empty, <<C, W>>).shields = {}
    <2>1. With(Empty, <<C, W>>) \in TidyState
      BY EmptyTidy
    <2>2. With(Empty, <<C, W>>).places = {} /\ With(Empty, <<C, W>>).shields = {}
      BY <1>2 DEF With
    <2> QED
      BY <1>1, <2>1, <2>2 DEF WholeState, TidyState
  <1> QED
    BY <1>1, <1>2, <1>3

\* A load settles every row.
LEMMA LoadSettles ==
    ASSUME NEW D \in SUBSET DataRow, UniqueRows(D), NEW pri \in Seen,
           NEW C \in SUBSET Spot, NEW W \in SUBSET GridKey,
           NEW x, x = PrivateLoad(D, pri, <<C, W>>)
    PROVE  WholeState(x) /\ \A z \in DataRow : Settled(x, D, z)
  <1> DEFINE s == With(Empty, <<C, W>>)
  <1>1. PICK rows : Stage(rows, D, 7) /\ ToSet(rows) = D /\ x = ReadRows(s, pri, rows)
    BY LoadOf
  <1>2. rows \in Seq(DataRow)
    BY <1>1 DEF Stage
  <1>3. WholeState(s) /\ s.places = {}
    BY NothingWhole
  <1> HIDE DEF s
  <1>4. /\ WholeState(x)
        /\ \A z \in DataRow :
              Settled(s, D, z) \/ (\E r \in ToSet(rows) : SameRow(r, z)) => Settled(x, D, z)
    BY <1>1, <1>2, <1>3, RowsSettle
  <1>5. ASSUME NEW z \in DataRow, \A r \in D : ~SameRow(r, z) PROVE Settled(s, D, z)
    BY <1>3, <1>5 DEF Settled
  <1> QED
    BY <1>1, <1>4, <1>5

\* What a load has comes from rows that are not skipped.
LEMMA LoadOrigin ==
    ASSUME NEW rows \in Seq(DataRow), NEW pri, NEW A, RowByRowStep(pri, rows, A),
           A[0].places = {}, A[0].shields = {}, NEW m \in 0..Len(rows)
    PROVE  /\ \A q \in RowsIn(A[m].places) : q \in ToSet(rows) /\ ComesIn(q)
           /\ \A y \in A[m].shields : \E r \in ToSet(rows) : y \in Shields(r)
  <1> DEFINE n == Len(rows)
             item(k) == rows[k]
             D == ToSet(rows)
             From0(o) == /\ \A q \in RowsIn(o.places) : q \in D /\ ComesIn(q)
                         /\ \A y \in o.shields : \E r \in D : y \in Shields(r)
             I == {k \in 0..n : From0(A[k])}
  <1>1. n \in Nat /\ m \in 0..n /\ \A k \in 1..n : item(k) \in DataRow /\ item(k) \in D
    BY DEF ToSet
  <1>2. \A k \in 1..n : RowStep(A[k - 1], pri, item(k), A[k])
    BY DEF RowByRowStep
  <1> HIDE DEF n, item, D
  <1>3. 0 \in I
    BY <1>1 DEF RowsIn
  <1>4. ASSUME NEW k \in 0..n, k # 0, k - 1 \in I PROVE k \in I
    <2>1. k \in 1..n
      BY <1>1, <1>4
    <2>2. From0(A[k - 1])
      BY <1>4
    <2> DEFINE r == item(k)
               s == A[k - 1]
    <2>3. r \in D /\ RowStep(s, pri, r, A[k])
      BY <1>1, <1>2, <2>1
    <2> HIDE DEF r, s
    <2>4. ASSUME NEW q \in RowsIn(A[k].places) PROVE q \in D /\ ComesIn(q)
      <3>1. q \in DataRow /\ q \in A[k].places
        BY DEF RowsIn
      <3>2. q \in s.places => q \in D /\ ComesIn(q)
        BY <2>2, <3>1 DEF RowsIn, s
      <3> QED
        BY <2>3, <3>1, <3>2 DEF RowStep
    <2>5. \A y \in A[k].shields : \E w \in D : y \in Shields(w)
      BY <2>2, <2>3 DEF RowStep, s
    <2> QED
      BY <2>4, <2>5
  <1> HIDE DEF I
  <1>5. \A k \in 0..n : k \in I
    BY <1>1, <1>3, <1>4, Upwards
  <1>6. m \in I
    BY <1>1, <1>5
  <1> QED
    BY <1>6 DEF I, D

LEMMA LoadOnly ==
    ASSUME NEW D \in SUBSET DataRow, NEW pri \in Seen, NEW C \in SUBSET Spot, NEW W \in SUBSET GridKey,
           NEW x, x = PrivateLoad(D, pri, <<C, W>>)
    PROVE  /\ \A q \in RowsIn(x.places) : q \in D /\ ComesIn(q)
           /\ \A y \in x.shields : \E r \in D : y \in Shields(r)
  <1> DEFINE s == With(Empty, <<C, W>>)
  <1>1. PICK rows : Stage(rows, D, 7) /\ ToSet(rows) = D /\ x = ReadRows(s, pri, rows)
    BY LoadOf
  <1>2. rows \in Seq(DataRow)
    BY <1>1 DEF Stage
  <1>3. WholeState(s) /\ s.places = {} /\ s.shields = {} /\ s \in TidyState
    BY NothingWhole DEF WholeState, TidyState
  <1> HIDE DEF s
  <1>4. PICK A : RowByRow(s, pri, rows, A) /\ x = A[Len(rows)]
    BY <1>1, <1>2, <1>3, RowsSteps
  <1>5. RowByRowStep(pri, rows, A) /\ A[0] = s /\ Len(rows) \in 0..Len(rows)
    BY <1>2, <1>3, <1>4, StepByStep DEF RowByRow
  <1> QED
    BY <1>1, <1>2, <1>3, <1>4, <1>5, LoadOrigin

\* A load has read the rows of a table before the next one begins.
LEMMA LoadedBefore ==
    ASSUME NEW D \in SUBSET DataRow, UniqueRows(D), NEW rows, Stage(rows, D, 7), ToSet(rows) = D,
           NEW pri, NEW A, RowByRowStep(pri, rows, A), NEW j \in 1..Len(rows),
           NEW q \in D, Rank(q) < Rank(rows[j])
    PROVE  /\ ComesIn(q) /\ q.kind # "ticket" => q \in A[j - 1].places
           /\ Shields(q) \subseteq A[j - 1].shields
  <1> DEFINE n == Len(rows)
             m == j - 1
  <1>1. rows \in Seq(DataRow) /\ ByTable(rows)
    BY DEF Stage
  <1>2. /\ n \in Nat /\ DOMAIN rows = 1..n /\ m \in 0..n /\ m \in Nat /\ j \in 1..n /\ j = m + 1
        /\ \A k \in 1..n : rows[k] \in D
    BY <1>1 DEF ToSet
  <1>3. PICK k \in 1..n : rows[k] = q
    BY <1>2 DEF ToSet
  <1>4. k \in 1..m
    <2>1. Rank(q) \in Int /\ Rank(rows[j]) \in Int
      BY <1>2, RankIs
    <2>2. ~(j < k)
      BY <1>1, <1>2, <1>3, <2>1 DEF ByTable
    <2>3. j # k
      BY <1>3, <2>1
    <2> HIDE DEF n, m
    <2> QED
      BY <1>2, <2>2, <2>3
  <1>5. PICK l : LastAt(rows, q, m, l)
    <2> HIDE DEF m
    <2> QED
      BY <1>2, <1>3, <1>4, SomeIsLast DEF SameRow
  <1>6. rows[l] = q
    <2>1. l \in 1..n /\ SameRow(rows[l], q)
      BY <1>2, <1>5 DEF LastAt
    <2> QED
      BY <1>2, <2>1 DEF UniqueRows
  <1>7. /\ ComesIn(rows[l]) =>
              \/ rows[l] \in A[m].places
              \/ rows[l].kind = "ticket" /\ NamedBy(A[l - 1], pri, rows[l]) = {}
        /\ Shields(rows[l]) \subseteq A[m].shields
    BY <1>1, <1>2, <1>5, AfterLast
  <1> QED
    BY <1>6, <1>7

LEMMA NotFound ==
    ASSUME NEW s, NEW id, NEW pt, pt # None, GetLYPlace(s, id, pt) = {},
           NEW q \in s.places, MapOf(q) \in PlaceMap
    PROVE  getUniqId(q) \notin {id, id \o <<pt>>}
  <1>1. FoundAt(s, id, id \o <<pt>>) = {}
    BY Lookup
  <1>2. First(PlaceMaps(s, id)) = {} /\ First(PlaceMaps(s, id \o <<pt>>)) = {}
    BY <1>1 DEF FoundAt
  <1> QED
    BY <1>2, FirstHas

\* A ticket that a load skips has its view shielded or not public, and no view
\* among the rows: the views have been read before it.
LEMMA TicketSkipped ==
    ASSUME NEW D \in SUBSET DataRow, UniqueRows(D),
           NEW C \in SUBSET Spot, NEW W \in SUBSET GridKey,
           NEW x, x = PrivateLoad(D, None, <<C, W>>),
           NEW p \in D, p.kind = "ticket", ComesIn(p), p \notin x.places
    PROVE  /\ <<p.pt, p.ref>> \in x.shields \/ p.ref \notin Base
           /\ \A v \in D : v.kind = "view" /\ ComesIn(v) =>
                 getUniqId(v) \notin {p.ref, p.ref \o <<p.pt>>}
  <1> DEFINE s == With(Empty, <<C, W>>)
  <1>1. PICK rows : Stage(rows, D, 7) /\ ToSet(rows) = D /\ x = ReadRows(s, None, rows)
    BY LoadOf
  <1>2. rows \in Seq(DataRow) /\ ByTable(rows) /\ p \in DataRow
    BY <1>1 DEF Stage
  <1>3. WholeState(s) /\ s \in TidyState /\ None \in Seen
    BY NothingWhole DEF WholeState, TidyState, Seen
  <1> HIDE DEF s
  <1> DEFINE n == Len(rows)
  <1>4. n \in Nat /\ DOMAIN rows = 1..n /\ \A k \in 1..n : rows[k] \in D
    BY <1>1, <1>2 DEF ToSet
  <1>5. PICK A : RowByRow(s, None, rows, A) /\ x = A[n]
    BY <1>1, <1>2, <1>3, RowsSteps
  <1>6. RowByRowStep(None, rows, A)
    BY <1>2, <1>3, <1>5, StepByStep
  <1>7. \A q \in D : \E k \in 1..n : rows[k] = q
    BY <1>1, <1>4 DEF ToSet
  <1>8. \A q \in D : \A m \in 0..n : \A k \in 1..n : LastAt(rows, q, m, k) => rows[k] = q
    BY <1>4 DEF LastAt, UniqueRows
  <1>9. PICK j : LastAt(rows, p, n, j)
    <2>1. PICK k \in 1..n : rows[k] = p
      BY <1>7
    <2> QED
      BY <1>4, <2>1, SomeIsLast DEF SameRow
  <1>10. j \in 1..n /\ rows[j] = p /\ n \in 0..n /\ j - 1 \in 0..n /\ j - 1 \in Nat
    BY <1>4, <1>8, <1>9 DEF LastAt
  <1>11. NamedBy(A[j - 1], None, p) = {}
    <2>1. ComesIn(rows[j]) =>
             \/ rows[j] \in A[n].places
             \/ rows[j].kind = "ticket" /\ NamedBy(A[j - 1], None, rows[j]) = {}
      BY <1>2, <1>6, <1>9, <1>10, AfterLast
    <2> QED
      BY <1>5, <1>10, <2>1
  <1> DEFINE u == A[j - 1]
             t == DelLYPlace(u, p.id, p.pt)
  <1>12. WholeState(u)
    BY <1>6, <1>10 DEF RowByRowStep
  <1>13. u.shields \subseteq x.shields
    <2>1. j - 1 \in 0..Len(rows) /\ n \in (j - 1)..Len(rows)
      BY <1>4, <1>10
    <2> QED
      BY <1>2, <1>5, <1>6, <2>1, RowsShield
  <1>14. /\ t.shields = u.shields
         /\ RowsIn(t.places) = {q \in RowsIn(u.places) : ~SameRow(q, p)}
    <2>1. WholeState(u) /\ p \in DataRow /\ p.kind # "fun"
      BY <1>2, <1>12
    <2> HIDE DEF u
    <2> QED
      BY <2>1, RowDeleted
  <1>15. GetLYPlace(t, p.ref, p.pt) = {} /\ Shown(t, p.ref, p.pt) = {}
    <2>1. p.ref # None /\ p.kind # "hotel"
      BY <1>2, RefAssumption
    <2>2. First(<<GetLYPlace(t, p.ref, p.pt), Shown(t, p.ref, p.pt)>>) = {}
      BY <1>11, <2>1 DEF NamedBy, Named
    <2> QED
      BY <2>2, FirstOfTwo
  <1>16. \A q \in D : q.kind = "view" /\ ComesIn(q) => q \in u.places
    <2> SUFFICES ASSUME NEW q \in D, q.kind = "view", ComesIn(q) PROVE q \in u.places
      OBVIOUS
    <2>1. Rank(q) = 3 /\ Rank(p) = 6
      BY DEF Rank, TourKind
    <2>2. Rank(q) < Rank(rows[j])
      BY <1>10, <2>1
    <2> QED
      BY <1>1, <1>6, <1>10, <2>2, LoadedBefore
  <1> HIDE DEF t, u
  <1>17. <<p.pt, p.ref>> \in x.shields \/ p.ref \notin Base
    <2> SUFFICES ASSUME <<p.pt, p.ref>> \notin t.shields, p.ref \in Base PROVE FALSE
      BY <1>13, <1>14
    <2>1. PublicView(p.ref) # {}
      BY DEF PublicView
    <2>2. Shown(t, p.ref, p.pt) = First(<<GetLYPlace(t, p.ref, p.pt), PublicView(p.ref)>>)
      BY DEF Shown
    <2> QED
      BY <1>15, <2>1, <2>2, FirstOfTwo
  <1>18. ASSUME NEW v \in D, v.kind = "view", ComesIn(v)
         PROVE  getUniqId(v) \notin {p.ref, p.ref \o <<p.pt>>}
    <2>1. v \in t.places
      <3>1. v \in RowsIn(u.places) /\ ~SameRow(v, p)
        BY <1>16, <1>18 DEF RowsIn, SameRow
      <3> QED
        BY <1>14, <3>1 DEF RowsIn
    <2>2. MapOf(v) \in PlaceMap /\ p.pt # None
      BY <1>2, <1>18, RowName DEF MapOf, PlaceMap, TourKind
    <2> QED
      BY <1>15, <2>1, <2>2, NotFound
  <1> QED
    BY <1>17, <1>18

\* The places that an id of one string finds are rows with that id.
LEMMA KeyRow ==
    ASSUME NEW p \in AnyPlace, NEW x, x # "coreHotel", NEW pt, pt # "gather",
           getUniqId(p) \in {<<x>>, <<x>> \o <<pt>>}
    PROVE  p \in DataRow /\ p.id = <<x>>
  <1>1. <<x>> \o <<pt>> = <<x, pt>>
    BY Pair
  <1>2. CASE getUniqId(p) = <<x>>
    BY <1>2, ShortKey
  <1>3. CASE getUniqId(p) = <<x, pt>>
    <2>1. p \notin Cores /\ p \notin Locals
      BY <1>3, CoreName, LocalName, LongKeys DEF Cores, Locals
    <2>2. p \in DataRow
      BY <2>1 DEF AnyPlace
    <2>3. p.id[1] = x /\ p.id = <<p.id[1]>>
      BY <1>3, <2>2, RowName, LongKeys
    <2> QED
      BY <2>2, <2>3
  <1> QED
    BY <1>1, <1>2, <1>3

\* What a ticket finds among the places is a view of the database.
LEMMA ViewFound ==
    ASSUME NEW o, o.places \subseteq AnyPlace, NEW p \in DataRow, p.kind = "ticket",
           GetLYPlace(o, p.ref, p.pt) # {}
    PROVE  \E v \in RowsIn(o.places) : v.kind = "view" /\ getUniqId(v) \in {p.ref, p.ref \o <<p.pt>>}
  <1> DEFINE long == p.ref \o <<p.pt>>
             x == p.ref[1]
  <1>1. /\ p.ref = <<x>> /\ x # "coreHotel" /\ p.pt # None /\ p.pt # "gather"
        /\ \A q \in DataRow : q.id = p.ref => q.kind = "view"
    BY RefAssumption, RowName DEF TourKind, RefKind
  <1>2. FoundAt(o, p.ref, long) # {}
    BY <1>1, Lookup
  <1>3. PICK v \in o.places : getUniqId(v) \in {p.ref, long}
    <2> HIDE DEF long, x
    <2>1. CASE At(o, "city", p.ref) # {}
      BY <2>1, AtIs
    <2>2. CASE At(o, "tour", p.ref) # {}
      BY <2>2, AtIs
    <2>3. CASE First(PlaceMaps(o, p.ref)) # {}
      BY <2>3, FirstAt
    <2>4. CASE First(PlaceMaps(o, long)) # {}
      BY <2>4, FirstAt
    <2> QED
      BY <1>2, <2>1, <2>2, <2>3, <2>4 DEF FoundAt
  <1>4. v \in DataRow /\ v.id = p.ref
    <2>1. v \in AnyPlace /\ p.pt # "gather" /\ p.ref = <<x>> /\ x # "coreHotel"
          /\ getUniqId(v) \in {<<x>>, <<x>> \o <<p.pt>>}
      BY <1>1, <1>3
    <2> HIDE DEF x, long
    <2> QED
      BY <2>1, KeyRow
  <1> QED
    BY <1>1, <1>3, <1>4 DEF RowsIn

-----------------------------------------------------------------------------
(* A copy has everything. *)

\* A core hotel is there if its city is.
CoresWhole(P) ==
    \A q \in Cores : q \in P <=> \E c \in RowsIn(P) : c.kind = "city" /\ q = CoreOf(c)

LEMMA WholeCores ==
    ASSUME NEW P, Whole(P)
    PROVE  CoresWhole(P)
  <1> SUFFICES ASSUME NEW q \in Cores
               PROVE  q \in P <=> \E c \in RowsIn(P) : c.kind = "city" /\ q = CoreOf(c)
    BY DEF CoresWhole
  <1>1. ASSUME NEW c \in RowsIn(P) PROVE q \in MadeFor(c) <=> c.kind = "city" /\ q = CoreOf(c)
    <2>1. q # LocalOf(c)
      <3>1. c \in DataRow
        BY DEF RowsIn
      <3> QED
        BY <3>1, NoRowIsMade, MadeIds
    <2> QED
      BY <2>1 DEF MadeFor
  <1>2. q \notin DataRow
    BY NoRowIsMade
  <1>3. q \in P \ DataRow <=> \E c \in RowsIn(P) : q \in MadeFor(c)
    BY DEF Whole
  <1> QED
    BY <1>1, <1>2, <1>3

LEMMA CoresCopied ==
    ASSUME NEW o \in TidyObject, NEW t \in CopyOf(o), CoresWhole(t.places), NEW p \in o.places \ Cores
    PROVE  CoresWhole(DoInsert(t, p).places)
  <1> DEFINE u == DoInsert(t, p)
  <1>1. /\ t \in ObjectType /\ Tidy(t) /\ Tidy(o) /\ t.places \subseteq o.places \union Cores
        /\ p \in AnyPlace
    BY DEF CopyOf, TidyObject, Tidy
  <1>2. CASE ~Inserts(t, p)
    BY <1>1, <1>2, InsertedPlaces
  <1>3. CASE Inserts(t, p) /\ p.kind # "city"
    <2>1. u.places = t.places \union {p}
      BY <1>1, <1>3, InsertedPlaces
    <2> HIDE DEF u
    <2>2. \A q \in Cores : q \in u.places <=> q \in t.places
      BY <2>1
    <2>3. \A c : c \in RowsIn(u.places) /\ c.kind = "city" <=> c \in RowsIn(t.places) /\ c.kind = "city"
      BY <1>3, <2>1 DEF RowsIn
    <2> QED
      BY <2>2, <2>3 DEF CoresWhole, u
  <1>4. CASE Inserts(t, p) /\ p.kind = "city"
    <2>1. p \in DataRow
      BY <1>1, <1>4, LocalName DEF AnyPlace, Locals
    <2>2. p \notin t.places
      BY <1>4, AtIs DEF Inserts
    <2>3. At(t, "hotel", coreId(p.id)) = {}
      <3> SUFFICES ASSUME NEW q \in At(t, "hotel", coreId(p.id)) PROVE FALSE
        OBVIOUS
      <3>1. q \in t.places /\ getUniqId(q) = coreId(p.id) /\ q \in AnyPlace
        BY <1>1, AtIs DEF Tidy
      <3>2. q \in Cores
        BY <2>1, <3>1, CoreKey
      <3>3. PICK c \in RowsIn(t.places) : c.kind = "city" /\ q = CoreOf(c)
        BY <3>1, <3>2 DEF CoresWhole
      <3>4. c \in DataRow /\ c \in o.places /\ c \in t.places
        BY <1>1, <3>3, NoRowIsMade DEF RowsIn
      <3>5. c.id = p.id
        <4>1. coreId(c.id) = coreId(p.id)
          BY <3>1, <3>3, <3>4, MadeNames
        <4>2. <<"coreHotel", c.id[1]>> = <<"coreHotel", p.id[1]>>
          BY <2>1, <3>4, <4>1, MadeNames
        <4>3. c.id[1] = p.id[1]
          BY <4>2
        <4> QED
          BY <2>1, <3>4, <4>3, RowName
      <3>6. SameRow(c, p)
        BY <2>1, <3>3, <3>4, <3>5, RowName, SameId DEF VarKind
      <3>7. c = p
        BY <1>1, <2>1, <3>3, <3>4, <3>6, OneForm
      <3> QED
        BY <2>2, <3>4, <3>7
    <2>4. u.places = (t.places \ {}) \union {p, CoreOf(p)}
      BY <1>1, <1>4, <2>3, InsertedPlaces
    <2> HIDE DEF u
    <2>5. RowsIn(u.places) = RowsIn(t.places) \union {p}
      BY <2>1, <2>4, NoRowIsMade DEF RowsIn
    <2>6. \A q \in Cores : q \in u.places <=> q \in t.places \/ q = CoreOf(p)
      BY <2>4
    <2>7. \A q \in Cores : q \in u.places <=>
              \E c \in RowsIn(u.places) : c.kind = "city" /\ q = CoreOf(c)
      BY <1>4, <2>5, <2>6 DEF CoresWhole
    <2> QED
      BY <2>7 DEF CoresWhole, u
  <1> QED
    BY <1>2, <1>3, <1>4

\* The copy of an object is that object.
LEMMA CopyIsWhole ==
    ASSUME NEW o \in TidyObject, Whole(o.places)
    PROVE  /\ CopyData(o).places = o.places /\ CopyData(o).shields = o.shields
           /\ CopyData(o).taken = o.taken
  <1> DEFINE of(k) == SetToSeq(Copied(o, CopyOrder[k]))
             seq == of(1) \o of(2) \o of(3) \o of(4) \o of(5) \o of(6) \o of(7)
             t == CopyAndInsert(Empty, seq)
             u == CopyData(o)
             n == Len(seq)
  <1>0. Tidy(o) /\ o.places \subseteq AnyPlace
    BY DEF TidyObject, Tidy
  <1>1. seq \in Seq(o.places \ Cores) /\ ToSet(seq) = o.places \ Cores
    BY WhatIsCopied
  <1>2. u = [t EXCEPT !.shields = o.shields, !.taken = o.taken]
    BY DEF CopyData
  <1> HIDE DEF of, seq, u
  <1>3. n \in Nat /\ DOMAIN seq = 1..n /\ \A k \in 1..n : seq[k] \in o.places \ Cores
    BY <1>1
  <1>4. Empty \in CopyOf(o)
    BY EmptyTidy DEF CopyOf, Empty
  <1>5. PICK A : PlaceByPlace(o, Empty, seq, A) /\ t = A[n]
    BY <1>1, <1>4, CopySteps
  <1> HIDE DEF t, n
  <1>6. /\ A[0] = Empty
        /\ \A k \in 0..n : A[k] \in CopyOf(o)
        /\ \A k \in 1..n : A[k] = DoInsert(A[k - 1], seq[k])
    BY <1>5 DEF PlaceByPlace, n
  <1>7. /\ u.places = t.places /\ t.places \subseteq o.places \union Cores
        /\ u.shields = o.shields /\ u.taken = o.taken
    <2>1. t \in CopyOf(o)
      BY <1>3, <1>5, <1>6
    <2>2. t \in ObjectType /\ t.places \subseteq o.places \union Cores
      BY <2>1 DEF CopyOf, TidyObject
    <2> QED
      BY <1>2, <2>2 DEF ObjectType
  <1>8. \A p \in o.places \ Cores : p \in t.places
    BY <1>7, CopyHasAll DEF u
  <1>9. CoresWhole(t.places)
    <2> DEFINE I == {k \in 0..n : CoresWhole(A[k].places)}
    <2>1. 0 \in I
      <3>1. CoresWhole(Empty.places)
        BY NothingWhole, WholeCores
      <3> QED
        BY <1>3, <1>6, <3>1
    <2>2. ASSUME NEW k \in 0..n, k # 0, k - 1 \in I PROVE k \in I
      <3>1. k \in 1..n /\ k - 1 \in 0..n /\ CoresWhole(A[k - 1].places)
        BY <1>3, <2>2
      <3>2. A[k] = DoInsert(A[k - 1], seq[k]) /\ A[k - 1] \in CopyOf(o) /\ seq[k] \in o.places \ Cores
        BY <1>3, <1>6, <3>1
      <3> QED
        BY <3>1, <3>2, CoresCopied
    <2> HIDE DEF I
    <2>3. \A k \in 0..n : k \in I
      BY <1>3, <2>1, <2>2, Upwards
    <2>4. n \in I
      BY <1>3, <2>3
    <2> QED
      BY <1>5, <2>4 DEF I
  <1>10. CoresWhole(o.places)
    BY WholeCores
  <1>11. RowsIn(t.places) = RowsIn(o.places)
    BY <1>7, <1>8, NoRowIsMade DEF RowsIn
  <1>12. \A q \in Cores : q \in t.places <=> q \in o.places
    BY <1>9, <1>10, <1>11 DEF CoresWhole
  <1>13. t.places = o.places
    BY <1>7, <1>8, <1>12
  <1> QED
    BY <1>7, <1>13 DEF u

-----------------------------------------------------------------------------
(* The newest object says what the database says. *)

Unread(z) == \E q \in dirty \union missed : SameRow(q, z)

\* What no load and no Update has left out is settled.
SameInv ==
    /\ Whole(shared.places) /\ Whole(next.places)
    /\ dirty \union missed \subseteq DataRow
    /\ pc \in {"idle", "update"} =>
          \A z \in DataRow : Unread(z) \/ Settled(NewestData, db, z)

\* Settled is about the places and the shields alone.
LEMMA SameSettled ==
    ASSUME NEW o, NEW t, t.places = o.places, t.shields = o.shields, NEW D, NEW z, Settled(o, D, z)
    PROVE  Settled(t, D, z)
  BY DEF Settled

\* Only the rows of the database that are the row z matter.
LEMMA SettledElsewhere ==
    ASSUME NEW o, NEW D, NEW E, NEW z, Settled(o, D, z),
           \A q : SameRow(q, z) => (q \in E <=> q \in D)
    PROVE  Settled(o, E, z)
  BY DEF Settled

\* The sequences that an Update may read its rows in.
LEMMA RowsListed ==
    ASSUME NEW rows \in SUBSET DataRow, NEW seq \in SetToSeqs(rows)
    PROVE  seq \in Seq(DataRow) /\ ToSet(seq) = rows
  <1> DEFINE n == Cardinality(rows)
  <1>1. n \in Nat /\ IsFiniteSet(rows)
    BY FinitePlaces, FS_CardinalityType
  <1>2. seq \in [1..n -> rows] /\ \A a, b \in 1..n : a # b => seq[a] # seq[b]
    BY DEF SetToSeqs
  <1>3. seq \in Seq(DataRow)
    BY <1>1, <1>2, SeqOfFunction
  <1>4. Cardinality(1..n) = Cardinality(rows)
    BY <1>1, FS_Interval
  <1> HIDE DEF n
  <1>5. seq \in Injection(1..n, rows)
    BY <1>2 DEF Injection, IsInjective
  <1>6. seq \in Surjection(1..n, rows)
    BY <1>1, <1>4, <1>5, FS_Injection
  <1>7. \A y \in rows : \E k \in 1..n : seq[k] = y
    BY <1>6 DEF Surjection
  <1>8. ToSet(seq) = rows
    BY <1>2, <1>7 DEF ToSet
  <1> QED
    BY <1>3, <1>8

LEMMA SameInvInit == DataInit => SameInv
  BY NothingWhole DEF DataInit, SameInv

LEMMA SameInvStep == DataInv /\ GridInv /\ SameInv /\ [DataNext]_privVars => SameInv'
  <1> SUFFICES ASSUME DataInv, GridInv, SameInv, [DataNext]_privVars PROVE SameInv'
    OBVIOUS
  <1>0. /\ db \in SUBSET DataRow /\ UniqueRows(db)
        /\ fixed \in TidyObject /\ shared \in TidyObject /\ next \in TidyObject
        /\ cells \in SUBSET Spot /\ where \in SUBSET GridKey
        /\ Whole(shared.places) /\ Whole(next.places)
        /\ dirty \union missed \subseteq DataRow
        /\ fixed \in Seen
    BY DEF DataInv, GridInv, SameInv, Seen, TidyObject
  <1>1. ASSUME NEW r \in DataRow, Change(r) \/ Delete(r) PROVE SameInv'
    <2>1. /\ UNCHANGED <<pc, shared, next>>
          /\ \A q : ~SameRow(q, r) => (q \in dirty' \union missed' <=> q \in dirty \union missed)
          /\ dirty' \union missed' \subseteq dirty \union missed \union {r}
          /\ pc \in {"idle", "update"} => r \in dirty' \union missed'
      <3>1. CASE Change(r)
        BY <3>1 DEF Change, objVars, SameRow
      <3>2. CASE Delete(r)
        BY <3>2 DEF Delete, objVars, SameRow
      <3> QED
        BY <1>1, <3>1, <3>2
    <2>2. NewestData' = NewestData
      BY <2>1 DEF NewestData
    <2>3. ASSUME pc \in {"idle", "update"}, NEW z \in DataRow, ~Unread(z)'
          PROVE  Settled(NewestData', db', z)
      <3>1. ~SameRow(r, z)
        BY <2>1, <2>3 DEF Unread
      <3>2. \A q : SameRow(q, z) => ~SameRow(q, r)
        BY <3>1 DEF SameRow
      <3>3. ~Unread(z)
        <4> SUFFICES ASSUME NEW q \in dirty \union missed, SameRow(q, z) PROVE FALSE
          BY DEF Unread
        <4>1. q \in dirty' \union missed'
          BY <2>1, <3>2
        <4> QED
          BY <2>3, <4>1 DEF Unread
      <3>4. Settled(NewestData, db, z)
        BY <2>3, <3>3 DEF SameInv
      <3>5. \A q : SameRow(q, z) => (q \in db' <=> q \in db)
        BY <1>0, <1>1, <3>2, ChangedRow
      <3> QED
        BY <2>2, <3>4, <3>5, SettledElsewhere
    <2>4. dirty' \union missed' \subseteq DataRow
      BY <1>0, <2>1
    <2> QED
      BY <1>0, <2>1, <2>3, <2>4 DEF SameInv
  <1>2. CASE LoadFixed
    <2>1. /\ pc = "fixed" /\ pc' = "load" /\ UNCHANGED <<shared, next, dirty, missed>>
      BY <1>2 DEF LoadFixed, histVars
    <2> QED
      BY <1>0, <2>1 DEF SameInv
  <1>3. CASE Load
    <2> DEFINE x == PrivateLoad(db, fixed, <<cells, where>>)
    <2>1. /\ shared' = Object(x) /\ pc' = "idle" /\ UNCHANGED <<db, next, dirty, missed>>
      BY <1>3 DEF Load, histVars
    <2>2. WholeState(x) /\ \A z \in DataRow : Settled(x, db, z)
      BY <1>0, LoadSettles
    <2> HIDE DEF x
    <2>3. Object(x).places = x.places /\ Object(x).shields = x.shields
      BY DEF Object
    <2>4. NewestData' = Object(x)
      BY <2>1 DEF NewestData
    <2>5. ASSUME NEW z \in DataRow PROVE Settled(NewestData', db', z)
      <3>1. Settled(x, db, z)
        BY <2>2
      <3>2. Settled(Object(x), db, z)
        BY <2>3, <3>1, SameSettled
      <3> QED
        BY <2>1, <2>4, <3>2
    <2> QED
      BY <1>0, <2>1, <2>2, <2>3, <2>5 DEF SameInv, WholeState
  <1>4. CASE Begin
    <2>1. /\ next' = CopyData(shared) /\ pc = "idle" /\ pc' = "update"
          /\ UNCHANGED <<db, shared, dirty, missed>>
      BY <1>4 DEF Begin, histVars
    <2>2. next'.places = shared.places /\ next'.shields = shared.shields
      BY <1>0, <2>1, CopyIsWhole
    <2>3. NewestData = shared /\ NewestData' = next'
      BY <2>1 DEF NewestData
    <2>4. ASSUME NEW z \in DataRow, ~Unread(z)' PROVE Settled(NewestData', db', z)
      <3>1. ~Unread(z)
        BY <2>1, <2>4 DEF Unread
      <3>2. Settled(shared, db, z)
        BY <2>1, <2>3, <3>1 DEF SameInv
      <3>3. Settled(next', db, z)
        BY <2>2, <3>2, SameSettled
      <3> QED
        BY <2>1, <2>3, <3>3
    <2> QED
      BY <1>0, <2>1, <2>2, <2>4 DEF SameInv
  <1>5. CASE ReadTable
    <2>1. PICK rows, seq : /\ rows \in SUBSET db /\ seq \in SetToSeqs(rows)
                          /\ LET s == ReadRows(With(next, <<cells, where>>), fixed, seq) IN
                             next' = Object(s)
                          /\ dirty' = dirty \ rows /\ missed' = missed \ rows
      BY <1>5 DEF ReadTable, OfKind
    <2>2. seq \in Seq(DataRow) /\ ToSet(seq) = rows
      BY <1>0, <2>1, RowsListed
    <2> DEFINE s == With(next, <<cells, where>>)
               x == ReadRows(s, fixed, seq)
    <2>3. WholeState(s) /\ s.places = next.places /\ s.shields = next.shields
      <3>1. s \in TidyState
        BY <1>0, WithTidy
      <3>2. s.places = next.places /\ s.shields = next.shields
        BY DEF With
      <3> QED
        BY <1>0, <3>1, <3>2 DEF WholeState, TidyState
    <2>4. /\ next' = Object(x) /\ pc = "update" /\ UNCHANGED <<db, shared, pc>>
      BY <1>5, <2>1 DEF ReadTable
    <2> HIDE DEF s
    <2>5. /\ WholeState(x)
          /\ \A z \in DataRow :
                Settled(s, db, z) \/ (\E r \in rows : SameRow(r, z)) => Settled(x, db, z)
      BY <1>0, <2>1, <2>2, <2>3, RowsSettle
    <2> HIDE DEF x
    <2>6. Object(x).places = x.places /\ Object(x).shields = x.shields
      BY DEF Object
    <2>7. NewestData = next /\ NewestData' = Object(x)
      BY <2>4 DEF NewestData
    <2>8. ASSUME NEW z \in DataRow, ~Unread(z)' PROVE Settled(NewestData', db', z)
      <3>1. Settled(x, db, z)
        <4>1. CASE \E r \in rows : SameRow(r, z)
          BY <2>5, <4>1
        <4>2. CASE \A r \in rows : ~SameRow(r, z)
          <5>1. ~Unread(z)
            BY <2>1, <2>8, <4>2 DEF Unread
          <5>2. Settled(next, db, z)
            BY <2>4, <2>7, <5>1 DEF SameInv
          <5>3. Settled(s, db, z)
            BY <2>3, <5>2, SameSettled
          <5> QED
            BY <2>5, <5>3
        <4> QED
          BY <4>1, <4>2
      <3>2. Settled(Object(x), db, z)
        BY <2>6, <3>1, SameSettled
      <3> QED
        BY <2>4, <2>7, <3>2
    <2>9. dirty' \union missed' \subseteq DataRow
      BY <1>0, <2>1
    <2> QED
      BY <1>0, <2>4, <2>5, <2>6, <2>8, <2>9 DEF SameInv, WholeState
  <1>6. CASE TableFails
    <2>1. /\ pc = "update" /\ UNCHANGED <<db, shared, next, pc>>
          /\ dirty' \union missed' = dirty \union missed
      <3> DEFINE rows == OfKind(dirty \intersect due, Head(todo))
      <3>1. rows \subseteq dirty
        BY DEF OfKind
      <3>2. dirty' = dirty \ rows /\ missed' = missed \union rows
        BY <1>6 DEF TableFails
      <3> HIDE DEF rows
      <3> QED
        BY <1>6, <3>1, <3>2 DEF TableFails, objVars
    <2>2. NewestData' = NewestData
      BY <2>1 DEF NewestData
    <2>3. \A z : Unread(z)' <=> Unread(z)
      BY <2>1 DEF Unread
    <2> QED
      BY <1>0, <2>1, <2>2, <2>3 DEF SameInv
  <1>7. CASE PublishData
    <2>1. /\ shared' = next /\ next' = Empty /\ pc = "update" /\ pc' = "idle"
          /\ UNCHANGED <<db, dirty, missed>>
      BY <1>7 DEF PublishData, histVars
    <2>2. NewestData' = NewestData
      BY <2>1 DEF NewestData
    <2>3. \A z : Unread(z)' <=> Unread(z)
      BY <2>1 DEF Unread
    <2> QED
      BY <1>0, <2>1, <2>2, <2>3, NothingWhole DEF SameInv
  <1>8. CASE UNCHANGED privVars
    <2>1. UNCHANGED <<db, shared, next, pc, dirty, missed>>
      BY <1>8 DEF privVars, objVars, histVars
    <2>2. NewestData' = NewestData /\ \A z : Unread(z)' <=> Unread(z)
      BY <2>1 DEF NewestData, Unread
    <2> QED
      BY <2>1, <2>2 DEF SameInv
  <1> QED
    BY <1>1, <1>2, <1>3, <1>4, <1>5, <1>6, <1>7, <1>8 DEF DataNext

LEMMA SameInvHolds == DataSpec => [](DataInv /\ GridInv /\ SameInv)
  <1>1. DataSpec => [](DataInv /\ GridInv)
    BY GridInvHolds
  <1>2. DataInit => SameInv
    BY SameInvInit
  <1>3. DataInv /\ GridInv /\ SameInv /\ [DataNext]_privVars => SameInv'
    BY SameInvStep
  <1> QED
    BY <1>1, <1>2, <1>3, PTL DEF DataSpec

-----------------------------------------------------------------------------
(* What a place takes from the place that it names. *)

\* The rows of an object and its shields, as far as lookups of an id go.
AgreeOn(o, D, id) == \A q \in DataRow : q.id = id => (q \in o.places <=> q \in D /\ ComesIn(q))

\* An object that says what the rows D say, and nothing else.
Ideal(D) == [places |-> {q \in D : ComesIn(q)}, shields |-> UNION {Shields(r) : r \in D}]

\* What p takes from it.
Right(D, p) == {x[2] : x \in Taken(p, Named(Ideal(D), None, p))}

\* The places of an object, but those that name an id of X, have taken what is right.
TakesRight(o, D, X) ==
    \A p \in RowsIn(o.places) : p.kind \in TakerKind /\ p.ref \notin X => TakenBy(o, p) = Right(D, p)

LEMMA IdealIs ==
    ASSUME NEW D \in SUBSET DataRow
    PROVE  /\ Ideal(D).places \subseteq AnyPlace
           /\ \A id : AgreeOn(Ideal(D), D, id)
           /\ \A y : y \in Ideal(D).shields <=> \E r \in D : y \in Shields(r)
  BY DEF Ideal, AnyPlace, AgreeOn

\* Two objects that have the same rows of an id find the same place.
SameOf(o, w, id) == \A q \in DataRow : q.id = id => (q \in o.places <=> q \in w.places)

LEMMA SameLookup ==
    ASSUME NEW o, o.places \subseteq AnyPlace, NEW w, w.places \subseteq AnyPlace,
           NEW id, NEW x, id = <<x>>, x # "coreHotel", NEW pt, pt = None \/ pt # "gather",
           SameOf(o, w, id)
    PROVE  GetLYPlace(o, id, pt) = GetLYPlace(w, id, pt)
  <1> DEFINE long == IF pt = None THEN id ELSE id \o <<pt>>
  <1>1. \A p \in AnyPlace : getUniqId(p) \in {id, long} => p \in DataRow /\ p.id = id
    <2>1. \A p \in AnyPlace : getUniqId(p) = id => p \in DataRow /\ p.id = id
      BY ShortKey
    <2>2. ASSUME pt # None, NEW p \in AnyPlace, getUniqId(p) = long PROVE p \in DataRow /\ p.id = id
      BY <2>2, KeyRow
    <2> QED
      BY <2>1, <2>2
  <1>2. \A p : getUniqId(p) \in {id, long} => (p \in o.places <=> p \in w.places)
    BY <1>1 DEF SameOf
  <1> HIDE DEF long
  <1>3. \A key \in {id, long} : \A map : At(o, map, key) = At(w, map, key)
    BY <1>2 DEF At
  <1>4. \A key \in {id, long} : PlaceMaps(o, key) = PlaceMaps(w, key)
    BY <1>3 DEF PlaceMaps
  <1>5. FoundAt(o, id, long) = FoundAt(w, id, long)
    BY <1>3, <1>4 DEF FoundAt
  <1>6. GetLYPlace(o, id, pt) = FoundAt(o, id, long) /\ GetLYPlace(w, id, pt) = FoundAt(w, id, long)
    BY Lookup DEF long
  <1> QED
    BY <1>5, <1>6

\* What a row names.
LEMMA RefIs ==
    ASSUME NEW r \in DataRow, r.kind \in TakerKind, r.ref # None
    PROVE  /\ r.ref = <<r.ref[1]>> /\ r.ref[1] # "coreHotel" /\ r.pt # "gather"
           /\ \A q \in DataRow : q.id = r.ref =>
                 /\ q.kind = "city" \/ (q.kind \in VarKind /\ r.kind \in TourKind)
                 /\ Rank(q) < Rank(r)
  <1>1. /\ r.ref = <<r.ref[1]>> /\ r.ref[1] # "coreHotel" /\ r.pt # "gather"
        /\ \A q \in DataRow : q.id = r.ref => q.kind \in RefKind(r.kind)
    BY RefAssumption, RowName DEF TakerKind
  <1>2. r.kind \in {"ticket", "tour", "hotel"}
    BY DEF TakerKind, TourKind
  <1>3. ASSUME NEW q \in DataRow, q.id = r.ref
        PROVE  /\ q.kind = "city" \/ (q.kind \in VarKind /\ r.kind \in TourKind)
               /\ Rank(q) < Rank(r)
    <2>1. q.kind \in RefKind(r.kind)
      BY <1>1, <1>3
    <2>2. CASE r.kind = "hotel"
      <3>1. q.kind = "city"
        BY <2>1, <2>2 DEF RefKind
      <3>2. Rank(q) = 1 /\ Rank(r) = 2
        BY <2>2, <3>1 DEF Rank, TourKind
      <3> QED
        BY <3>1, <3>2
    <2>3. CASE r.kind \in {"ticket", "tour"}
      <3>1. q.kind \in VarKind
        BY <2>1, <2>3 DEF RefKind, VarKind
      <3>2. Rank(q) \in {3, 4, 5} /\ Rank(r) = 6
        BY <2>3, <3>1 DEF VarKind, Rank, TourKind
      <3> QED
        BY <2>3, <3>1, <3>2 DEF TourKind
    <2> QED
      BY <1>2, <2>2, <2>3
  <1> QED
    BY <1>1, <1>3

\* What a row names is the same in two objects, or pairs of them, that agree on
\* the rows of its id and, for a tour, on its shield.
LEMMA NamedRight ==
    ASSUME NEW D \in SUBSET DataRow, NEW t, t.places \subseteq AnyPlace, NEW pri,
           NEW o, o = IF pri = None THEN t ELSE pri, o.places \subseteq AnyPlace,
           NEW r \in DataRow, r.kind \in TakerKind,
           r.ref # None => AgreeOn(o, D, r.ref),
           r.ref # None /\ r.kind \in TourKind =>
              /\ AgreeOn(t, D, r.ref)
              /\ <<r.pt, r.ref>> \in o.shields <=> \E w \in D : <<r.pt, r.ref>> \in Shields(w)
    PROVE  Named(t, pri, r) = Named(Ideal(D), None, r)
  <1> DEFINE w == Ideal(D)
  <1>0. w.places \subseteq AnyPlace /\ (\A id : AgreeOn(w, D, id))
        /\ \A y : y \in w.shields <=> \E q \in D : y \in Shields(q)
    BY IdealIs
  <1> HIDE DEF w
  <1>1. CASE r.ref = None
    BY <1>1 DEF Named
  <1>2. CASE r.ref # None
    <2> DEFINE x == r.ref[1]
    <2>1. r.ref = <<x>> /\ x # "coreHotel" /\ r.pt # "gather"
      BY <1>2, RefIs
    <2> HIDE DEF x
    <2>2. SameOf(o, w, r.ref)
      BY <1>0, <1>2 DEF AgreeOn, SameOf
    <2>3. CASE r.kind = "hotel"
      <3>1. GetLYPlace(o, r.ref, None) = GetLYPlace(w, r.ref, None)
        BY <1>0, <2>1, <2>2, SameLookup
      <3>2. Named(t, pri, r) = GetLYPlace(o, r.ref, None)
        BY <1>2, <2>3 DEF Named
      <3>3. Named(w, None, r) = GetLYPlace(w, r.ref, None)
        BY <1>2, <2>3 DEF Named
      <3> QED
        BY <3>1, <3>2, <3>3 DEF w
    <2>4. CASE r.kind \in TourKind
      <3>1. GetLYPlace(o, r.ref, r.pt) = GetLYPlace(w, r.ref, r.pt)
        BY <1>0, <2>1, <2>2, SameLookup
      <3>2. GetLYPlace(t, r.ref, r.pt) = GetLYPlace(w, r.ref, r.pt)
        <4>1. SameOf(t, w, r.ref)
          BY <1>0, <1>2, <2>4 DEF AgreeOn, SameOf
        <4> QED
          BY <1>0, <2>1, <4>1, SameLookup
      <3>3. <<r.pt, r.ref>> \in o.shields <=> <<r.pt, r.ref>> \in w.shields
        BY <1>0, <1>2, <2>4
      <3>4. Shown(o, r.ref, r.pt) = Shown(w, r.ref, r.pt)
        BY <3>1, <3>3 DEF Shown
      <3>5. r.kind # "hotel"
        BY <2>4 DEF TourKind
      <3>6. Named(t, pri, r) = First(<<GetLYPlace(t, r.ref, r.pt), Shown(o, r.ref, r.pt)>>)
        BY <1>2, <3>5 DEF Named
      <3>7. Named(w, None, r) = First(<<GetLYPlace(w, r.ref, r.pt), Shown(w, r.ref, r.pt)>>)
        BY <1>2, <3>5 DEF Named
      <3> QED
        BY <3>2, <3>4, <3>6, <3>7 DEF w
    <2> QED
      BY <2>3, <2>4 DEF TakerKind
  <1> QED
    BY <1>1, <1>2

\* A shield has the id of its row.
LEMMA ShieldId ==
    ASSUME NEW r \in DataRow, NEW pt, NEW id, <<pt, id>> \in Shields(r)
    PROVE  r.id = id /\ r.kind \in VarKind
  <1>1. r.kind \in VarKind /\ r.refer # None /\ <<pt, id>> = <<r.pt, r.refer>>
    BY DEF Shields
  <1>2. r.id = r.refer
    BY <1>1, IdAssumption
  <1> QED
    BY <1>1, <1>2

\* Rows of other ids do not matter.
LEMMA RightElsewhere ==
    ASSUME NEW D \in SUBSET DataRow, NEW E \in SUBSET DataRow, NEW p \in DataRow, p.kind \in TakerKind,
           \A q \in DataRow : q.id = p.ref => (q \in D <=> q \in E)
    PROVE  Right(E, p) = Right(D, p)
  <1> DEFINE t == Ideal(E)
  <1>1. t.places \subseteq AnyPlace /\ (\A id : AgreeOn(t, E, id))
        /\ \A y : y \in t.shields <=> \E q \in E : y \in Shields(q)
    BY IdealIs
  <1> HIDE DEF t
  <1>2. AgreeOn(t, D, p.ref)
    BY <1>1 DEF AgreeOn
  <1>3. \A q \in DataRow : <<p.pt, p.ref>> \in Shields(q) => q.id = p.ref
    BY ShieldId
  <1>4. <<p.pt, p.ref>> \in t.shields <=> \E q \in D : <<p.pt, p.ref>> \in Shields(q)
    BY <1>1, <1>3
  <1>5. Named(t, None, p) = Named(Ideal(D), None, p)
    BY <1>1, <1>2, <1>4, NamedRight
  <1> QED
    BY <1>5 DEF Right, t

\* A row that is read takes what is right, and the others keep what they have.
LEMMA TakenOnce ==
    ASSUME NEW s, NEW r \in DataRow, NEW pri, NEW x, RowStep(s, pri, r, x), NEW D, NEW X,
           TakesRight(s, D, X),
           r.kind \in TakerKind /\ r.ref \notin X => NamedBy(s, pri, r) = Named(Ideal(D), None, r)
    PROVE  TakesRight(x, D, X)
  <1> SUFFICES ASSUME NEW p \in RowsIn(x.places), p.kind \in TakerKind, p.ref \notin X
               PROVE  TakenBy(x, p) = Right(D, p)
    BY DEF TakesRight
  <1>1. p \in DataRow /\ p \in x.places
    BY DEF RowsIn
  <1>2. CASE p = r
    <2> DEFINE N == NamedBy(s, pri, r)
    <2>1. x.taken = TakenAnew(s.taken, r, N)
      BY <1>1, <1>2 DEF RowStep, TakenStep
    <2>2. \A y \in Taken(r, N) : y[1] = r
      BY DEF Taken
    <2>3. {y \in x.taken : y[1] = r} = Taken(r, N)
      BY <2>1, <2>2 DEF TakenAnew
    <2>4. TakenBy(x, r) = {y[2] : y \in Taken(r, N)}
      BY <2>3 DEF TakenBy
    <2>5. N = Named(Ideal(D), None, r)
      BY <1>2
    <2> QED
      BY <1>2, <2>4, <2>5 DEF Right
  <1>3. CASE p # r
    <2>1. ~SameRow(p, r)
      <3>1. SameRow(p, r) => r.kind = "city" /\ r.kind = p.kind
        BY <1>1, <1>3 DEF RowStep, SameRow
      <3> QED
        BY <3>1 DEF TakerKind, TourKind
    <2>2. p \in RowsIn(s.places)
      BY <1>1, <2>1 DEF RowStep, RowsIn
    <2>3. {y \in x.taken : y[1] = p} = {y \in s.taken : y[1] = p}
      <3>1. CASE x.taken = s.taken
        BY <3>1
      <3>2. CASE x.taken = TakenAnew(s.taken, r, NamedBy(s, pri, r))
        <4>1. \A y \in Taken(r, NamedBy(s, pri, r)) : y[1] = r
          BY DEF Taken
        <4> QED
          BY <1>3, <3>2, <4>1 DEF TakenAnew
      <3> QED
        BY <3>1, <3>2 DEF RowStep, TakenStep
    <2>4. TakenBy(x, p) = TakenBy(s, p)
      BY <2>3 DEF TakenBy
    <2> QED
      BY <2>2, <2>4 DEF TakesRight
  <1> QED
    BY <1>2, <1>3

LEMMA TakenKept ==
    ASSUME NEW rows \in Seq(DataRow), NEW pri, NEW A, RowByRowStep(pri, rows, A), NEW D, NEW X,
           TakesRight(A[0], D, X),
           \A k \in 1..Len(rows) : rows[k].kind \in TakerKind /\ rows[k].ref \notin X =>
                NamedBy(A[k - 1], pri, rows[k]) = Named(Ideal(D), None, rows[k])
    PROVE  TakesRight(A[Len(rows)], D, X)
  <1> DEFINE n == Len(rows)
             item(k) == rows[k]
             I == {k \in 0..n : TakesRight(A[k], D, X)}
  <1>1. n \in Nat /\ \A k \in 1..n : item(k) \in DataRow
    OBVIOUS
  <1>2. \A k \in 1..n : /\ RowStep(A[k - 1], pri, item(k), A[k])
                        /\ item(k).kind \in TakerKind /\ item(k).ref \notin X =>
                              NamedBy(A[k - 1], pri, item(k)) = Named(Ideal(D), None, item(k))
    BY DEF RowByRowStep
  <1> HIDE DEF n, item
  <1>3. 0 \in I
    BY <1>1
  <1>4. ASSUME NEW k \in 0..n, k # 0, k - 1 \in I PROVE k \in I
    <2>1. k \in 1..n /\ TakesRight(A[k - 1], D, X)
      BY <1>1, <1>4
    <2> DEFINE r == item(k)
               s == A[k - 1]
    <2>2. /\ r \in DataRow /\ TakesRight(s, D, X) /\ RowStep(s, pri, r, A[k])
          /\ r.kind \in TakerKind /\ r.ref \notin X => NamedBy(s, pri, r) = Named(Ideal(D), None, r)
      BY <1>1, <1>2, <2>1
    <2> HIDE DEF r, s
    <2> QED
      BY <2>2, TakenOnce
  <1> HIDE DEF I
  <1>5. \A k \in 0..n : k \in I
    BY <1>1, <1>3, <1>4, Upwards
  <1>6. n \in I
    BY <1>1, <1>5
  <1> QED
    BY <1>6 DEF I, n

\* An object that says of the ids outside X what the rows D say: the places and
\* the cities that others name, and the shields.
RowsFit(o, D, kinds, X) ==
    \A q \in DataRow : q.id \notin X /\ q.kind \in kinds => (q \in o.places <=> q \in D /\ ComesIn(q))

ShieldsFit(o, D, X) ==
    \A pt, id : id \notin X => (<<pt, id>> \in o.shields <=> \E r \in D : <<pt, id>> \in Shields(r))

Fits(o, D, X) == RowsFit(o, D, VarKind \union {"city"}, X) /\ ShieldsFit(o, D, X)

\* What a row names when it is read, after other rows and with the object that
\* LYConstData looks into.
LEMMA NamedByRight ==
    ASSUME NEW D \in SUBSET DataRow, NEW s, WholeState(s), NEW pri \in Seen, NEW r \in DataRow,
           r.kind \in TakerKind,
           r.ref # None => IF pri = None
                           THEN AgreeOn(s, D, r.ref) /\ (r.kind \in TourKind => ShieldsFit(s, D, {}))
                           ELSE /\ \E X : r.ref \notin X /\ Fits(pri, D, X)
                                /\ r.kind \in TourKind => AgreeOn(s, D, r.ref)
    PROVE  NamedBy(s, pri, r) = Named(Ideal(D), None, r)
  <1> DEFINE t == DelLYPlace(s, r.id, r.pt)
             o == IF pri = None THEN t ELSE pri
  <1>1. r.kind # "fun"
    BY DEF TakerKind, TourKind
  <1>2. /\ WholeState(t) /\ t.shields = s.shields
        /\ RowsIn(t.places) = {q \in RowsIn(s.places) : ~SameRow(q, r)}
    BY <1>1, RowDeleted
  <1> HIDE DEF t
  <1>3. t.places \subseteq AnyPlace /\ o.places \subseteq AnyPlace
    BY <1>2 DEF WholeState, Tidy, Seen, ObjectType
  <1>4. r.ref # None => \A q \in DataRow : q.id = r.ref => (q \in t.places <=> q \in s.places)
    <2> SUFFICES ASSUME r.ref # None, NEW q \in DataRow, q.id = r.ref
                 PROVE  q \in t.places <=> q \in s.places
      OBVIOUS
    <2>1. ~SameRow(q, r)
      <3>1. q.kind = "city" \/ q.kind \in VarKind
        BY RefIs
      <3> QED
        BY <3>1 DEF SameRow, VarKind, TakerKind, TourKind
    <2> QED
      BY <1>2, <2>1 DEF RowsIn
  <1>5. r.ref # None /\ AgreeOn(s, D, r.ref) => AgreeOn(t, D, r.ref)
    BY <1>4 DEF AgreeOn
  <1>6. r.ref # None => AgreeOn(o, D, r.ref)
    <2>1. CASE pri = None
      BY <1>5, <2>1
    <2>2. CASE pri # None
      <3> SUFFICES ASSUME r.ref # None PROVE AgreeOn(pri, D, r.ref)
        BY <2>2
      <3>1. PICK X : r.ref \notin X /\ Fits(pri, D, X)
        BY <2>2
      <3>2. \A q \in DataRow : q.id = r.ref => q.kind \in VarKind \union {"city"}
        BY RefIs
      <3> QED
        BY <3>1, <3>2 DEF AgreeOn, Fits, RowsFit
    <2> QED
      BY <2>1, <2>2
  <1>7. r.ref # None /\ r.kind \in TourKind =>
           /\ AgreeOn(t, D, r.ref)
           /\ <<r.pt, r.ref>> \in o.shields <=> \E w \in D : <<r.pt, r.ref>> \in Shields(w)
    <2> SUFFICES ASSUME r.ref # None, r.kind \in TourKind
                 PROVE  /\ AgreeOn(t, D, r.ref)
                        /\ <<r.pt, r.ref>> \in o.shields <=> \E w \in D : <<r.pt, r.ref>> \in Shields(w)
      OBVIOUS
    <2>1. CASE pri = None
      BY <1>2, <1>5, <2>1 DEF ShieldsFit
    <2>2. CASE pri # None
      <3>1. PICK X : r.ref \notin X /\ Fits(pri, D, X)
        BY <2>2
      <3> QED
        BY <1>5, <2>2, <3>1 DEF Fits, ShieldsFit
    <2> QED
      BY <2>1, <2>2
  <1> HIDE DEF o
  <1>8. Named(t, pri, r) = Named(Ideal(D), None, r)
    <2>1. o = IF pri = None THEN t ELSE pri
      BY DEF o
    <2> QED
      BY <1>3, <1>6, <1>7, <2>1, NamedRight
  <1> QED
    BY <1>8 DEF NamedBy, t

\* A load takes what is right of everything that its rows name.
LEMMA LoadTakes ==
    ASSUME NEW D \in SUBSET DataRow, UniqueRows(D), NEW pri \in Seen,
           NEW C \in SUBSET Spot, NEW W \in SUBSET GridKey, NEW X, pri # None => Fits(pri, D, X),
           NEW x, x = PrivateLoad(D, pri, <<C, W>>)
    PROVE  TakesRight(x, D, X)
  <1> DEFINE s == With(Empty, <<C, W>>)
  <1>1. PICK rows : Stage(rows, D, 7) /\ ToSet(rows) = D /\ x = ReadRows(s, pri, rows)
    BY LoadOf
  <1>2. rows \in Seq(DataRow)
    BY <1>1 DEF Stage
  <1>3. WholeState(s) /\ s.places = {} /\ s.shields = {} /\ s \in TidyState
    BY NothingWhole DEF WholeState, TidyState
  <1> HIDE DEF s
  <1> DEFINE n == Len(rows)
  <1>4. PICK A : RowByRow(s, pri, rows, A) /\ x = A[n]
    BY <1>1, <1>2, <1>3, RowsSteps
  <1>5. RowByRowStep(pri, rows, A) /\ A[0] = s
    BY <1>2, <1>3, <1>4, StepByStep DEF RowByRow
  <1>6. n \in Nat /\ DOMAIN rows = 1..n /\ \A k \in 1..n : rows[k] \in D
    BY <1>1, <1>2 DEF ToSet
  <1>7. TakesRight(A[0], D, X)
    BY <1>3, <1>5 DEF TakesRight, RowsIn
  <1>8. ASSUME NEW k \in 1..n, rows[k].kind \in TakerKind, rows[k].ref \notin X
        PROVE  NamedBy(A[k - 1], pri, rows[k]) = Named(Ideal(D), None, rows[k])
    <2> DEFINE r == rows[k]
               u == A[k - 1]
    <2>1. k - 1 \in 0..n /\ r \in DataRow /\ r.kind \in TakerKind /\ r.ref \notin X
      BY <1>6, <1>8
    <2>2. WholeState(u)
      BY <1>5, <2>1 DEF RowByRowStep
    <2>3. /\ \A q \in RowsIn(u.places) : q \in D /\ ComesIn(q)
          /\ \A y \in u.shields : \E w \in D : y \in Shields(w)
      BY <1>1, <1>2, <1>3, <1>5, <2>1, LoadOrigin
    <2>4. \A q \in D : Rank(q) < Rank(r) =>
              /\ ComesIn(q) /\ q.kind # "ticket" => q \in u.places
              /\ Shields(q) \subseteq u.shields
      BY <1>1, <1>5, LoadedBefore
    <2> HIDE DEF r, u
    <2>5. ASSUME r.ref # None PROVE AgreeOn(u, D, r.ref)
      <3> SUFFICES ASSUME NEW q \in DataRow, q.id = r.ref
                   PROVE  q \in u.places <=> q \in D /\ ComesIn(q)
        BY DEF AgreeOn
      <3>1. Rank(q) < Rank(r) /\ (q.kind = "city" \/ q.kind \in VarKind)
        BY <2>1, <2>5, RefIs
      <3>2. q.kind # "ticket"
        BY <3>1 DEF VarKind
      <3> QED
        BY <2>3, <2>4, <3>1, <3>2 DEF RowsIn
    <2>6. ASSUME r.kind \in TourKind PROVE ShieldsFit(u, D, {})
      <3> SUFFICES ASSUME NEW w \in D, NEW y \in Shields(w) PROVE y \in u.shields
        BY <2>3 DEF ShieldsFit
      <3>1. w.kind \in VarKind
        BY DEF Shields
      <3>2. Rank(w) \in {3, 4, 5} /\ Rank(r) = 6
        BY <2>6, <3>1 DEF VarKind, Rank, TourKind
      <3> QED
        BY <2>4, <3>2
    <2>7. NamedBy(u, pri, r) = Named(Ideal(D), None, r)
      <3>1. CASE pri = None
        BY <2>1, <2>2, <2>5, <2>6, <3>1, NamedByRight
      <3>2. CASE pri # None
        BY <2>1, <2>2, <2>5, <3>2, NamedByRight
      <3> QED
        BY <3>1, <3>2
    <2> QED
      BY <2>7 DEF r, u
  <1> HIDE DEF n
  <1>9. TakesRight(A[n], D, X)
    BY <1>2, <1>5, <1>7, <1>8, TakenKept DEF n
  <1> QED
    BY <1>4, <1>9

\* What a load has of the other rows.
LEMMA LoadFits ==
    ASSUME NEW D \in SUBSET DataRow, UniqueRows(D), NEW pri \in Seen,
           NEW C \in SUBSET Spot, NEW W \in SUBSET GridKey, NEW X,
           NEW x, x = PrivateLoad(D, pri, <<C, W>>)
    PROVE  Fits(x, D, X)
  <1>1. \A z \in DataRow : Settled(x, D, z)
    BY LoadSettles
  <1>2. /\ \A q \in RowsIn(x.places) : q \in D /\ ComesIn(q)
        /\ \A y \in x.shields : \E r \in D : y \in Shields(r)
    BY LoadOnly
  <1>3. RowsFit(x, D, VarKind \union {"city"}, X)
    <2> SUFFICES ASSUME NEW q \in DataRow, q.kind \in VarKind \union {"city"}
                 PROVE  q \in x.places <=> q \in D /\ ComesIn(q)
      BY DEF RowsFit
    <2>1. q.kind # "ticket" /\ SameRow(q, q) /\ Settled(x, D, q)
      BY <1>1 DEF VarKind, SameRow
    <2> QED
      BY <1>2, <2>1 DEF Settled, RowsIn
  <1>4. ShieldsFit(x, D, X)
    <2>1. \A r \in D : Shields(r) \subseteq x.shields
      <3> SUFFICES ASSUME NEW r \in D PROVE Shields(r) \subseteq x.shields
        OBVIOUS
      <3>1. r \in DataRow /\ SameRow(r, r) /\ Settled(x, D, r)
        BY <1>1 DEF SameRow
      <3> QED
        BY <3>1 DEF Settled
    <2> QED
      BY <1>2, <2>1 DEF ShieldsFit
  <1> QED
    BY <1>3, <1>4 DEF Fits

\* The rows of a settled object that are no tickets and no cities.
LEMMA SettledRow ==
    ASSUME NEW o, NEW D \in SUBSET DataRow, NEW p \in DataRow, Settled(o, D, p),
           p.kind \notin {"city", "ticket"}
    PROVE  p \in o.places <=> p \in D /\ ComesIn(p)
  BY DEF Settled, SameRow

\* Rows of the database do not make the others wrong.
LEMMA FitOnce ==
    ASSUME NEW D \in SUBSET DataRow, UniqueRows(D), NEW s, NEW r \in D, NEW pri, NEW x,
           RowStep(s, pri, r, x), NEW X, RowsFit(s, D, VarKind, X)
    PROVE  RowsFit(x, D, VarKind, X)
  <1> SUFFICES ASSUME NEW q \in DataRow, q.id \notin X, q.kind \in VarKind
               PROVE  q \in x.places <=> q \in D /\ ComesIn(q)
    BY DEF RowsFit
  <1>1. CASE ~SameRow(q, r)
    BY <1>1 DEF RowStep, RowsFit
  <1>2. CASE SameRow(q, r)
    <2>1. r.kind \notin {"city", "ticket"}
      BY <1>2 DEF SameRow, VarKind
    <2>2. q \in D => q = r
      BY <1>2 DEF UniqueRows
    <2> QED
      BY <1>2, <2>1, <2>2 DEF RowStep
  <1> QED
    BY <1>1, <1>2

\* So does an Update of what it reads, when the rows that it does not read and
\* the object that LYConstData looks into are right.
LEMMA ReadsTake ==
    ASSUME NEW D \in SUBSET DataRow, UniqueRows(D), NEW s, WholeState(s),
           NEW rows \in Seq(DataRow), ToSet(rows) \subseteq D, NEW pri \in Seen, pri # None,
           NEW X, Fits(pri, D, X), RowsFit(s, D, VarKind, X), TakesRight(s, D, X),
           NEW x, x = ReadRows(s, pri, rows)
    PROVE  TakesRight(x, D, X)
  <1> DEFINE n == Len(rows)
             item(k) == rows[k]
  <1>1. n \in Nat /\ \A k \in 1..n : item(k) \in D
    BY DEF ToSet
  <1>2. PICK A : RowByRow(s, pri, rows, A) /\ x = A[n]
    <2>1. s \in TidyState
      BY DEF WholeState, TidyState
    <2> QED
      BY <2>1, RowsSteps
  <1>3. RowByRowStep(pri, rows, A) /\ A[0] = s
    BY <1>2, StepByStep DEF RowByRow
  <1>4. /\ \A k \in 1..n : RowStep(A[k - 1], pri, item(k), A[k])
        /\ \A k \in 0..n : WholeState(A[k])
    BY <1>3 DEF RowByRowStep
  <1> HIDE DEF n, item
  <1> DEFINE I == {k \in 0..n : RowsFit(A[k], D, VarKind, X)}
  <1>5. 0 \in I
    BY <1>1, <1>3
  <1>6. ASSUME NEW k \in 0..n, k # 0, k - 1 \in I PROVE k \in I
    <2>1. k \in 1..n /\ RowsFit(A[k - 1], D, VarKind, X)
      BY <1>1, <1>6
    <2>2. RowStep(A[k - 1], pri, item(k), A[k]) /\ item(k) \in D
      BY <1>1, <1>4, <2>1
    <2>3. RowsFit(A[k], D, VarKind, X)
      BY <2>1, <2>2, FitOnce
    <2> QED
      BY <2>3
  <1> HIDE DEF I
  <1>7. \A k \in 0..n : k \in I
    BY <1>1, <1>5, <1>6, Upwards
  <1>8. ASSUME NEW k \in 1..n, item(k).kind \in TakerKind, item(k).ref \notin X
        PROVE  NamedBy(A[k - 1], pri, item(k)) = Named(Ideal(D), None, item(k))
    <2> DEFINE r == item(k)
               u == A[k - 1]
    <2>1. k - 1 \in 0..n /\ r \in DataRow /\ r.kind \in TakerKind /\ r.ref \notin X
      BY <1>1, <1>8
    <2>2. WholeState(u) /\ RowsFit(u, D, VarKind, X)
      BY <1>4, <1>7, <2>1 DEF I
    <2> HIDE DEF r, u
    <2>3. r.ref # None /\ r.kind \in TourKind => AgreeOn(u, D, r.ref)
      <3> SUFFICES ASSUME r.ref # None, r.kind \in TourKind, NEW q \in DataRow, q.id = r.ref
                   PROVE  q \in u.places <=> q \in D /\ ComesIn(q)
        BY DEF AgreeOn
      <3>1. q.kind \in RefKind(r.kind)
        BY <2>1, RefAssumption DEF TakerKind
      <3>2. q.kind \in VarKind
        BY <3>1 DEF RefKind, TourKind, VarKind
      <3> QED
        BY <2>1, <2>2, <3>2 DEF RowsFit
    <2>4. NamedBy(u, pri, r) = Named(Ideal(D), None, r)
      BY <2>1, <2>2, <2>3, NamedByRight
    <2> QED
      BY <2>4 DEF r, u
  <1>9. TakesRight(A[n], D, X)
    BY <1>3, <1>8, TakenKept DEF n, item
  <1> QED
    BY <1>2, <1>9 DEF n

\* Only ids outside X matter.
LEMMA FitsElsewhere ==
    ASSUME NEW D \in SUBSET DataRow, NEW E \in SUBSET DataRow, NEW X, NEW Y, X \subseteq Y,
           \A q \in DataRow : q.id \notin Y => (q \in E <=> q \in D), NEW o
    PROVE  /\ Fits(o, D, X) => Fits(o, E, Y)
           /\ TakesRight(o, D, X) => TakesRight(o, E, Y)
  <1>1. ASSUME RowsFit(o, D, VarKind \union {"city"}, X)
        PROVE  RowsFit(o, E, VarKind \union {"city"}, Y)
    BY <1>1 DEF RowsFit
  <1>2. ASSUME ShieldsFit(o, D, X) PROVE ShieldsFit(o, E, Y)
    <2> SUFFICES ASSUME NEW pt, NEW id, id \notin Y
                 PROVE  <<pt, id>> \in o.shields <=> \E q \in E : <<pt, id>> \in Shields(q)
      BY DEF ShieldsFit
    <2>1. \A q \in DataRow : <<pt, id>> \in Shields(q) => (q \in E <=> q \in D)
      BY ShieldId
    <2>2. <<pt, id>> \in o.shields <=> \E q \in D : <<pt, id>> \in Shields(q)
      BY <1>2 DEF ShieldsFit
    <2> QED
      BY <2>1, <2>2
  <1>3. ASSUME TakesRight(o, D, X) PROVE TakesRight(o, E, Y)
    <2> SUFFICES ASSUME NEW p \in RowsIn(o.places), p.kind \in TakerKind, p.ref \notin Y
                 PROVE  TakenBy(o, p) = Right(E, p)
      BY DEF TakesRight
    <2>1. p \in DataRow
      BY DEF RowsIn
    <2>2. Right(E, p) = Right(D, p)
      BY <2>1, RightElsewhere
    <2> QED
      BY <1>3, <2>2 DEF TakesRight
  <1> QED
    BY <1>1, <1>2, <1>3 DEF Fits

\* TakesRight is about the places and what they have taken alone.
LEMMA SameTakes ==
    ASSUME NEW o, NEW t, t.places = o.places, t.taken = o.taken, NEW D, NEW X, TakesRight(o, D, X)
    PROVE  TakesRight(t, D, X)
  BY DEF TakesRight, TakenBy

\* But for ids whose rows have changed since the start, the object of the start
\* says what the database says, and the newest object has taken what is right.
TakenInv ==
    /\ \A q \in dirty \union missed : q.id \in touched
    /\ pc # "fixed" => Fits(fixed, db, touched)
    /\ pc \in {"idle", "update"} => TakesRight(NewestData, db, touched)

LEMMA TakenInvInit == DataInit => TakenInv
  BY DEF DataInit, TakenInv

LEMMA TakenInvStep == DataInv /\ GridInv /\ SameInv /\ TakenInv /\ [DataNext]_privVars => TakenInv'
  <1> SUFFICES ASSUME DataInv, GridInv, SameInv, TakenInv, [DataNext]_privVars PROVE TakenInv'
    OBVIOUS
  <1>0. /\ db \in SUBSET DataRow /\ UniqueRows(db)
        /\ fixed \in TidyObject /\ shared \in TidyObject /\ next \in TidyObject
        /\ cells \in SUBSET Spot /\ where \in SUBSET GridKey
        /\ Whole(shared.places) /\ Whole(next.places)
        /\ None \in Seen /\ fixed \in Seen /\ fixed # None
    <2>1. fixed \in ObjectType
      BY DEF DataInv, TidyObject
    <2> QED
      BY <2>1, NoneAssumption DEF DataInv, GridInv, SameInv, Seen
  <1>1. ASSUME NEW r \in DataRow, Change(r) \/ Delete(r) PROVE TakenInv'
    <2>1. /\ UNCHANGED <<pc, fixed, shared, next>>
          /\ touched' = IF pc = "fixed" THEN touched ELSE touched \union {r.id}
          /\ dirty' \union missed' \subseteq
                dirty \union missed \union (IF pc \in {"idle", "update"} THEN {r} ELSE {})
      <3>1. CASE Change(r)
        BY <3>1 DEF Change, Noted, objVars
      <3>2. CASE Delete(r)
        BY <3>2 DEF Delete, Noted, objVars
      <3> QED
        BY <1>1, <3>1, <3>2
    <2>2. NewestData' = NewestData
      BY <2>1 DEF NewestData
    <2>3. \A q \in dirty' \union missed' : q.id \in touched'
      BY <2>1 DEF TakenInv
    <2>4. ASSUME pc # "fixed"
          PROVE  /\ Fits(fixed', db', touched')
                 /\ pc \in {"idle", "update"} => TakesRight(NewestData', db', touched')
      <3>1. db' \in SUBSET DataRow
        BY <1>0, <1>1 DEF Change, Delete
      <3>2. \A q \in DataRow : q.id \notin touched' => (q \in db' <=> q \in db)
        <4>1. \A q : ~SameRow(q, r) => (q \in db' <=> q \in db)
          BY <1>0, <1>1, ChangedRow
        <4> QED
          BY <2>1, <2>4, <4>1 DEF SameRow
      <3>3. touched \subseteq touched'
        BY <2>1
      <3>4. Fits(fixed, db, touched) /\ (pc \in {"idle", "update"} => TakesRight(NewestData, db, touched))
        BY <2>4 DEF TakenInv
      <3>5. Fits(fixed, db', touched')
        BY <1>0, <3>1, <3>2, <3>3, <3>4, FitsElsewhere
      <3>6. pc \in {"idle", "update"} => TakesRight(NewestData, db', touched')
        BY <1>0, <3>1, <3>2, <3>3, <3>4, FitsElsewhere
      <3> QED
        BY <2>1, <2>2, <3>5, <3>6
    <2>5. pc = "fixed" => pc \notin {"idle", "update"}
      OBVIOUS
    <2> QED
      BY <2>1, <2>3, <2>4, <2>5 DEF TakenInv
  <1>2. CASE LoadFixed
    <2> DEFINE x == PrivateLoad(db, None, <<cells, where>>)
    <2>1. /\ fixed' = Object(x) /\ pc' = "load" /\ UNCHANGED <<db, dirty, missed, touched>>
      BY <1>2 DEF LoadFixed, histVars
    <2>2. Fits(x, db, touched)
      BY <1>0, LoadFits
    <2> HIDE DEF x
    <2>3. Fits(Object(x), db, touched)
      BY <2>2 DEF Fits, RowsFit, ShieldsFit, Object
    <2> QED
      BY <2>1, <2>3 DEF TakenInv
  <1>3. CASE Load
    <2> DEFINE x == PrivateLoad(db, fixed, <<cells, where>>)
    <2>1. /\ shared' = Object(x) /\ pc = "load" /\ pc' = "idle"
          /\ UNCHANGED <<db, fixed, dirty, missed, touched>>
      BY <1>3 DEF Load, histVars
    <2>2. Fits(fixed, db, touched)
      BY <2>1 DEF TakenInv
    <2>3. TakesRight(x, db, touched)
      BY <1>0, <2>2, LoadTakes
    <2> HIDE DEF x
    <2>4. Object(x).places = x.places /\ Object(x).taken = x.taken
      BY DEF Object
    <2>5. TakesRight(Object(x), db, touched)
      BY <2>3, <2>4, SameTakes
    <2>6. NewestData' = Object(x)
      BY <2>1 DEF NewestData
    <2> QED
      BY <2>1, <2>2, <2>5, <2>6 DEF TakenInv
  <1>4. CASE Begin
    <2>1. /\ next' = CopyData(shared) /\ pc = "idle" /\ pc' = "update"
          /\ UNCHANGED <<db, fixed, shared, dirty, missed, touched>>
      BY <1>4 DEF Begin, histVars
    <2>2. next'.places = shared.places /\ next'.taken = shared.taken
      BY <1>0, <2>1, CopyIsWhole
    <2>3. NewestData = shared /\ NewestData' = next'
      BY <2>1 DEF NewestData
    <2>4. TakesRight(shared, db, touched)
      BY <2>1, <2>3 DEF TakenInv
    <2>5. TakesRight(next', db, touched)
      BY <2>2, <2>4, SameTakes
    <2> QED
      BY <2>1, <2>3, <2>5 DEF TakenInv
  <1>5. CASE ReadTable
    <2>1. PICK rows, seq : /\ rows \in SUBSET db /\ seq \in SetToSeqs(rows)
                          /\ LET s == ReadRows(With(next, <<cells, where>>), fixed, seq) IN
                             next' = Object(s)
                          /\ dirty' = dirty \ rows /\ missed' = missed \ rows
      BY <1>5 DEF ReadTable, OfKind
    <2>2. seq \in Seq(DataRow) /\ ToSet(seq) = rows
      BY <1>0, <2>1, RowsListed
    <2> DEFINE s == With(next, <<cells, where>>)
               x == ReadRows(s, fixed, seq)
    <2>3. /\ WholeState(s) /\ s.places = next.places /\ s.shields = next.shields
          /\ s.taken = next.taken
      <3>1. s \in TidyState
        BY <1>0, WithTidy
      <3>2. s.places = next.places /\ s.shields = next.shields /\ s.taken = next.taken
        BY DEF With
      <3> QED
        BY <1>0, <3>1, <3>2 DEF WholeState, TidyState
    <2>4. next' = Object(x) /\ pc = "update" /\ UNCHANGED <<db, fixed, shared, pc, touched>>
      BY <1>5, <2>1 DEF ReadTable
    <2> HIDE DEF s
    <2>5. NewestData = next
      BY <2>4 DEF NewestData
    <2>6. Fits(fixed, db, touched) /\ TakesRight(s, db, touched)
      BY <2>3, <2>4, <2>5, SameTakes DEF TakenInv
    <2>7. RowsFit(s, db, VarKind, touched)
      <3> SUFFICES ASSUME NEW q \in DataRow, q.id \notin touched, q.kind \in VarKind
                   PROVE  q \in s.places <=> q \in db /\ ComesIn(q)
        BY DEF RowsFit
      <3>1. ~Unread(q)
        BY DEF Unread, TakenInv, SameRow
      <3>2. Settled(next, db, q)
        BY <2>4, <2>5, <3>1 DEF SameInv
      <3>3. q.kind \notin {"city", "ticket"}
        BY DEF VarKind
      <3> QED
        BY <1>0, <2>3, <3>2, <3>3, SettledRow
    <2>8. TakesRight(x, db, touched)
      <3>1. ToSet(seq) \subseteq db
        BY <2>1, <2>2
      <3> QED
        BY <1>0, <2>2, <2>3, <2>6, <2>7, <3>1, ReadsTake
    <2> HIDE DEF x
    <2>9. Object(x).places = x.places /\ Object(x).taken = x.taken
      BY DEF Object
    <2>10. TakesRight(Object(x), db, touched)
      BY <2>8, <2>9, SameTakes
    <2>11. NewestData' = Object(x)
      BY <2>4 DEF NewestData
    <2> QED
      BY <2>1, <2>4, <2>6, <2>10, <2>11 DEF TakenInv
  <1>6. CASE TableFails
    <2>1. /\ pc = "update" /\ UNCHANGED <<db, fixed, shared, next, pc, touched>>
          /\ dirty' \union missed' = dirty \union missed
      <3> DEFINE rows == OfKind(dirty \intersect due, Head(todo))
      <3>1. rows \subseteq dirty
        BY DEF OfKind
      <3>2. dirty' = dirty \ rows /\ missed' = missed \union rows
        BY <1>6 DEF TableFails
      <3> HIDE DEF rows
      <3> QED
        BY <1>6, <3>1, <3>2 DEF TableFails, objVars
    <2>2. NewestData' = NewestData
      BY <2>1 DEF NewestData
    <2> QED
      BY <2>1, <2>2 DEF TakenInv
  <1>7. CASE PublishData
    <2>1. /\ shared' = next /\ pc = "update" /\ pc' = "idle"
          /\ UNCHANGED <<db, fixed, dirty, missed, touched>>
      BY <1>7 DEF PublishData, histVars
    <2>2. NewestData' = NewestData
      BY <2>1 DEF NewestData
    <2> QED
      BY <2>1, <2>2 DEF TakenInv
  <1>8. CASE UNCHANGED privVars
    <2>1. UNCHANGED <<db, fixed, shared, next, pc, dirty, missed, touched>>
      BY <1>8 DEF privVars, objVars, histVars
    <2>2. NewestData' = NewestData
      BY <2>1 DEF NewestData
    <2> QED
      BY <2>1, <2>2 DEF TakenInv
  <1> QED
    BY <1>1, <1>2, <1>3, <1>4, <1>5, <1>6, <1>7, <1>8 DEF DataNext

LEMMA TakenInvHolds == DataSpec => [](DataInv /\ GridInv /\ SameInv /\ TakenInv)
  <1>1. DataSpec => [](DataInv /\ GridInv /\ SameInv)
    BY SameInvHolds
  <1>2. DataInit => TakenInv
    BY TakenInvInit
  <1>3. DataInv /\ GridInv /\ SameInv /\ TakenInv /\ [DataNext]_privVars => TakenInv'
    BY TakenInvStep
  <1> QED
    BY <1>1, <1>2, <1>3, PTL DEF DataSpec

-----------------------------------------------------------------------------
(* Two objects that are settled by the same rows. *)

WholeObject(o) == o \in TidyObject /\ Whole(o.places)

\* The cities and the tickets of an object, and what is made for them.
LEMMA FromIs ==
    ASSUME NEW o, WholeObject(o), NEW p \in o.places
    PROVE  /\ p \in DataRow => (p \in From(o, {"city", "ticket"}) <=> p.kind \in {"city", "ticket"})
           /\ p \in Cores => p \in From(o, {"city", "ticket"})
           /\ \A c \in DataRow : p = LocalOf(c) /\ c.kind = "tour" => p \notin From(o, {"city", "ticket"})
           /\ \A c \in RowsIn(o.places) : p = LocalOf(c) /\ c.kind = "ticket" => p \in From(o, {"city", "ticket"})
  <1> DEFINE K == {"city", "ticket"}
             own == OfKind(o.places, K)
             made == {q \in o.places : \E w \in own : q.id \in {coreId(w.id), gatherId(w.id)}}
  <1>1. From(o, K) = own \union made
    BY DEF From
  <1>2. o.places \subseteq AnyPlace
    BY DEF WholeObject, TidyObject, Tidy
  <1>3. own \subseteq DataRow
    BY <1>2, CoreName, LocalName DEF OfKind, AnyPlace, Cores, Locals
  <1>4. ASSUME p \in DataRow PROVE p \in From(o, K) <=> p.kind \in K
    <2>1. p \notin made
      <3> SUFFICES ASSUME NEW w \in own, p.id \in {coreId(w.id), gatherId(w.id)} PROVE FALSE
        OBVIOUS
      <3>1. coreId(w.id) = <<"coreHotel", w.id[1]>> /\ gatherId(w.id) = <<w.id[1], "gather">>
        BY <1>3, MadeNames
      <3>2. p.id = <<p.id[1]>>
        BY <1>4, RowName
      <3> QED
        BY <3>1, <3>2, LongKeys
    <2> QED
      BY <1>1, <2>1 DEF OfKind
  <1>5. ASSUME p \in Cores PROVE p \in From(o, K)
    <2>1. PICK c \in RowsIn(o.places) : c.kind = "city" /\ p = CoreOf(c)
      BY <1>5, WholeCores DEF WholeObject, CoresWhole
    <2>2. c \in own /\ p.id = coreId(c.id)
      BY <2>1 DEF OfKind, RowsIn, CoreOf, Made
    <2> QED
      BY <1>1, <2>2
  <1>6. ASSUME NEW c \in DataRow, p = LocalOf(c), c.kind = "tour" PROVE p \notin From(o, K)
    <2>1. p.id = <<c.id[1], "gather">> /\ c.id = <<c.id[1]>> /\ c.id[1] # "coreHotel"
      BY <1>6, LocalName, RowName DEF LocalOf
    <2>2. p \notin own
      BY <1>3, <1>6, NoRowIsMade
    <2>3. p \notin made
      <3> SUFFICES ASSUME NEW w \in own, p.id \in {coreId(w.id), gatherId(w.id)} PROVE FALSE
        OBVIOUS
      <3>1. coreId(w.id) = <<"coreHotel", w.id[1]>> /\ gatherId(w.id) = <<w.id[1], "gather">>
        BY <1>3, MadeNames
      <3>2. w.id[1] = c.id[1]
        BY <2>1, <3>1, LongKeys
      <3>3. w.id = c.id
        BY <1>3, <2>1, <3>2, RowName
      <3>4. w.kind = c.kind
        BY <1>3, <3>3, SameId
      <3> QED
        BY <1>6, <3>4 DEF OfKind
    <2> QED
      BY <1>1, <2>2, <2>3
  <1>7. ASSUME NEW c \in RowsIn(o.places), p = LocalOf(c), c.kind = "ticket" PROVE p \in From(o, K)
    <2>1. c \in own /\ p.id = gatherId(c.id)
      BY <1>7 DEF OfKind, RowsIn, LocalOf, Made
    <2> QED
      BY <1>1, <2>1
  <1> QED
    BY <1>4, <1>5, <1>6, <1>7

\* What one object shows beside the cities and the tickets, another shows that
\* is settled by the same rows.
LEMMA SamePlain ==
    ASSUME NEW o, NEW w, WholeObject(o), WholeObject(w), NEW D \in SUBSET DataRow,
           NEW gone \in SUBSET DataRow,
           \A z \in DataRow : (\E q \in gone : SameRow(q, z)) \/ (Settled(o, D, z) /\ Settled(w, D, z)),
           NEW p \in o.places \ From(o, {"city", "ticket"}),
           \A q \in gone : <<q.id, q.pt>> # <<p.id, p.pt>> /\ p.id # gatherId(q.id)
    PROVE  p \in w.places \ From(w, {"city", "ticket"})
  <1>1. p \in AnyPlace
    BY DEF WholeObject, TidyObject, Tidy
  <1>2. CASE p \in DataRow
    <2>1. p.kind \notin {"city", "ticket"}
      BY <1>2, FromIs
    <2>2. \A q \in gone : ~SameRow(q, p)
      BY DEF SameRow
    <2>3. p \in w.places
      BY <1>2, <2>1, <2>2, SettledRow
    <2> QED
      BY <1>2, <2>1, <2>3, FromIs
  <1>3. CASE p \in Locals
    <2>1. PICK c \in RowsIn(o.places) : p \in MadeFor(c)
      BY <1>3, NoRowIsMade DEF WholeObject, Whole
    <2>2. c \in DataRow /\ c \in o.places
      BY <2>1 DEF RowsIn
    <2>3. c.kind \in TourKind /\ c.gather /\ p = LocalOf(c)
      <3>1. p # CoreOf(c)
        BY <1>3, <2>2, NoRowIsMade, MadeIds
      <3> QED
        BY <2>1, <3>1 DEF MadeFor
    <2>4. c.kind = "tour"
      BY <2>1, <2>3, FromIs DEF TourKind
    <2>5. \A q \in gone : ~SameRow(q, c)
      <3> SUFFICES ASSUME NEW q \in gone, q.id = c.id PROVE FALSE
        BY DEF SameRow
      <3>1. p.id = gatherId(q.id)
        BY <2>3 DEF LocalOf, Made
      <3> QED
        BY <3>1
    <2>6. c \in w.places
      BY <2>2, <2>4, <2>5, SettledRow
    <2>7. p \in w.places
      <3>1. c \in RowsIn(w.places)
        BY <2>2, <2>6 DEF RowsIn
      <3> QED
        BY <2>1, <3>1 DEF WholeObject, Whole
    <2> QED
      BY <2>2, <2>3, <2>4, <2>7, FromIs
  <1>4. CASE p \in Cores
    BY <1>4, FromIs
  <1> QED
    BY <1>1, <1>2, <1>3, <1>4 DEF AnyPlace

\* The cities of a load are there, with their core hotels.
LEMMA SameCities ==
    ASSUME NEW o, NEW w, WholeObject(o), WholeObject(w), NEW D \in SUBSET DataRow,
           \A z \in DataRow : Settled(o, D, z), \A q \in RowsIn(w.places) : q \in D /\ ComesIn(q)
    PROVE  From(w, {"city"}) \subseteq o.places
  <1> DEFINE own == OfKind(w.places, {"city"})
             made == {q \in w.places : \E c \in own : q.id \in {coreId(c.id), gatherId(c.id)}}
  <1>1. From(w, {"city"}) = own \union made
    BY DEF From
  <1>2. w.places \subseteq AnyPlace
    BY DEF WholeObject, TidyObject, Tidy
  <1>3. \A c \in own : c \in DataRow /\ c \in w.places /\ c.kind = "city" /\ c \in RowsIn(w.places)
    BY <1>2, CoreName, LocalName DEF OfKind, AnyPlace, Cores, Locals, RowsIn
  <1>4. \A c \in RowsIn(w.places) : c.kind = "city" => c \in o.places
    <2> SUFFICES ASSUME NEW c \in RowsIn(w.places), c.kind = "city" PROVE c \in o.places
      OBVIOUS
    <2>1. c \in DataRow /\ c \in D /\ ComesIn(c) /\ Settled(o, D, c) /\ SameRow(c, c)
      BY DEF RowsIn, SameRow
    <2> QED
      BY <2>1 DEF Settled
  <1>5. ASSUME NEW c \in own, NEW q \in w.places, q.id \in {coreId(c.id), gatherId(c.id)}
        PROVE  q \in o.places
    <2>1. /\ coreId(c.id) = <<"coreHotel", c.id[1]>> /\ gatherId(c.id) = <<c.id[1], "gather">>
          /\ c.id = <<c.id[1]>> /\ c.id[1] # "coreHotel"
      BY <1>3, MadeNames, RowName
    <2>2. q \notin DataRow
      BY <1>5, <2>1, RowName, LongKeys
    <2>3. PICK d \in RowsIn(w.places) : q \in MadeFor(d)
      BY <1>5, <2>2 DEF WholeObject, Whole
    <2>4. d \in DataRow /\ d.id = <<d.id[1]>> /\ d.id[1] # "coreHotel"
      BY <2>3, RowName DEF RowsIn
    <2>5. d.kind = "city"
      <3> SUFFICES ASSUME d.kind # "city" PROVE FALSE
        OBVIOUS
      <3>1. q = LocalOf(d) /\ d.kind \in TourKind
        BY <2>3 DEF MadeFor
      <3>2. q.id = <<d.id[1], "gather">>
        BY <2>4, <3>1, LocalName DEF LocalOf
      <3>3. d.id[1] = c.id[1]
        BY <1>5, <2>1, <2>4, <3>2, LongKeys
      <3>4. d.kind = c.kind
        BY <1>3, <2>1, <2>4, <3>3, SameId
      <3> QED
        BY <1>3, <3>1, <3>4 DEF TourKind
    <2>6. d \in RowsIn(o.places)
      BY <1>4, <2>3, <2>4, <2>5 DEF RowsIn
    <2> QED
      BY <2>3, <2>6 DEF WholeObject, Whole
  <1> QED
    BY <1>1, <1>3, <1>4, <1>5

\* A ticket that can be seen is in a load.
LEMMA SameTickets ==
    ASSUME NEW o, WholeObject(o), NEW D \in SUBSET DataRow, UniqueRows(D),
           \A z \in DataRow : Settled(o, D, z),
           NEW C \in SUBSET Spot, NEW W \in SUBSET GridKey,
           NEW x, x = PrivateLoad(D, None, <<C, W>>), x.shields \subseteq o.shields,
           NEW p \in Visible(o), p.kind = "ticket"
    PROVE  p \in x.places
  <1> SUFFICES ASSUME p \notin x.places PROVE FALSE
    OBVIOUS
  <1>1. o.places \subseteq AnyPlace /\ p \in o.places /\ Shown(o, p.ref, p.pt) # {}
    BY DEF WholeObject, TidyObject, Tidy, Visible
  <1>2. p \in DataRow
    BY <1>1, CoreName, LocalName DEF AnyPlace, Cores, Locals
  <1>3. p \in D /\ ComesIn(p)
    BY <1>1, <1>2 DEF Settled, SameRow
  <1>4. /\ <<p.pt, p.ref>> \in x.shields \/ p.ref \notin Base
        /\ \A v \in D : v.kind = "view" /\ ComesIn(v) =>
              getUniqId(v) \notin {p.ref, p.ref \o <<p.pt>>}
    BY <1>3, TicketSkipped
  <1>5. <<p.pt, p.ref>> \notin o.shields
    BY <1>1 DEF Shown
  <1>6. First(<<GetLYPlace(o, p.ref, p.pt), PublicView(p.ref)>>) # {}
    BY <1>1, <1>5 DEF Shown
  <1>7. PublicView(p.ref) = {}
    BY <1>4, <1>5 DEF PublicView
  <1>8. GetLYPlace(o, p.ref, p.pt) # {}
    BY <1>6, <1>7, FirstOfTwo
  <1>9. PICK v \in RowsIn(o.places) : v.kind = "view" /\ getUniqId(v) \in {p.ref, p.ref \o <<p.pt>>}
    BY <1>1, <1>2, <1>8, ViewFound
  <1>10. v \in D /\ ComesIn(v)
    BY <1>9 DEF RowsIn, Settled, SameRow
  <1> QED
    BY <1>4, <1>9, <1>10

\* Once every changed row has been read.
LEMMA SettledIsSame == DataInv /\ GridInv /\ SameInv /\ TakenInv => SameAsLoad
  <1> SUFFICES ASSUME DataInv, GridInv, SameInv, TakenInv, pc = "idle", dirty = {} PROVE SameAsLoad
    BY DEF SameAsLoad
  <1> DEFINE fresh == PrivateLoad(db, None, <<{}, {}>>)
             failed == {<<r.id, r.pt>> : r \in missed}
             plain(o) == {p \in o.places \ From(o, {"city", "ticket"}) :
                             /\ <<p.id, p.pt>> \notin failed
                             /\ \A r \in missed : p.id # gatherId(r.id)}
  <1>1. /\ db \in SUBSET DataRow /\ UniqueRows(db) /\ shared \in TidyObject /\ missed \in SUBSET DataRow
        /\ WholeObject(shared)
    BY DEF DataInv, GridInv, SameInv, WholeObject
  <1>2. \A z \in DataRow : (\E q \in missed : SameRow(q, z)) \/ Settled(shared, db, z)
    BY DEF SameInv, Unread, NewestData
  <1>0. None \in Seen /\ {} \in SUBSET Spot /\ {} \in SUBSET GridKey
    BY DEF Seen
  <1>3. WholeState(fresh) /\ \A z \in DataRow : Settled(fresh, db, z)
    BY <1>0, <1>1, LoadSettles
  <1>4. /\ \A q \in RowsIn(fresh.places) : q \in db /\ ComesIn(q)
        /\ \A y \in fresh.shields : \E r \in db : y \in Shields(r)
    BY <1>0, <1>1, LoadOnly
  <1> DEFINE w == Object(fresh)
  <1>5. w.places = fresh.places /\ w.shields = fresh.shields
    BY DEF Object
  <1>6. \A K : From(w, K) = From(fresh, K)
    BY <1>5 DEF From
  <1>7. WholeObject(w) /\ \A z \in DataRow : Settled(w, db, z)
    <2>1. w \in TidyObject
      <3>1. fresh \in TidyState
        BY <1>3 DEF WholeState, TidyState
      <3> HIDE DEF fresh
      <3> QED
        BY <3>1, ObjectTidy
    <2> HIDE DEF w
    <2>2. WholeObject(w)
      BY <1>3, <1>5, <2>1 DEF WholeObject, WholeState
    <2> HIDE DEF fresh
    <2> QED
      BY <1>3, <1>5, <2>2, SameSettled
  <1> HIDE DEF w
  <1>8. plain(shared) = plain(fresh)
    <2>1. plain(fresh) = plain(w)
      BY <1>5, <1>6
    <2> HIDE DEF fresh
    <2>2. \A p : p \in plain(shared) => p \in plain(w)
      <3> SUFFICES ASSUME NEW p \in plain(shared) PROVE p \in w.places \ From(w, {"city", "ticket"})
        OBVIOUS
      <3>1. \A q \in missed : <<q.id, q.pt>> # <<p.id, p.pt>> /\ p.id # gatherId(q.id)
        OBVIOUS
      <3> QED
        BY <1>1, <1>2, <1>7, <3>1, SamePlain
    <2>3. \A p : p \in plain(w) => p \in plain(shared)
      <3> SUFFICES ASSUME NEW p \in plain(w) PROVE p \in shared.places \ From(shared, {"city", "ticket"})
        OBVIOUS
      <3>1. \A q \in missed : <<q.id, q.pt>> # <<p.id, p.pt>> /\ p.id # gatherId(q.id)
        OBVIOUS
      <3> QED
        BY <1>1, <1>2, <1>7, <3>1, SamePlain
    <2> HIDE DEF plain
    <2>4. plain(shared) = plain(w)
      BY <2>2, <2>3
    <2> QED
      BY <2>1, <2>4
  <1>9. ASSUME missed = {}
        PROVE  /\ From(fresh, {"city"}) \subseteq shared.places
               /\ OfKind(Visible(shared), {"ticket"}) \subseteq fresh.places
               /\ fresh.shields \subseteq shared.shields
    <2> HIDE DEF plain, failed
    <2>1. \A z \in DataRow : Settled(shared, db, z)
      BY <1>2, <1>9
    <2>2. fresh.shields \subseteq shared.shields
      <3> HIDE DEF fresh
      <3> SUFFICES ASSUME NEW y \in fresh.shields PROVE y \in shared.shields
        OBVIOUS
      <3>1. PICK r \in db : y \in Shields(r)
        BY <1>4
      <3>2. Settled(shared, db, r) /\ SameRow(r, r)
        BY <1>1, <2>1 DEF SameRow
      <3> QED
        BY <3>1, <3>2 DEF Settled
    <2>3. From(fresh, {"city"}) \subseteq shared.places
      <3> HIDE DEF fresh
      <3>1. From(w, {"city"}) \subseteq shared.places
        BY <1>1, <1>4, <1>5, <1>7, <2>1, SameCities
      <3> QED
        BY <1>6, <3>1
    <2>4. \A p \in OfKind(Visible(shared), {"ticket"}) : p \in fresh.places
      <3> SUFFICES ASSUME NEW p \in Visible(shared), p.kind = "ticket" PROVE p \in fresh.places
        BY DEF OfKind
      <3> QED
        BY <1>1, <2>1, <2>2, SameTickets
    <2> QED
      BY <2>2, <2>3, <2>4
  <1>13. ASSUME NEW p \in shared.places, p \in fresh.places, p.kind \in TakerKind, p.ref \notin touched
         PROVE  TakenBy(shared, p) = TakenBy(fresh, p)
    <2>1. TakesRight(fresh, db, {})
      BY <1>0, <1>1, LoadTakes
    <2>2. TakesRight(shared, db, touched)
      BY DEF TakenInv, NewestData
    <2>3. shared.taken \subseteq Takings /\ fresh.taken \subseteq Takings
      <3>1. fresh \in StateType
        BY <1>3 DEF WholeState
      <3> HIDE DEF fresh
      <3> QED
        BY <1>1, <3>1 DEF TidyObject, ObjectType, StateType
    <2> HIDE DEF fresh
    <2>4. CASE p \in DataRow
      BY <1>13, <2>1, <2>2, <2>4 DEF TakesRight, RowsIn
    <2>5. CASE p \notin DataRow
      <3>1. \A x \in Takings : x[1] # p
        BY <2>5 DEF Takings
      <3>2. TakenBy(shared, p) = {} /\ TakenBy(fresh, p) = {}
        BY <2>3, <3>1 DEF TakenBy
      <3> QED
        BY <3>2
    <2> QED
      BY <2>4, <2>5
  <1> HIDE DEF fresh, plain, failed
  <1>10. /\ plain(shared) = plain(fresh)
         /\ missed = {} =>
              /\ From(fresh, {"city"}) \subseteq shared.places
              /\ OfKind(Visible(shared), {"ticket"}) \subseteq fresh.places
              /\ fresh.shields \subseteq shared.shields
    BY <1>8, <1>9
  <1>11. SameRows(fresh)
    BY <1>10 DEF SameRows, plain, failed
  <1>12. SameTaken(fresh)
    BY <1>13 DEF SameTaken, OfKind, TakerKind
  <1> QED
    BY <1>11, <1>12 DEF SameAsLoad, fresh

\* Once every changed row has been read, the shared object has the places that
\* a restart would load, whatever was changed, copied, read and published in
\* whatever order, but for the rows whose Update failed or that were deleted,
\* the cities that are disabled, the shields and the tickets without a view;
\* and its tickets, tours and hotels have taken from the places that they name
\* what they would take at a restart, unless a row of that place has changed
\* since the start (MYHotUpdate.cpp, reloadData, against PrivateConstData.cpp,
\* LoadPrivateData, 889-925 and 1063-1067).
THEOREM PrivateSameAsLoad == DataSpec => []SameAsLoad
  BY TakenInvHolds, SettledIsSame, PTL

-----------------------------------------------------------------------------
(* HotUpdate. *)

USE NThreadAssumption, NTableAssumption, NULLAssumption, BoundAssumption

\* The server starts in a state of the invariant.
THEOREM InitHInv == Init => HInv
<1> SUFFICES ASSUME Init PROVE HInv
  OBVIOUS
<1> USE DEF Init, Thread, Table
<1>1. newTS \in [Table -> 0..MaxTime]
  OBVIOUS
<1>2. NoData \in [Table -> SUBSET Row]
  BY DEF NoData
<1>3. TypeOK
  <2>1. /\ content \in [Addr -> [Table -> SUBSET Row]]
        /\ log \in [Table -> SUBSET Row]
    BY <1>2
  <2>2. /\ pcT \in [Thread -> ThreadPC]
        /\ threadData \in [Thread -> Addr \cup {NULL}]
        /\ pcU \in StartPC \cup SvcPC
    BY DEF ThreadPC, StartPC
  <2>3. /\ i \in 1..(NThread + NTable + 1)
        /\ now \in 1..MaxTime
        /\ lastTS \in [Table -> 0..MaxTime]
    BY <1>1
  <2> QED
    BY <1>1, <2>1, <2>2, <2>3 DEF TypeOK
<1>4. NoLeak
  BY DEF NoLeak
<1>5. LockInv /\ PhaseInv /\ RegisterInv /\ ScanInv /\ IndexInv
  BY DEF LockInv, PhaseInv, RegisterInv, ScanInv, IndexInv, ReadingPC
<1> QED
  BY <1>3, <1>4, <1>5 DEF HInv

\* Storing rows in one table of one object keeps the type of the heap.
LEMMA ContentType ==
    ASSUME NEW c \in [Addr -> [Table -> SUBSET Row]], NEW a, NEW t, NEW all \in BOOLEAN,
           NEW rows \in SUBSET Row
    PROVE  [c EXCEPT ![a][t] = IF all THEN rows ELSE @ \cup rows]
               \in [Addr -> [Table -> SUBSET Row]]
OBVIOUS

\* The marks of the tables that were read in part keep their type.
LEMMA MarkType ==
    ASSUME incomplete \in [Addr -> SUBSET Table], NEW tables \in SUBSET Table
    PROVE  /\ ReadInPart(tables) \in [Addr -> SUBSET Table]
           /\ [incomplete EXCEPT ![ptr] = @ \ tables] \in [Addr -> SUBSET Table]
BY DEF ReadInPart

\* The current object exists once svc runs, so that reloadData can copy it.
LEMMA CurAllocated == HInv /\ pcU \notin {"init", "load"} => cur \in Addr
BY DEF HInv, TypeOK, PhaseInv

\* Every step keeps the types and the ranges of the loop counters.
LEMMA NextTypeOK == HInv /\ [Next]_vars => TypeOK' /\ IndexInv'
<1> SUFFICES ASSUME HInv, [Next]_vars PROVE TypeOK' /\ IndexInv'
  OBVIOUS
<1> TypeOK /\ IndexInv
  BY DEF HInv
<1> USE DEF TypeOK, IndexInv, ThreadPC, StartPC, SvcPC, vars, dataVars,
        lockVars, threadVars, tsVars, stopVars, dbVars, procVars, envVars,
        threadFrame
<1>1. CASE InitPoll
  <2>1. i \in Table /\ pcU = "init"
    BY <1>1 DEF InitPoll, PollTable
  <2>2. PICK ts \in {newTS[i]} \cup UpdateTime(i) :
            newTS' = [newTS EXCEPT ![i] = ts]
    BY <1>1 DEF InitPoll, PollTable
  <2>3. ts \in 0..MaxTime
    BY <2>1, <2>2 DEF UpdateTime
  <2>4. newTS' \in [Table -> 0..MaxTime]
    BY <2>2, <2>3
  <2>5. lastTS' \in [Table -> 0..MaxTime] /\ i' = i + 1
    BY <1>1, <2>1 DEF InitPoll, PollTable
  <2>6. UNCHANGED <<dataVars, procVars, pcU, ptr, ret, envVars>>
    BY <1>1 DEF InitPoll
  <2>7. i' \in 1..(NTable + 1) /\ i' \in 1..(NThread + NTable + 1)
    BY <2>1, <2>5 DEF Table
  <2> QED
    BY <2>1, <2>4, <2>5, <2>6, <2>7
<1>2. CASE NewData
  <2>1. PICK a \in Addr \ live :
            /\ live' = live \cup {a}
            /\ content' = [content EXCEPT ![a] = NoData]
            /\ incomplete' = [incomplete EXCEPT ![a] = {}]
            /\ ptr' = a
    BY <1>2 DEF NewData
  <2>2. NoData \in [Table -> SUBSET Row]
    BY DEF NoData
  <2>3. /\ content' \in [Addr -> [Table -> SUBSET Row]]
        /\ incomplete' \in [Addr -> SUBSET Table]
    BY <2>1, <2>2
  <2>4. /\ pcU' = "load" /\ i' = 1 /\ ret' \in {0, 1}
        /\ UNCHANGED <<cur, new, procVars, tsVars, envVars>>
    BY <1>2 DEF NewData
  <2> QED
    BY <2>1, <2>3, <2>4
<1>3. CASE LoadTable
  <2>1. PICK rows \in SUBSET log[i] :
            content' = [content EXCEPT ![ptr][i] = rows]
    BY <1>3 DEF LoadTable
  <2>2. /\ i \in Table /\ i' = i + 1
        /\ pcU = "load" /\ {i} \subseteq Table
        /\ incomplete' = incomplete \/ incomplete' = ReadInPart({i})
        /\ UNCHANGED <<cur, new, live, procVars, pcU, ptr, ret, tsVars,
                       stopVars, dbVars>>
    BY <1>3 DEF LoadTable
  <2>3. rows \in SUBSET Row
    BY <2>1, <2>2
  <2>4. content' \in [Addr -> [Table -> SUBSET Row]]
    BY <2>1, <2>2, <2>3
  <2>5. incomplete' \in [Addr -> SUBSET Table]
    BY <2>2, MarkType
  <2> QED
    BY <2>2, <2>4, <2>5 DEF Table
<1>4. CASE LoadFails
  <2>1. i..NTable \subseteq Table /\ incomplete' = ReadInPart(i..NTable)
    BY <1>4 DEF LoadFails, Table
  <2>2. incomplete' \in [Addr -> SUBSET Table]
    BY <2>1, MarkType
  <2> QED
    BY <1>4, <2>2 DEF LoadFails, Table
<1>5. CASE initSharedData
  BY <1>5 DEF initSharedData
<1>6. CASE SvcStart
  BY <1>6 DEF SvcStart
<1>7. CASE Wake
  BY <1>7 DEF Wake
<1>8. CASE ScanLock
  BY <1>8 DEF ScanLock, writeLock
<1>9. CASE ScanNext
  BY <1>9 DEF ScanNext, Thread
<1>10. CASE ScanInUse
  BY <1>10 DEF ScanInUse, writeUnlock
<1>11. CASE DeleteOld
  <2>1. NoData \in [Table -> SUBSET Row]
    BY DEF NoData
  <2>2. /\ content' \in [Addr -> [Table -> SUBSET Row]]
        /\ incomplete' \in [Addr -> SUBSET Table]
    BY <1>11, <2>1 DEF DeleteOld
  <2>3. /\ cur' = new /\ new' = NULL /\ live' = live \ {cur}
        /\ writer' = FALSE /\ i' = 1 /\ pcU' = "time"
        /\ UNCHANGED <<threadVars, readers, ptr, ret, tsVars, envVars>>
    BY <1>11 DEF DeleteOld, writeUnlock
  <2>4. i' \in 1..(NTable + 1) /\ i' \in 1..(NThread + NTable + 1)
    BY <2>3
  <2>5. live' \subseteq Addr /\ writer' \in BOOLEAN
    BY <2>3
  <2> QED
    BY <2>2, <2>3, <2>4, <2>5
<1>12. CASE Poll
  <2>1. i \in Table /\ pcU = "time"
    BY <1>12 DEF Poll, PollTable
  <2>2. PICK ts \in {newTS[i]} \cup UpdateTime(i) :
            newTS' = [newTS EXCEPT ![i] = ts]
    BY <1>12 DEF Poll, PollTable
  <2>3. ts \in 0..MaxTime
    BY <2>1, <2>2 DEF UpdateTime
  <2>4. newTS' \in [Table -> 0..MaxTime]
    BY <2>2, <2>3
  <2>5. lastTS' \in [Table -> 0..MaxTime] /\ i' = i + 1
    BY <1>12, <2>1 DEF Poll, PollTable
  <2>6. UNCHANGED <<dataVars, procVars, pcU, ptr, ret, envVars>>
    BY <1>12 DEF Poll
  <2>7. i' \in 1..(NTable + 1) /\ i' \in 1..(NThread + NTable + 1)
    BY <2>1, <2>5 DEF Table
  <2> QED
    BY <2>1, <2>4, <2>5, <2>6, <2>7
<1>13. CASE Diff
  BY <1>13 DEF Diff
<1>14. CASE Copy
  <2>1. PICK a \in Addr \ live :
            /\ live' = live \cup {a}
            /\ content' = [content EXCEPT ![a] = content[cur]]
            /\ incomplete' = [incomplete EXCEPT ![a] = incomplete[cur]]
            /\ ptr' = a
    BY <1>14 DEF Copy
  <2>2. content[cur] \in [Table -> SUBSET Row] /\ incomplete[cur] \subseteq Table
    BY <1>14, CurAllocated DEF Copy
  <2>3. /\ content' \in [Addr -> [Table -> SUBSET Row]]
        /\ incomplete' \in [Addr -> SUBSET Table]
    BY <2>1, <2>2
  <2>4. /\ pcU' = "update" /\ i' = 1 /\ ret' \in {0, 1}
        /\ UNCHANGED <<cur, new, procVars, tsVars, envVars>>
    BY <1>14 DEF Copy
  <2> QED
    BY <2>1, <2>3, <2>4
<1>15. CASE CopyFails
  BY <1>15 DEF CopyFails
<1>16. CASE SkipTable
  BY <1>16 DEF SkipTable, Table
<1>17. CASE Update \/ UpdateCutShort
  <2>1. i \in Table /\ pcU = "update" /\ {i} \subseteq Table
    BY <1>17 DEF Update, UpdateCutShort, Updating
  <2>2. Selected(i) \subseteq Row
    BY <2>1 DEF Selected, Window
  <2>3. PICK rows \in SUBSET Row : UpdateTable(rows)
    BY <1>17, <2>2 DEF Update, UpdateCutShort
  <2>4. content' \in [Addr -> [Table -> SUBSET Row]]
    BY <2>3, ContentType DEF UpdateTable
  <2>5. incomplete' \in [Addr -> SUBSET Table]
    BY <1>17, <2>1, MarkType DEF Update, UpdateCutShort
  <2>6. /\ i' = i + 1
        /\ UNCHANGED <<cur, new, live, procVars, pcU, ptr, ret, tsVars, envVars>>
    BY <2>3 DEF UpdateTable
  <2> QED
    BY <2>1, <2>4, <2>5, <2>6 DEF Table
<1>18. CASE UpdateFails
  <2>1. i \in Table /\ pcU = "update" /\ {i} \subseteq Table
    BY <1>18 DEF UpdateFails, Updating
  <2>2. incomplete' \in [Addr -> SUBSET Table]
    BY <1>18, <2>1, MarkType DEF UpdateFails
  <2>3. /\ i' = i + 1 /\ ret' \in {0, 1}
        /\ UNCHANGED <<cur, new, live, content, procVars, pcU, ptr, tsVars, envVars>>
    BY <1>18 DEF UpdateFails
  <2> QED
    BY <2>1, <2>2, <2>3 DEF Table
<1>20. CASE ReloadDone
  BY <1>20 DEF ReloadDone
<1>21. CASE PublishLock
  BY <1>21 DEF PublishLock, writeLock
<1>22. CASE Publish
  BY <1>22 DEF Publish, writeUnlock
<1>23. CASE Test
  BY <1>23 DEF Test
<1>24. CASE stop
  BY <1>24 DEF stop
<1>25. CASE Tick
  BY <1>25 DEF Tick
<1>26. CASE \E t \in Table : Commit(t)
  <2>1. PICK t \in Table, k \in 1..MaxRow :
            log' = [log EXCEPT ![t] = @ \cup {<<now, k>>}]
    BY <1>26 DEF Commit
  <2>2. <<now, k>> \in Row
    BY DEF Row
  <2>3. log' \in [Table -> SUBSET Row]
    BY <2>1, <2>2
  <2>4. UNCHANGED <<dataVars, procVars, pcU, i, ptr, ret, tsVars, stopVars, now>>
    BY <1>26 DEF Commit
  <2> QED
    BY <2>3, <2>4
<1>27. CASE \E p \in Thread : Get(p) \/ ThreadStep(p)
  <2> PICK p \in Thread : Get(p) \/ ThreadStep(p)
    BY <1>27
  <2>1. CASE Get(p)
    BY <2>1 DEF Get
  <2>2. CASE AddLock(p)
    BY <2>2 DEF AddLock, readLock
  <2>3. CASE AddTest(p)
    BY <2>3 DEF AddTest
  <2>4. CASE addSharedDataPtr(p)
    BY <2>4 DEF addSharedDataPtr, readUnlock
  <2>5. CASE Reject(p)
    BY <2>5 DEF Reject
  <2>6. CASE Accept(p)
    BY <2>6 DEF Accept
  <2>7. CASE RouteLock(p)
    BY <2>7 DEF RouteLock, readLock
  <2>8. CASE DoRoute(p)
    BY <2>8 DEF DoRoute, readUnlock
  <2>9. CASE DelLock(p)
    BY <2>9 DEF DelLock, readLock
  <2>10. CASE delSharedDataPtr(p)
    BY <2>10 DEF delSharedDataPtr, readUnlock
  <2> QED
    BY <2>1, <2>2, <2>3, <2>4, <2>5, <2>6, <2>7, <2>8, <2>9, <2>10
       DEF ThreadStep
<1>28. CASE UNCHANGED vars
  BY <1>28
<1> QED
  BY <1>1, <1>2, <1>3, <1>4, <1>5, <1>6, <1>7, <1>8, <1>9, <1>10, <1>11,
     <1>12, <1>13, <1>14, <1>15, <1>16, <1>17, <1>18, <1>20, <1>21,
     <1>22, <1>23, <1>24, <1>25, <1>26, <1>27, <1>28 DEF Next, Startup, Svc

\* Every step of every thread, of the updater, of start-up and of the database
\* keeps the lock discipline and the life of the objects: one case per action.
LEMMA NextHInv == HInv /\ [Next]_vars => HInv'
<1> SUFFICES ASSUME HInv, [Next]_vars
             PROVE  LockInv' /\ PhaseInv' /\ RegisterInv' /\ ScanInv' /\ NoLeak'
  BY NextTypeOK DEF HInv
<1> USE DEF HInv, LockInv, PhaseInv, RegisterInv, ScanInv, NoLeak, ReadingPC,
        TypeOK, vars, dataVars, lockVars, threadVars, tsVars,
        stopVars, dbVars, procVars, envVars, threadFrame
<1>1. CASE InitPoll
  BY <1>1 DEF InitPoll, PollTable
<1>2. CASE NewData
  BY <1>2 DEF NewData
<1>3. CASE LoadTable
  BY <1>3 DEF LoadTable
<1>4. CASE LoadFails
  BY <1>4 DEF LoadFails
<1>5. CASE initSharedData
  BY <1>5 DEF initSharedData
<1>6. CASE SvcStart
  BY <1>6 DEF SvcStart
<1>7. CASE Wake
  BY <1>7 DEF Wake
<1>8. CASE ScanLock
  <2>1. ScanInv'
    BY <1>8 DEF ScanLock, IndexInv, Thread
  <2> QED
    BY <1>8, <2>1 DEF ScanLock, writeLock
<1>9. CASE ScanNext
  <2>1. ScanInv'
    BY <1>9 DEF ScanNext, Thread
  <2> QED
    BY <1>9, <2>1 DEF ScanNext
<1>10. CASE ScanInUse
  BY <1>10 DEF ScanInUse, writeUnlock
<1>11. CASE DeleteOld
  <2>1. \A p \in Thread : threadData[p] # cur
    BY <1>11 DEF DeleteOld, Thread
  <2>2. RegisterInv'
    BY <1>11, <2>1 DEF DeleteOld, writeUnlock
  <2>3. NoLeak' /\ PhaseInv'
    BY <1>11 DEF DeleteOld
  <2>4. LockInv' /\ ScanInv'
    BY <1>11 DEF DeleteOld, writeUnlock
  <2> QED
    BY <2>2, <2>3, <2>4
<1>12. CASE Poll
  BY <1>12 DEF Poll, PollTable
<1>13. CASE Diff
  BY <1>13 DEF Diff
<1>14. CASE Copy
  BY <1>14 DEF Copy
<1>15. CASE CopyFails
  BY <1>15 DEF CopyFails
<1>16. CASE SkipTable
  BY <1>16 DEF SkipTable
<1>17. CASE Update
  BY <1>17 DEF Update, Updating, UpdateTable
<1>18. CASE UpdateFails
  BY <1>18 DEF UpdateFails, Updating, UpdateTable
<1>19. CASE UpdateCutShort
  BY <1>19 DEF UpdateCutShort, Updating, UpdateTable
<1>20. CASE ReloadDone
  BY <1>20 DEF ReloadDone
<1>21. CASE PublishLock
  BY <1>21 DEF PublishLock, writeLock
<1>22. CASE Publish
  BY <1>22 DEF Publish, writeUnlock
<1>23. CASE Test
  BY <1>23 DEF Test
<1>24. CASE stop
  BY <1>24 DEF stop
<1>25. CASE Tick
  BY <1>25 DEF Tick
<1>26. CASE \E t \in Table : Commit(t)
  BY <1>26 DEF Commit
<1>27. CASE \E p \in Thread : Get(p) \/ ThreadStep(p)
  <2> PICK p \in Thread : Get(p) \/ ThreadStep(p)
    BY <1>27
  <2>1. CASE Get(p)
    BY <2>1 DEF Get
  <2>2. CASE AddLock(p)
    BY <2>2 DEF AddLock, readLock, WriterWaits
  <2>3. CASE AddTest(p)
    BY <2>3 DEF AddTest
  <2>4. CASE addSharedDataPtr(p)
    BY <2>4 DEF addSharedDataPtr, readUnlock
  <2>5. CASE Reject(p)
    BY <2>5 DEF Reject
  <2>6. CASE Accept(p)
    BY <2>6 DEF Accept
  <2>7. CASE RouteLock(p)
    BY <2>7 DEF RouteLock, readLock, WriterWaits
  <2>8. CASE DoRoute(p)
    BY <2>8 DEF DoRoute, readUnlock
  <2>9. CASE DelLock(p)
    BY <2>9 DEF DelLock, readLock, WriterWaits
  <2>10. CASE delSharedDataPtr(p)
    BY <2>10 DEF delSharedDataPtr, readUnlock
  <2> QED
    BY <2>1, <2>2, <2>3, <2>4, <2>5, <2>6, <2>7, <2>8, <2>9, <2>10
       DEF ThreadStep
<1>28. CASE UNCHANGED vars
  BY <1>28
<1> QED
  BY <1>1, <1>2, <1>3, <1>4, <1>5, <1>6, <1>7, <1>8, <1>9, <1>10, <1>11,
     <1>12, <1>13, <1>14, <1>15, <1>16, <1>17, <1>18, <1>19, <1>20, <1>21,
     <1>22, <1>23, <1>24, <1>25, <1>26, <1>27, <1>28 DEF Next, Startup, Svc

-----------------------------------------------------------------------------
\* The lock discipline and the life of the objects are invariant.
THEOREM Invariance == Spec => []HInv
BY InitHInv, NextHInv, PTL DEF Spec

\* Every variable keeps its type in every behaviour of the server.
THEOREM TypeCorrect == Spec => []TypeOK
<1>1. HInv => TypeOK
  BY DEF HInv
<1> QED
  BY <1>1, Invariance, PTL

\* Memory safety of the hot update: addSharedDataPtr, delSharedDataPtr and
\* step 0 of svc together never leave a thread with a freed object.
THEOREM MemorySafety == Spec => []NoUseAfterFree
<1>1. HInv => NoUseAfterFree
  BY DEF HInv, PhaseInv, RegisterInv, NoLeak, NoUseAfterFree
<1> QED
  BY <1>1, Invariance, PTL

\* svc and reloadData free every object they allocate, except the ones that
\* are current, new or under construction.
THEOREM LeakFreedom == Spec => []NoLeak
<1>1. HInv => NoLeak
  BY DEF HInv
<1> QED
  BY <1>1, Invariance, PTL

-----------------------------------------------------------------------------
\* The steps that write into an object or register another one.
LEMMA StepKeepsVersion ==
    HInv /\ [Next]_vars => [\A p \in Thread : VersionKept(p)]_vars
<1> SUFFICES ASSUME HInv, Next, NEW p \in Thread,
                    pcT[p] \in {"parsed", "route", "routing", "del"}
             PROVE  /\ threadData'[p] = threadData[p]
                    /\ content'[threadData[p]] = content[threadData[p]]
  BY DEF VersionKept
<1> USE DEF HInv, TypeOK, dataVars, lockVars, threadVars, tsVars, stopVars,
        dbVars, procVars, envVars, threadFrame
<1>0. /\ pcU \notin {"init", "load"}
      /\ threadData[p] # NULL
      /\ threadData[p] \in {cur, new}
      /\ threadData[p] \in live
  BY DEF RegisterInv, PhaseInv, NoLeak
<1>1. CASE Startup
  BY <1>0, <1>1 DEF Startup, InitPoll, NewData, LoadTable, LoadFails,
                    initSharedData
<1>2. CASE DeleteOld
  <2>1. threadData[p] # cur
    BY <1>2 DEF DeleteOld, ScanInv, Thread
  <2> QED
    BY <1>2, <2>1 DEF DeleteOld
<1>3. CASE Copy
  <2>1. PICK a \in Addr \ live : content' = [content EXCEPT ![a] = content[cur]]
    BY <1>3 DEF Copy
  <2>2. a # threadData[p]
    BY <1>0, <2>1
  <2> QED
    BY <1>3, <2>1, <2>2 DEF Copy
<1>4. CASE Update \/ UpdateCutShort
  <2>1. PICK rows : UpdateTable(rows)
    BY <1>4 DEF Update, UpdateCutShort
  <2>2. pcU = "update"
    BY <1>4 DEF Update, UpdateCutShort, Updating
  <2>3. ptr # threadData[p]
    BY <1>0, <2>2 DEF PhaseInv
  <2> QED
    BY <2>1, <2>3 DEF UpdateTable
<1>5. CASE \/ SvcStart \/ Wake \/ ScanLock \/ ScanNext \/ ScanInUse \/ Poll
           \/ Diff \/ CopyFails \/ SkipTable \/ UpdateFails \/ ReloadDone \/ PublishLock
           \/ Publish \/ Test \/ stop \/ Tick
           \/ \E t \in Table : Commit(t)
  BY <1>5 DEF SvcStart, Wake, ScanLock, ScanNext, ScanInUse, Poll, Diff,
              CopyFails, SkipTable, UpdateFails, ReloadDone, PublishLock, Publish, Test,
              stop, Tick, Commit
<1>6. CASE \E q \in Thread : Get(q) \/ ThreadStep(q)
  <2>1. PICK q \in Thread : Get(q) \/ ThreadStep(q)
    BY <1>6
  <2>2. CASE addSharedDataPtr(q) \/ delSharedDataPtr(q)
    BY <2>2 DEF addSharedDataPtr, delSharedDataPtr
  <2>3. CASE \/ Get(q) \/ AddLock(q) \/ AddTest(q) \/ Reject(q) \/ Accept(q)
             \/ RouteLock(q) \/ DoRoute(q) \/ DelLock(q)
    BY <2>3 DEF Get, AddLock, AddTest, Reject, Accept, RouteLock, DoRoute,
                DelLock
  <2> QED
    BY <2>1, <2>2, <2>3 DEF ThreadStep
<1> QED
  BY <1>1, <1>2, <1>3, <1>4, <1>5, <1>6 DEF Next, Svc

\* Isolation of requests from hot updates: between addSharedDataPtr and
\* delSharedDataPtr a thread reads one object that nobody writes.
THEOREM RequestIsolation == Spec => OneVersionPerRequest
BY Invariance, StepKeepsVersion, PTL DEF Spec, OneVersionPerRequest

-----------------------------------------------------------------------------
(* Which rows the objects hold. *)

\* Nothing is held up by the rows that are not there yet.
LEMMA InitRowInv == Init => RowInv
<1> SUFFICES ASSUME Init PROVE RowInv
  OBVIOUS
<1>1. \A t \in Table : log[t] = {} /\ newTS[t] \in {0, 1} /\ lastTS[t] \in {0, 1}
  BY DEF Init, NoData
<1>2. TimeInv
  BY <1>1 DEF TimeInv, Init
<1> QED
  BY <1>2 DEF Init, RowInv, HeldInv, NoData, NoRowSkipped, BuildInv

\* The clock only goes forward, and UPDATE_TIME is the time of a row.
LEMMA StepTimeInv == HInv /\ TimeInv /\ [Next]_vars => TimeInv'
<1> SUFFICES ASSUME HInv, TimeInv, [Next]_vars PROVE TimeInv'
  OBVIOUS
<1> USE DEF tsVars, dbVars, envVars
<1>0. /\ now \in Nat /\ log \in [Table -> SUBSET Row]
      /\ newTS \in [Table -> 0..MaxTime] /\ lastTS \in [Table -> 0..MaxTime]
      /\ \A t \in Table : \A r \in log[t] : r[1] \in Nat
  BY DEF HInv, TypeOK, Row
<1>1. CASE UNCHANGED <<tsVars, dbVars>>
  BY <1>1 DEF TimeInv
<1>2. CASE InitPoll \/ Poll
  <2>1. /\ i \in Table
        /\ lastTS' = [lastTS EXCEPT ![i] = newTS[i]]
        /\ UNCHANGED <<log, now>>
    BY <1>2 DEF InitPoll, Poll, PollTable
  <2>2. PICK ts \in {newTS[i]} \cup UpdateTime(i) : newTS' = [newTS EXCEPT ![i] = ts]
    BY <1>2 DEF InitPoll, Poll, PollTable
  <2>3. ts <= now
    BY <2>1, <2>2, <1>0 DEF TimeInv, UpdateTime
  <2> QED
    BY <2>1, <2>2, <2>3, <1>0 DEF TimeInv
<1>3. CASE CopyFails
  BY <1>3, <1>0 DEF CopyFails, TimeInv
<1>4. CASE Tick
  BY <1>4, <1>0 DEF Tick, TimeInv
<1>5. CASE \E t \in Table : Commit(t)
  <2>1. PICK t \in Table, k \in 1..MaxRow : log' = [log EXCEPT ![t] = @ \cup {<<now, k>>}]
    BY <1>5 DEF Commit
  <2>2. UNCHANGED <<tsVars, now>>
    BY <1>5 DEF Commit
  <2> QED
    BY <2>1, <2>2, <1>0 DEF TimeInv
<1>6. CASE \E p \in Thread : Get(p) \/ ThreadStep(p)
  BY <1>6, <1>1 DEF Get, ThreadStep, AddLock, AddTest, addSharedDataPtr, Reject, Accept,
                    RouteLock, DoRoute, DelLock, delSharedDataPtr, threadFrame
<1>7. CASE NewData \/ LoadTable \/ LoadFails \/ initSharedData
  BY <1>7, <1>1 DEF NewData, LoadTable, LoadFails, initSharedData
<1>8. CASE Update \/ UpdateFails \/ UpdateCutShort
  BY <1>8, <1>1 DEF Update, UpdateFails, UpdateCutShort, UpdateTable
<1>9. CASE \/ SvcStart \/ Wake \/ ScanLock \/ ScanNext \/ ScanInUse \/ DeleteOld
           \/ Diff \/ Copy \/ SkipTable \/ ReloadDone \/ PublishLock \/ Publish
           \/ Test \/ stop
  BY <1>9, <1>1 DEF SvcStart, Wake, ScanLock, ScanNext, ScanInUse, DeleteOld, Diff,
                    Copy, SkipTable, ReloadDone, PublishLock, Publish, Test, stop
<1> QED
  BY <1>1, <1>2, <1>3, <1>4, <1>5, <1>6, <1>7, <1>8, <1>9 DEF Next, Startup, Svc, vars

\* What a step does that changes neither the objects nor the rows they must
\* hold: it has no part in the two invariants below.
Quiet ==
    /\ UNCHANGED <<cur, new, content, ptr, log, incomplete>>
    /\ \A t \in Table : Consumed(t)' = Consumed(t)

\* No object holds a row that was not committed: every query reads the log.
LEMMA StepHeld == HInv /\ RowInv /\ [Next]_vars => HeldInv'
<1> SUFFICES ASSUME HInv, RowInv, [Next]_vars PROVE HeldInv'
  OBVIOUS
<1> USE DEF tsVars, dbVars, envVars, dataVars, stopVars
<1>0. /\ content \in [Addr -> [Table -> SUBSET Row]] /\ log \in [Table -> SUBSET Row]
      /\ HeldInv
  BY DEF HInv, TypeOK, RowInv
<1>1. CASE UNCHANGED <<content, log>>
  BY <1>0, <1>1 DEF HeldInv
<1>2. CASE NewData \/ DeleteOld
  <2>1. log' = log /\ \E a : content' = [content EXCEPT ![a] = NoData]
    BY <1>2 DEF NewData, DeleteOld
  <2> QED
    BY <2>1, <1>0 DEF HeldInv, NoData
<1>3. CASE LoadTable
  <2>1. PICK rows \in SUBSET log[i] : content' = [content EXCEPT ![ptr][i] = rows]
    BY <1>3 DEF LoadTable
  <2>2. log' = log
    BY <1>3 DEF LoadTable
  <2> QED
    BY <2>1, <2>2, <1>0 DEF HeldInv
<1>4. CASE Copy
  <2>1. log' = log /\ cur \in Addr
    BY <1>4, CurAllocated DEF Copy
  <2>2. PICK a : content' = [content EXCEPT ![a] = content[cur]]
    BY <1>4 DEF Copy
  <2> QED
    BY <2>1, <2>2, <1>0 DEF HeldInv
<1>5. CASE Update \/ UpdateCutShort
  <2>1. Selected(i) \subseteq log[i]
    BY DEF Selected, Window
  <2>2. PICK rows \in SUBSET log[i] : UpdateTable(rows)
    BY <1>5, <2>1 DEF Update, UpdateCutShort
  <2>3. /\ log' = log
        /\ content' = [content EXCEPT ![ptr][i] =
                         IF i \in Cleared THEN rows ELSE @ \cup rows]
    BY <2>2 DEF UpdateTable
  <2> QED
    BY <2>2, <2>3, <1>0 DEF HeldInv
<1>6. CASE \E t \in Table : Commit(t)
  <2>1. PICK t \in Table : \E k : log' = [log EXCEPT ![t] = @ \cup {<<now, k>>}]
    BY <1>6 DEF Commit
  <2>3. PICK k : log' = [log EXCEPT ![t] = @ \cup {<<now, k>>}]
    BY <2>1
  <2>2. content' = content
    BY <1>6 DEF Commit
  <2> QED
    BY <2>2, <2>3, <1>0 DEF HeldInv
<1>7. CASE \E p \in Thread : Get(p) \/ ThreadStep(p)
  BY <1>7, <1>1 DEF Get, ThreadStep, AddLock, AddTest, addSharedDataPtr, Reject, Accept,
                    RouteLock, DoRoute, DelLock, delSharedDataPtr, threadFrame
<1>8. CASE InitPoll \/ LoadFails \/ initSharedData \/ UpdateFails \/ Tick \/ stop
  BY <1>8, <1>1 DEF InitPoll, LoadFails, initSharedData, UpdateFails, Tick, stop
<1>9. CASE \/ SvcStart \/ Wake \/ ScanLock \/ ScanNext \/ ScanInUse \/ Poll \/ Diff
           \/ CopyFails \/ SkipTable \/ ReloadDone \/ PublishLock \/ Publish \/ Test
  BY <1>9, <1>1 DEF SvcStart, Wake, ScanLock, ScanNext, ScanInUse, Poll, Diff, CopyFails,
                    SkipTable, ReloadDone, PublishLock, Publish, Test
<1> QED
  BY <1>1, <1>2, <1>3, <1>4, <1>5, <1>6, <1>7, <1>8, <1>9 DEF Next, Startup, Svc, vars

\* Such a step keeps what the objects hold, if it neither begins nor ends
\* their construction.
LEMMA QuietStep ==
    ASSUME RowInv, Quiet, newTS' = newTS, i' = i \/ pcU \notin {"load", "update"},
           \/ pcU' = pcU
           \/ /\ pcU' \notin {"load", "update", "lock3", "publish"}
              /\ pcU \notin {"init", "load"}
    PROVE  NoRowSkipped' /\ BuildInv'
<1>1. NoRowSkipped'
  BY DEF RowInv, NoRowSkipped, Quiet, Newest
<1>2. BuildInv'
  BY DEF RowInv, BuildInv, Quiet
<1> QED
  BY <1>1, <1>2

\* The facts about the phases of svc that the steps below share.
LEMMA RowTypes ==
    ASSUME HInv
    PROVE  /\ content \in [Addr -> [Table -> SUBSET Row]]
           /\ incomplete \in [Addr -> SUBSET Table]
           /\ log \in [Table -> SUBSET Row]
           /\ newTS \in [Table -> Nat] /\ lastTS \in [Table -> Nat]
           /\ now \in Nat /\ i \in Nat
           /\ \A r \in Row : r[1] \in Nat
           /\ \A t \in Table : t \in Nat
BY DEF HInv, TypeOK, Row, Table

\* A thread, stop() and the steps of svc around the reload are quiet.
LEMMA StepQuiet ==
    ASSUME HInv, RowInv,
           \/ UNCHANGED vars \/ Tick \/ stop \/ SvcStart \/ Wake \/ ScanLock
           \/ ScanNext \/ ScanInUse \/ Test
           \/ \E p \in Thread : Get(p) \/ ThreadStep(p)
    PROVE  NoRowSkipped' /\ BuildInv'
<1> USE DEF tsVars, dbVars, envVars, dataVars
<1>1. CASE UNCHANGED vars \/ Tick \/ stop \/ \E p \in Thread : Get(p) \/ ThreadStep(p)
  <2>1. UNCHANGED <<cur, new, content, ptr, log, incomplete, pcU, i, lastTS, newTS>>
    BY <1>1 DEF vars, Tick, stop, Get, ThreadStep, AddLock, AddTest, addSharedDataPtr,
                Reject, Accept, RouteLock, DoRoute, DelLock, delSharedDataPtr, threadFrame
  <2>2. Quiet
    BY <2>1 DEF Quiet, Consumed
  <2> QED
    BY <2>1, <2>2, QuietStep
<1>2. CASE SvcStart \/ Wake \/ ScanLock \/ ScanNext \/ ScanInUse \/ Test
  <2>1. /\ UNCHANGED <<cur, new, content, ptr, log, incomplete, lastTS, newTS>>
        /\ pcU \in {"start", "sleep", "lock0", "scan", "test"}
        /\ pcU' \in {"sleep", "lock0", "scan", "time", "test", "done"}
        /\ pcU' = "time" => i' = 1
    BY <1>2 DEF SvcStart, Wake, ScanLock, ScanNext, ScanInUse, Test
  <2>2. \A t \in Table : ~(1 > t)
    BY DEF Table
  <2>3. Quiet
    BY <2>1, <2>2 DEF Quiet, Consumed
  <2> QED
    BY <2>1, <2>3, QuietStep
<1> QED
  BY <1>1, <1>2

\* A row that is committed is no older than any time stamp.
LEMMA StepCommit ==
    ASSUME HInv, RowInv, NEW s \in Table, Commit(s)
    PROVE  NoRowSkipped' /\ BuildInv'
<1> USE DEF tsVars, dbVars, envVars, dataVars
<1>1. PICK k \in 1..MaxRow : log' = [log EXCEPT ![s] = @ \cup {<<now, k>>}]
  BY DEF Commit
<1>2. UNCHANGED <<cur, new, content, ptr, incomplete, pcU, i, lastTS, newTS>>
  BY DEF Commit
<1>3. ASSUME NEW t \in Table, NEW held, NEW ts \in Nat, ts <= now,
             Holds(log[t], held, ts)
      PROVE  Holds(log'[t], held, ts)
  <2>1. \A r \in log'[t] : r \in log[t] \/ r[1] = now
    BY <1>1, RowTypes
  <2> QED
    BY <2>1, <1>3, RowTypes DEF Holds
<1>4. \A t \in Table : /\ newTS[t] \in Nat /\ newTS[t] <= now
                       /\ Consumed(t) \in Nat /\ Consumed(t) <= now
                       /\ Consumed(t)' = Consumed(t)
  BY <1>2, RowTypes DEF RowInv, TimeInv, Consumed
<1>5. NoRowSkipped'
  BY <1>2, <1>3, <1>4 DEF RowInv, NoRowSkipped, Newest
<1>6. BuildInv'
  BY <1>2, <1>3, <1>4 DEF RowInv, BuildInv
<1> QED
  BY <1>5, <1>6

\* Start-up: a table is left out of the data or has all its rows.
LEMMA StepStartup ==
    ASSUME HInv, RowInv, Startup
    PROVE  NoRowSkipped' /\ BuildInv'
<1> USE DEF tsVars, dbVars, envVars, dataVars, stopVars
<1>1. CASE InitPoll
  BY <1>1 DEF InitPoll, NoRowSkipped, BuildInv
<1>2. CASE NewData
  <2>1. \A t \in Table : ~(t < 1)
    BY DEF Table
  <2> QED
    BY <1>2, <2>1 DEF NewData, NoRowSkipped, BuildInv
<1>3. CASE LoadTable
  <2>1. PICK rows \in SUBSET log[i] :
            /\ content' = [content EXCEPT ![ptr][i] = rows]
            /\ incomplete' = IF rows = log[i] THEN incomplete
                                              ELSE ReadInPart({i})
    BY <1>3 DEF LoadTable
  <2>2. /\ pcU = "load" /\ i \in Table /\ i' = i + 1
        /\ UNCHANGED <<pcU, ptr, log, newTS>>
    BY <1>3 DEF LoadTable
  <2>3. ptr \in Addr
    BY <2>2 DEF HInv, PhaseInv, TypeOK
  <2>4. NoRowSkipped'
    BY <2>2 DEF NoRowSkipped
  <2>5. ASSUME NEW t \in Table \ incomplete'[ptr'], t < i'
        PROVE  Holds(log'[t], content'[ptr'][t], newTS'[t])
    <3>1. CASE t = i
      BY <2>1, <2>2, <2>3, <2>5, <3>1, RowTypes DEF Holds, ReadInPart
    <3>2. CASE t # i
      <4>3. t \in Nat /\ i \in Nat
        BY RowTypes
      <4>4. t < i
        BY <2>2, <2>5, <3>2, <4>3
      <4>5. t \notin incomplete[ptr]
        BY <2>1, <2>2, <2>3, <2>5, RowTypes DEF ReadInPart
      <4>1. t < i /\ t \notin incomplete[ptr]
        BY <4>4, <4>5
      <4>2. content'[ptr][t] = content[ptr][t]
        BY <2>1, <2>3, <3>2, RowTypes
      <4> QED
        BY <4>1, <4>2, <2>2 DEF RowInv, BuildInv
    <3> QED
      BY <3>1, <3>2
  <2> QED
    BY <2>2, <2>4, <2>5 DEF BuildInv
<1>4. CASE LoadFails
  <2>1. /\ pcU = "load" /\ i' = NTable + 1 /\ i \in Table
        /\ incomplete' = ReadInPart(i..NTable)
        /\ UNCHANGED <<pcU, ptr, log, newTS, content>>
    BY <1>4 DEF LoadFails
  <2>3. ptr \in Addr
    BY <2>1 DEF HInv, PhaseInv, TypeOK
  <2>2. \A t \in Table \ incomplete'[ptr] : t < i /\ t \notin incomplete[ptr]
    BY <2>1, <2>3, RowTypes DEF Table, ReadInPart
  <2> QED
    BY <2>1, <2>2 DEF RowInv, BuildInv, NoRowSkipped
<1>5. CASE initSharedData
  <2>1. /\ pcU = "load" /\ pcU' = "start" /\ i = NTable + 1 /\ new = NULL
        /\ cur' = ptr /\ ptr # NULL
        /\ UNCHANGED <<new, log, newTS, content, incomplete>>
    BY <1>5 DEF initSharedData, HInv, PhaseInv
  <2>2. \A t \in Table : t < i /\ Consumed(t)' = newTS[t]
    BY <2>1, NTableAssumption DEF Table, Consumed
  <2> QED
    BY <2>1, <2>2 DEF RowInv, BuildInv, NoRowSkipped, Newest
<1> QED
  BY <1>1, <1>2, <1>3, <1>4, <1>5 DEF Startup

\* The old object goes, and what requests get stays the same object.
LEMMA StepDeleteOld ==
    ASSUME HInv, RowInv, DeleteOld
    PROVE  /\ NoRowSkipped' /\ BuildInv'
           /\ Keeps(content[Newest], (content[Newest])', (incomplete[Newest])')
<1> USE DEF tsVars, dbVars, envVars, dataVars, stopVars
<1>1. /\ pcU = "scan" /\ pcU' = "time" /\ i' = 1
      /\ content' = [content EXCEPT ![cur] = NoData]
      /\ incomplete' = [incomplete EXCEPT ![cur] = {}]
      /\ cur' = new /\ new' = NULL
      /\ UNCHANGED <<log, newTS>>
  BY DEF DeleteOld
<1>2. new \in Addr /\ new # cur /\ new # NULL
  BY <1>1 DEF HInv, PhaseInv, TypeOK
<1>3. content'[new] = content[new] /\ incomplete'[new] = incomplete[new]
  BY <1>1, <1>2, RowTypes
<1>4. \A t \in Table : ~(1 > t)
  BY DEF Table
<1>5. \A t \in Table : Consumed(t)' = Consumed(t)
  BY <1>1, <1>4 DEF Consumed
<1>6. Newest = new /\ Newest' = new
  BY <1>1, <1>2 DEF Newest
<1> QED
  BY <1>1, <1>3, <1>5, <1>6 DEF RowInv, NoRowSkipped, BuildInv, Keeps

\* While getUpdateTime moves the time stamps on, what has been consumed
\* stays what it was.
LEMMA StepTimes ==
    ASSUME HInv, RowInv, Poll \/ Diff \/ CopyFails
    PROVE  NoRowSkipped' /\ BuildInv'
<1> USE DEF tsVars, dbVars, envVars, dataVars, stopVars
<1>1. /\ UNCHANGED <<cur, new, ptr, content, log, incomplete>>
      /\ pcU \in {"time", "copy"} /\ pcU' \in {"time", "copy", "test"}
  BY DEF Poll, Diff, CopyFails
<1>2. \A t \in Table : Consumed(t)' = Consumed(t)
  <2>1. CASE Poll
    <3>1. /\ i \in Table /\ i' = i + 1 /\ pcU = "time" /\ pcU' = "time"
          /\ lastTS' = [lastTS EXCEPT ![i] = newTS[i]]
          /\ \E ts : newTS' = [newTS EXCEPT ![i] = ts]
      BY <2>1 DEF Poll, PollTable
    <3>2. i \in Nat /\ i + 1 > i
      BY RowTypes
    <3>3. ASSUME NEW t \in Table, t = i
          PROVE  Consumed(t)' = Consumed(t)
      <4>1. lastTS'[t] = newTS[t]
        BY <3>1, <3>3, RowTypes
      <4>2. i + 1 > t /\ ~(i > t)
        BY <3>2, <3>3
      <4> QED
        BY <3>1, <4>1, <4>2 DEF Consumed
    <3>4. ASSUME NEW t \in Table, t # i
          PROVE  Consumed(t)' = Consumed(t)
      <4>0. t \in Nat
        BY RowTypes
      <4>1. i + 1 > t <=> i > t
        BY <3>2, <3>4, <4>0
      <4>2. lastTS'[t] = lastTS[t] /\ newTS'[t] = newTS[t]
        BY <3>1, <3>4, RowTypes
      <4> QED
        BY <3>1, <4>1, <4>2 DEF Consumed
    <3> QED
      BY <3>3, <3>4
  <2>2. CASE Diff
    <3>1. /\ i = NTable + 1 /\ pcU = "time"
          /\ UNCHANGED <<lastTS, newTS, i>>
          /\ \/ pcU' = "copy"
             \/ pcU' = "test" /\ \A t \in Table : lastTS[t] = newTS[t]
      BY <2>2 DEF Diff, needUpdate
    <3>2. \A t \in Table : i > t
      BY <3>1, NTableAssumption DEF Table
    <3> QED
      BY <3>1, <3>2 DEF Consumed
  <2>3. CASE CopyFails
    BY <2>3 DEF CopyFails, Consumed
  <2> QED
    BY <2>1, <2>2, <2>3
<1> QED
  BY <1>1, <1>2 DEF RowInv, NoRowSkipped, BuildInv, Newest

\* reloadData starts with the rows of the current object.
LEMMA StepCopy ==
    ASSUME HInv, RowInv, Copy
    PROVE  NoRowSkipped' /\ BuildInv' /\ content'[cur] = content[cur]
<1> USE DEF tsVars, dbVars, envVars, dataVars, stopVars
<1>1. PICK a \in Addr \ live :
          /\ content' = [content EXCEPT ![a] = content[cur]]
          /\ incomplete' = [incomplete EXCEPT ![a] = incomplete[cur]]
          /\ ptr' = a
  BY DEF Copy
<1>2. /\ pcU = "copy" /\ pcU' = "update" /\ i' = 1
      /\ UNCHANGED <<cur, new, log, lastTS>>
  BY DEF Copy
<1>3. cur \in Addr /\ cur # a /\ new = NULL
  BY <1>2, NULLAssumption DEF HInv, TypeOK, PhaseInv, NoLeak
<1>4. /\ content'[cur] = content[cur] /\ content'[a] = content[cur]
      /\ incomplete'[cur] = incomplete[cur] /\ incomplete'[a] = incomplete[cur]
  BY <1>1, <1>3, RowTypes
<1>5. \A t \in Table : ~(t < 1) /\ Consumed(t)' = Consumed(t)
  BY <1>2 DEF Table, Consumed
<1>6. NoRowSkipped'
  BY <1>2, <1>3, <1>4, <1>5 DEF RowInv, NoRowSkipped, Newest
<1>7. BuildInv'
  BY <1>1, <1>2, <1>4, <1>5 DEF BuildInv, Keeps
<1> QED
  BY <1>4, <1>6, <1>7

\* One table of the reload.
LEMMA StepTable ==
    ASSUME HInv, RowInv, SkipTable \/ Update \/ UpdateFails \/ UpdateCutShort
    PROVE  NoRowSkipped' /\ BuildInv' /\ content'[cur] = content[cur]
<1> USE DEF tsVars, dbVars, envVars, dataVars, stopVars
<1>1. /\ pcU = "update" /\ i \in Table /\ i' = i + 1
      /\ UNCHANGED <<cur, new, log, lastTS, newTS, pcU, ptr>>
  BY DEF SkipTable, Update, UpdateFails, UpdateCutShort, UpdateTable, Updating
<1>2. cur \in Addr /\ ptr \in Addr /\ ptr # cur /\ new = NULL
  BY <1>1 DEF HInv, TypeOK, PhaseInv
<1>3. /\ content[ptr][i] = content[cur][i]
      /\ i \in incomplete[ptr] <=> i \in incomplete[cur]
  BY <1>1, RowTypes DEF RowInv, BuildInv
<1>4. /\ content'[cur] = content[cur] /\ incomplete'[cur] = incomplete[cur]
      /\ \A t \in Table : t # i => /\ content'[ptr][t] = content[ptr][t]
                                   /\ t \in incomplete'[ptr] <=> t \in incomplete[ptr]
  <2>1. CASE SkipTable
    BY <2>1 DEF SkipTable
  <2>2. CASE Update \/ UpdateCutShort
    BY <2>2, <1>1, <1>2, RowTypes DEF Update, UpdateCutShort, UpdateTable, ReadInPart
  <2>3. CASE UpdateFails
    BY <2>3, <1>1, <1>2, RowTypes DEF UpdateFails, ReadInPart
  <2> QED
    BY <2>1, <2>2, <2>3
<1>5. \A t \in Table : Consumed(t)' = lastTS[t] /\ Consumed(t) = lastTS[t]
  BY <1>1 DEF Consumed
<1>6. NoRowSkipped'
  BY <1>1, <1>2, <1>4, <1>5 DEF RowInv, NoRowSkipped, Newest
<1>7. /\ content[cur][i] \subseteq content'[ptr][i] \/ i \in Cleared \cap incomplete'[ptr]
      /\ i \notin incomplete'[ptr] => Holds(log[i], content'[ptr][i], newTS[i])
  <2>1. i \notin incomplete[ptr] => Holds(log[i], content[cur][i], lastTS[i])
    BY <1>1, <1>2, <1>3, <1>5 DEF RowInv, NoRowSkipped, Newest
  <2>2. CASE SkipTable
    BY <2>1, <2>2, <1>3 DEF SkipTable, needUpdate
  <2>3. CASE UpdateFails \/ UpdateCutShort
    <3>1. i \in incomplete'[ptr]
      BY <2>3, <1>1, <1>2, RowTypes DEF UpdateFails, UpdateCutShort, ReadInPart
    <3>2. i \in Cleared \/ content[ptr][i] \subseteq content'[ptr][i]
      BY <2>3, <1>1, <1>2, RowTypes DEF UpdateFails, UpdateCutShort, UpdateTable
    <3> QED
      BY <3>1, <3>2, <1>3
  <2>4. CASE Update /\ i \in Cleared
    <3>1. content'[ptr][i] = log[i]
      BY <2>4, <1>1, <1>2, RowTypes DEF Update, UpdateTable, Selected
    <3>2. content[cur][i] \subseteq log[i]
      BY <1>1, <1>2 DEF RowInv, HeldInv
    <3> QED
      BY <3>1, <3>2 DEF Holds
  <2>5. CASE Update /\ i \notin Cleared
    <3>1. content'[ptr][i] = content[cur][i] \cup Window(i, lastTS[i], newTS[i])
      BY <2>5, <1>1, <1>2, <1>3, RowTypes DEF Update, UpdateTable, Selected
    <3>2. i \in incomplete'[ptr] <=> i \in incomplete[ptr]
      BY <2>5, <1>2, RowTypes DEF Update
    <3>3. ASSUME Holds(log[i], content[cur][i], lastTS[i])
          PROVE  Holds(log[i], content'[ptr][i], newTS[i])
      <4>1. /\ lastTS[i] \in Nat /\ newTS[i] \in Nat
            /\ \A r \in log[i] : r[1] \in Nat
        BY <1>1, RowTypes
      <4> QED
        BY <3>1, <3>3, <4>1 DEF Window, Holds
    <3> QED
      BY <2>1, <3>1, <3>2, <3>3, <1>3
  <2> QED
    BY <2>2, <2>3, <2>4, <2>5
<1>8. \A t \in Table : /\ t < i + 1 => t < i \/ t = i
                       /\ t >= i + 1 => t >= i /\ t # i
  <2>1. i \in Nat /\ \A t \in Table : t \in Nat
    BY RowTypes
  <2> QED
    BY <2>1
<1>9. BuildInv'
  <2>1. \A t \in Table : (pcU = "update" /\ t >= i') =>
            /\ t \in incomplete'[ptr] <=> t \in incomplete'[cur]
            /\ content'[ptr][t] = content'[cur][t]
    BY <1>1, <1>4, <1>8 DEF RowInv, BuildInv
  <2>2. Keeps(content'[cur], content'[ptr], incomplete'[ptr])
    BY <1>1, <1>4, <1>7 DEF RowInv, BuildInv, Keeps
  <2>3. \A t \in Table \ incomplete'[ptr] :
            t < i' => Holds(log'[t], content'[ptr][t], newTS'[t])
    BY <1>1, <1>4, <1>7, <1>8 DEF RowInv, BuildInv
  <2> QED
    BY <1>1, <2>1, <2>2, <2>3 DEF BuildInv
<1> QED
  BY <1>4, <1>6, <1>9

\* The reload is complete when its loop has ended, and so is what is
\* published.
LEMMA StepPublish ==
    ASSUME HInv, RowInv, ReloadDone \/ PublishLock \/ Publish
    PROVE  /\ NoRowSkipped' /\ BuildInv'
           /\ Keeps(content[Newest], (content[Newest])', (incomplete[Newest])')
<1> USE DEF tsVars, dbVars, envVars, dataVars, stopVars
<1>1. UNCHANGED <<cur, content, log, lastTS, newTS, incomplete>>
  BY DEF ReloadDone, PublishLock, Publish
<1>2. /\ pcU \in {"update", "lock3", "publish"}
      /\ pcU = "update" => i = NTable + 1
  BY DEF ReloadDone, PublishLock, Publish
<1>3. \A t \in Table \ incomplete[ptr] : Holds(log[t], content[ptr][t], newTS[t])
  BY <1>2, NTableAssumption DEF RowInv, BuildInv, Table
<1>4. new = NULL /\ ptr # NULL
  BY <1>2 DEF HInv, PhaseInv
<1>5. CASE ReloadDone \/ PublishLock
  <2>1. pcU' \in {"lock3", "publish"} /\ UNCHANGED <<new, ptr>>
    BY <1>5 DEF ReloadDone, PublishLock
  <2>2. \A t \in Table : Consumed(t)' = Consumed(t)
    BY <1>1, <1>2, <2>1 DEF Consumed
  <2> QED
    BY <1>1, <1>2, <1>3, <2>1, <2>2 DEF RowInv, NoRowSkipped, BuildInv, Newest, Keeps
<1>6. CASE Publish
  <2>1. pcU = "publish" /\ pcU' = "test" /\ new' = ptr
    BY <1>6 DEF Publish
  <2>2. \A t \in Table : Consumed(t)' = newTS[t]
    BY <1>1, <2>1 DEF Consumed
  <2> QED
    BY <1>1, <1>2, <1>3, <1>4, <2>1, <2>2 DEF RowInv, NoRowSkipped, BuildInv, Newest, Keeps
<1> QED
  BY <1>5, <1>6

\* Every step keeps the invariant on the rows.
LEMMA StepRowInv == HInv /\ RowInv /\ [Next]_vars => RowInv'
<1> SUFFICES ASSUME HInv, RowInv, [Next]_vars PROVE RowInv'
  OBVIOUS
<1>1. TimeInv'
  BY StepTimeInv DEF RowInv
<1>3. HeldInv'
  BY StepHeld
<1>2. NoRowSkipped' /\ BuildInv'
  BY StepQuiet, StepCommit, StepStartup, StepDeleteOld, StepTimes, StepCopy, StepTable,
     StepPublish DEF Next, Svc
<1> QED
  BY <1>1, <1>2, <1>3 DEF RowInv

\* No committed row is ever skipped by the windows of the hot updates,
\* whatever the number of tables and whenever the rows are committed.
THEOREM Completeness == Spec => []NoRowSkipped
<1>1. RowInv => NoRowSkipped
  BY DEF RowInv
<1> QED
  BY <1>1, InitRowInv, StepRowInv, Invariance, PTL DEF Spec

\* No step takes a row away from what the next request gets, but for a
\* cleared table.
LEMMA StepGrows ==
    HInv /\ RowInv /\ [Next]_vars =>
        [cur # NULL =>
           Keeps(content[Newest], (content[Newest])', (incomplete[Newest])')]_vars
<1> SUFFICES ASSUME HInv, RowInv, [Next]_vars, cur # NULL
             PROVE  Keeps(content[Newest], (content[Newest])', (incomplete[Newest])')
  OBVIOUS
<1> USE DEF tsVars, dbVars, envVars, dataVars, stopVars
<1>1. pcU \notin {"init", "load"}
  BY DEF HInv, PhaseInv
<1>2. CASE UNCHANGED <<cur, new, content>>
  BY <1>2 DEF Newest, Keeps
<1>3. CASE Startup
  BY <1>1, <1>3 DEF Startup, InitPoll, NewData, LoadTable, LoadFails, initSharedData
<1>4. CASE Copy \/ SkipTable \/ Update \/ UpdateFails \/ UpdateCutShort
  <2>1. content'[cur] = content[cur]
    BY <1>4, StepCopy, StepTable
  <2>2. UNCHANGED <<cur, new>> /\ new = NULL
    BY <1>4 DEF Copy, SkipTable, Update, UpdateFails, UpdateCutShort, UpdateTable, Updating,
                HInv, PhaseInv
  <2> QED
    BY <2>1, <2>2 DEF Newest, Keeps
<1>5. CASE DeleteOld \/ ReloadDone \/ PublishLock \/ Publish
  BY <1>5, StepDeleteOld, StepPublish
<1>6. CASE \/ SvcStart \/ Wake \/ ScanLock \/ ScanNext \/ ScanInUse \/ Poll \/ Diff
           \/ CopyFails \/ Test \/ stop \/ Tick \/ \E t \in Table : Commit(t)
  BY <1>6, <1>2 DEF SvcStart, Wake, ScanLock, ScanNext, ScanInUse, Poll, Diff, CopyFails,
                    Test, stop, Tick, Commit
<1>7. CASE \E p \in Thread : Get(p) \/ ThreadStep(p)
  BY <1>7, <1>2 DEF Get, ThreadStep, AddLock, AddTest, addSharedDataPtr, Reject, Accept,
                    RouteLock, DoRoute, DelLock, delSharedDataPtr, threadFrame
<1> QED
  BY <1>2, <1>3, <1>4, <1>5, <1>6, <1>7 DEF Next, Svc, vars

\* A hot update takes no row away from the data that requests get, whatever
\* fails: the copy starts from the current object, and a table is only added to
\* or replaced by all its rows, unless it was cleared and then read in part.
THEOREM NoLoss == Spec => NeverGoesBack
BY InitRowInv, StepRowInv, StepGrows, Invariance, PTL DEF Spec, NeverGoesBack

====
