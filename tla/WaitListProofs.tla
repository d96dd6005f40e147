--------------------------- MODULE WaitListProofs ---------------------------
(***************************************************************************)
(* The linked list and the wait list on top of it.  The pointers of the    *)
(* list represent the sequence of its elements, for any set of elements:   *)
(* all three ways to add an element are one insertion between two          *)
(* neighbours, so they share one lemma.  The wait list, for any number of  *)
(* threads and elements, has an inductive invariant, so no wake-up is lost *)
(* and every element has one owner, and it implements the atomic queue of  *)
(* TaskQueue.                                                              *)
(***************************************************************************)
EXTENDS WaitList, LinkedList, FiniteSetTheorems, TLAPS

-----------------------------------------------------------------------------
(* The pointers of the list. *)
\* No element occurs twice in s.
NoRepeats(s) == \A i, j \in 1..Len(s) : s[i] = s[j] => i = j

\* What Inserted returns: a longer sequence in which n sits at index k.
LEMMA InsertedSeq ==
    ASSUME NEW s \in Seq(Elem), NEW n \in Elem, NEW k \in 1..Len(s) + 1
    PROVE  /\ Inserted(s, k, n) \in Seq(Elem)
           /\ Len(Inserted(s, k, n)) = Len(s) + 1
           /\ \A i \in 1..Len(s) + 1 :
                 Inserted(s, k, n)[i] =
                    IF i < k THEN s[i] ELSE IF i = k THEN n ELSE s[i - 1]
  BY DEF Inserted

\* What Removed returns: the elements behind index k move up.
LEMMA RemovedSeq ==
    ASSUME NEW s \in Seq(Elem), NEW k \in 1..Len(s)
    PROVE  /\ Removed(s, k) \in Seq(Elem)
           /\ Len(Removed(s, k)) = Len(s) - 1
           /\ \A i \in 1..Len(s) - 1 :
                 Removed(s, k)[i] = IF i < k THEN s[i] ELSE s[i + 1]
  BY DEF Removed

\* Inserting a new element repeats none.
LEMMA InsertedNoRepeats ==
    ASSUME NEW s \in Seq(Elem), NEW n \in Elem, NEW k \in 1..Len(s) + 1,
           NoRepeats(s), \A i \in 1..Len(s) : s[i] # n
    PROVE  NoRepeats(Inserted(s, k, n))
  <1> DEFINE t == Inserted(s, k, n)
  <1>a. /\ Len(t) = Len(s) + 1 /\ Len(s) \in Nat
        /\ \A i \in 1..Len(s) + 1 :
              t[i] = IF i < k THEN s[i] ELSE IF i = k THEN n ELSE s[i - 1]
    BY InsertedSeq
  <1> HIDE DEF t
  <1>b. SUFFICES ASSUME NEW i \in 1..Len(s) + 1, NEW j \in 1..Len(s) + 1, i < j
                 PROVE  t[i] # t[j]
    <2>1. ASSUME NEW i \in 1..Len(t), NEW j \in 1..Len(t), t[i] = t[j]
          PROVE  i = j
      BY <1>a, <1>b, <2>1
    <2>2. NoRepeats(t)
      BY <2>1 DEF NoRepeats
    <2> QED
      BY <2>2 DEF t
  <1>1. t[i] = IF i < k THEN s[i] ELSE IF i = k THEN n ELSE s[i - 1]
    BY <1>a
  <1>2. t[j] = IF j < k THEN s[j] ELSE IF j = k THEN n ELSE s[j - 1]
    BY <1>a
  <1>3. CASE j < k
    BY <1>b, <1>1, <1>2, <1>3 DEF NoRepeats
  <1>4. CASE j = k
    BY <1>b, <1>1, <1>2, <1>4
  <1>5. CASE j > k /\ i < k
    BY <1>b, <1>1, <1>2, <1>5 DEF NoRepeats
  <1>6. CASE j > k /\ i = k
    BY <1>b, <1>1, <1>2, <1>6
  <1>7. CASE i > k
    BY <1>b, <1>1, <1>2, <1>7 DEF NoRepeats
  <1> QED
    BY <1>b, <1>3, <1>4, <1>5, <1>6, <1>7

\* Removing an element repeats none, and the element is gone.
LEMMA RemovedNoRepeats ==
    ASSUME NEW s \in Seq(Elem), NEW k \in 1..Len(s), NoRepeats(s)
    PROVE  NoRepeats(Removed(s, k))
  <1> DEFINE t == Removed(s, k)
  <1>0. Len(t) = Len(s) - 1 /\ Len(s) \in Nat
    BY RemovedSeq
  <1> SUFFICES ASSUME NEW i \in 1..Len(s) - 1, NEW j \in 1..Len(s) - 1, t[i] = t[j]
               PROVE  i = j
    BY <1>0 DEF NoRepeats
  <1>1. t[i] = IF i < k THEN s[i] ELSE s[i + 1]
    BY RemovedSeq
  <1>2. t[j] = IF j < k THEN s[j] ELSE s[j + 1]
    BY RemovedSeq
  <1>3. PICK x \in 1..Len(s) : t[i] = s[x] /\ x = IF i < k THEN i ELSE i + 1
    BY <1>0, <1>1
  <1>4. PICK y \in 1..Len(s) : t[j] = s[y] /\ y = IF j < k THEN j ELSE j + 1
    BY <1>0, <1>2
  <1>5. x = y
    BY <1>3, <1>4 DEF NoRepeats
  <1> QED
    BY <1>0, <1>3, <1>4, <1>5

\* The circle after an insertion.
LEMMA InsertedAt ==
    ASSUME NEW s \in Seq(Elem), NEW n \in Elem, NEW k \in 1..Len(s) + 1,
           NEW i \in 0..Len(s) + 2
    PROVE  At(Inserted(s, k, n), i) =
              IF i < k THEN At(s, i) ELSE IF i = k THEN n ELSE At(s, i - 1)
  <1> DEFINE t == Inserted(s, k, n)
  <1>1. /\ Len(t) = Len(s) + 1
        /\ \A j \in 1..Len(s) + 1 :
              t[j] = IF j < k THEN s[j] ELSE IF j = k THEN n ELSE s[j - 1]
    BY InsertedSeq
  <1> HIDE DEF t
  <1>2. i \in 1..Len(s) + 1 => t[i] = IF i < k THEN s[i] ELSE IF i = k THEN n ELSE s[i - 1]
    BY <1>1
  <1>3. At(t, i) = IF i < k THEN At(s, i) ELSE IF i = k THEN n ELSE At(s, i - 1)
    BY <1>1, <1>2 DEF At
  <1> QED
    BY <1>3 DEF t

\* The circle after a removal.
LEMMA RemovedAt ==
    ASSUME NEW s \in Seq(Elem), NEW k \in 1..Len(s), NEW i \in 0..Len(s)
    PROVE  At(Removed(s, k), i) = IF i < k THEN At(s, i) ELSE At(s, i + 1)
  <1> DEFINE t == Removed(s, k)
  <1>1. Len(t) = Len(s) - 1
    BY RemovedSeq
  <1>2. i \in 1..Len(s) - 1 => t[i] = IF i < k THEN s[i] ELSE s[i + 1]
    BY RemovedSeq
  <1> QED
    BY <1>1, <1>2 DEF At

\* The positions of the circle hold different links.
LEMMA AtInjective ==
    ASSUME NEW s \in Seq(Elem), NoRepeats(s),
           NEW i \in 0..Len(s), NEW j \in 0..Len(s), i # j
    PROVE  At(s, i) # At(s, j)
  <1>1. \A k \in 1..Len(s) : s[k] # Root
    BY HeadAssumption
  <1> QED
    BY <1>1 DEF At, NoRepeats

\* The circle closes.
LEMMA AtEnd ==
    ASSUME NEW s \in Seq(Elem)
    PROVE  /\ At(s, 0) = Root
           /\ At(s, Len(s) + 1) = Root
           /\ \A i \in Int : At(s, i) \in Link
  BY DEF At, Link

\* An element of the list has a position.
LEMMA IndexOf ==
    ASSUME NEW n \in Elem, Has(contents, n)
    PROVE  Index(contents, n) \in 1..Len(contents) /\ contents[Index(contents, n)] = n
  BY DEF Has, Index

\* What every insertion does to the links: n comes between the neighbours
\* at k - 1 and at k, and no other link changes.
LEMMA Insertion ==
    ASSUME LInv, NEW n \in Elem, ~Has(contents, n), NEW k \in 1..Len(contents) + 1,
           contents' = Inserted(contents, k, n),
           next' = [next EXCEPT ![At(contents, k - 1)] = n, ![n] = At(contents, k)],
           prev' = [prev EXCEPT ![At(contents, k)] = n, ![n] = At(contents, k - 1)]
    PROVE  LInv'
  <1> DEFINE s == contents
  <1>1. s \in Seq(Elem) /\ NoRepeats(s) /\ Len(s) \in Nat
    BY DEF LInv, ListTypeOK, Distinct, NoRepeats
  <1>2. \A i \in 1..Len(s) : s[i] # n
    BY DEF Has
  <1>3. \A i \in Int : At(s, i) \in Link /\ At(s, i) # n
    BY <1>1, <1>2, HeadAssumption DEF At, Link
  <1>4. n \in Link
    BY DEF Link
  <1>5. ListTypeOK'
    <2>1. contents' \in Seq(Elem)
      BY <1>1, InsertedSeq
    <2>2. /\ next \in [Link -> Link \union {Wild}]
          /\ prev \in [Link -> Link \union {Wild}]
      BY DEF LInv, ListTypeOK
    <2>3. At(s, k) \in Link /\ At(s, k - 1) \in Link
      BY <1>3
    <2> QED
      BY <1>4, <2>1, <2>2, <2>3 DEF ListTypeOK
  <1>6. Distinct'
    BY <1>1, <1>2, InsertedNoRepeats DEF Distinct, NoRepeats
  <1>7. Linked'
    <2> SUFFICES ASSUME NEW i \in 0..Len(s) + 1
                 PROVE  /\ next'[At(contents', i)] = At(contents', i + 1)
                        /\ prev'[At(contents', i + 1)] = At(contents', i)
      BY <1>1, InsertedSeq DEF Linked
    <2>0. next \in [Link -> Link \union {Wild}] /\ prev \in [Link -> Link \union {Wild}]
      BY DEF LInv, ListTypeOK
    <2>1. /\ At(contents', i) = IF i < k THEN At(s, i) ELSE IF i = k THEN n ELSE At(s, i - 1)
          /\ At(contents', i + 1) =
                IF i + 1 < k THEN At(s, i + 1) ELSE IF i + 1 = k THEN n ELSE At(s, i)
      <3>1. i \in 0..Len(s) + 2 /\ i + 1 \in 0..Len(s) + 2 /\ (i + 1) - 1 = i
        BY <1>1
      <3> QED
        BY <1>1, <3>1, InsertedAt
    <2>2. At(s, 0) = Root /\ At(s, Len(s) + 1) = Root
      BY <1>1, AtEnd
    <2>3. CASE i + 1 < k
      <3>1. i \in 0..Len(s) /\ k - 1 \in 0..Len(s) /\ i # k - 1
        BY <1>1, <2>3
      <3>2. At(s, i) # At(s, k - 1)
        BY <1>1, <3>1, AtInjective
      <3>3. At(s, i + 1) # At(s, k)
        <4>1. i + 1 \in 0..Len(s) /\ i + 1 # k /\ i + 1 # 0 /\ 0 \in 0..Len(s)
          BY <1>1, <2>3
        <4>2. CASE k = Len(s) + 1
          BY <1>1, <2>2, <4>1, <4>2, AtInjective
        <4>3. CASE k \in 0..Len(s)
          BY <1>1, <4>1, <4>3, AtInjective
        <4> QED
          BY <1>1, <4>2, <4>3
      <3>4. next[At(s, i)] = At(s, i + 1) /\ prev[At(s, i + 1)] = At(s, i)
        BY <3>1 DEF LInv, Linked
      <3>5. At(contents', i) = At(s, i) /\ At(contents', i + 1) = At(s, i + 1)
        BY <2>1, <2>3
      <3> QED
        BY <1>3, <1>4, <2>0, <3>2, <3>3, <3>4, <3>5
    <2>4. CASE i + 1 = k
      <3>1. At(contents', i) = At(s, k - 1) /\ At(contents', i + 1) = n
        BY <2>1, <2>4
      <3>2. At(s, k - 1) \in Link /\ At(s, k - 1) # n
        BY <1>3
      <3> QED
        BY <1>4, <2>0, <3>1, <3>2
    <2>5. CASE i = k
      <3>1. At(contents', i) = n /\ At(contents', i + 1) = At(s, k)
        BY <2>1, <2>5
      <3>2. At(s, k) \in Link /\ At(s, k) # n
        BY <1>3
      <3> QED
        BY <1>4, <2>0, <3>1, <3>2
    <2>6. CASE i > k
      <3>1. i - 1 \in 0..Len(s) /\ k - 1 \in 0..Len(s) /\ i - 1 # k - 1
        BY <1>1, <2>6
      <3>2. At(s, i - 1) # At(s, k - 1)
        BY <1>1, <3>1, AtInjective
      <3>3. At(s, i) # At(s, k)
        <4>1. k \in 0..Len(s) /\ i # k /\ k # 0 /\ 0 \in 0..Len(s)
          BY <1>1, <2>6
        <4>2. CASE i = Len(s) + 1
          BY <1>1, <2>2, <4>1, <4>2, AtInjective
        <4>3. CASE i \in 0..Len(s)
          BY <1>1, <4>1, <4>3, AtInjective
        <4> QED
          BY <1>1, <4>2, <4>3
      <3>4. next[At(s, i - 1)] = At(s, i) /\ prev[At(s, i)] = At(s, i - 1)
        <4>1. (i - 1) + 1 = i
          OBVIOUS
        <4> QED
          BY <3>1, <4>1 DEF LInv, Linked
      <3>5. At(contents', i) = At(s, i - 1) /\ At(contents', i + 1) = At(s, i)
        BY <2>1, <2>6
      <3>6. At(s, i) \in Link /\ At(s, i - 1) \in Link /\ At(s, i) # n /\ At(s, i - 1) # n
        BY <1>3
      <3> QED
        BY <1>4, <2>0, <3>2, <3>3, <3>4, <3>5, <3>6
    <2> QED
      BY <1>1, <2>3, <2>4, <2>5, <2>6
  <1> QED
    BY <1>5, <1>6, <1>7 DEF LInv

\* The three ways to add an element are insertions.
LEMMA AddKeepsLInv ==
    ASSUME LInv, NEW n \in Elem, add(n)
    PROVE  LInv'
  <1>1. contents \in Seq(Elem) /\ Len(contents) \in Nat
    BY DEF LInv, ListTypeOK
  <1>2. At(contents, 0) = Root /\ next[Root] = At(contents, 1)
    <2>1. 0 \in 0..Len(contents) /\ 0 + 1 = 1
      BY <1>1
    <2>2. At(contents, 0) = Root
      BY <1>1, AtEnd
    <2> QED
      BY <2>1, <2>2 DEF LInv, Linked
  <1>3. n # Root /\ n # At(contents, 1) /\ At(contents, 1) \in Link /\ n \in Link
    BY <1>1, HeadAssumption DEF add, Has, At, Link
  <1>4. next' = [next EXCEPT ![At(contents, 1 - 1)] = n, ![n] = At(contents, 1)]
    <2>1. next' = [next EXCEPT ![n] = At(contents, 1), ![Root] = n]
      BY <1>2 DEF add
    <2>2. next \in [Link -> Link \union {Wild}] /\ Root \in Link
      BY DEF LInv, ListTypeOK, Link
    <2>3. At(contents, 1 - 1) = Root
      BY <1>2
    <2> QED
      BY <1>3, <2>1, <2>2, <2>3
  <1>5. prev' = [prev EXCEPT ![At(contents, 1)] = n, ![n] = At(contents, 1 - 1)]
    <2>1. At(contents, 1 - 1) = Root
      BY <1>2
    <2> QED
      BY <1>2, <2>1 DEF add
  <1>6. contents' = Inserted(contents, 1, n) /\ ~Has(contents, n) /\ 1 \in 1..Len(contents) + 1
    BY <1>1 DEF add
  <1> QED
    BY <1>4, <1>5, <1>6, Insertion

LEMMA AddPrevKeepsLInv ==
    ASSUME LInv, NEW n \in Elem, NEW cur \in Elem, add_prev(n, cur)
    PROVE  LInv'
  <1> DEFINE k == Index(contents, cur)
  <1>1. contents \in Seq(Elem) /\ Len(contents) \in Nat
    BY DEF LInv, ListTypeOK
  <1>2. k \in 1..Len(contents) /\ contents[k] = cur /\ ~Has(contents, n)
    BY IndexOf DEF add_prev
  <1>3. At(contents, k) = cur /\ n # cur
    BY <1>2 DEF At, Has
  <1>4. prev[cur] = At(contents, k - 1)
    <2>1. k - 1 \in 0..Len(contents) /\ (k - 1) + 1 = k
      BY <1>1, <1>2
    <2> QED
      BY <1>3, <2>1 DEF LInv, Linked
  <1>5. next' = [next EXCEPT ![At(contents, k - 1)] = n, ![n] = At(contents, k)]
    BY <1>3, <1>4 DEF add_prev
  <1>6. prev' = [prev EXCEPT ![At(contents, k)] = n, ![n] = At(contents, k - 1)]
    <2>1. prev' = [prev EXCEPT ![n] = At(contents, k - 1), ![cur] = n]
      BY <1>4 DEF add_prev
    <2>2. prev \in [Link -> Link \union {Wild}] /\ n \in Link /\ cur \in Link
      BY DEF LInv, ListTypeOK, Link
    <2> QED
      BY <1>3, <2>1, <2>2
  <1>7. contents' = Inserted(contents, k, n) /\ k \in 1..Len(contents) + 1
    BY <1>1, <1>2 DEF add_prev
  <1> QED
    BY <1>2, <1>5, <1>6, <1>7, Insertion

LEMMA AddNextKeepsLInv ==
    ASSUME LInv, NEW n \in Elem, NEW cur \in Elem, add_next(n, cur)
    PROVE  LInv'
  <1> DEFINE k == Index(contents, cur) + 1
  <1>1. contents \in Seq(Elem) /\ Len(contents) \in Nat
    BY DEF LInv, ListTypeOK
  <1>2. Index(contents, cur) \in 1..Len(contents) /\ contents[Index(contents, cur)] = cur /\ ~Has(contents, n)
    BY IndexOf DEF add_next
  <1>3. At(contents, k - 1) = cur /\ n # cur
    BY <1>2 DEF At, Has
  <1>4. next[cur] = At(contents, k)
    <2>1. Index(contents, cur) \in 0..Len(contents) /\ At(contents, Index(contents, cur)) = cur
      BY <1>1, <1>2 DEF At
    <2> QED
      BY <2>1 DEF LInv, Linked
  <1>5. prev' = [prev EXCEPT ![At(contents, k)] = n, ![n] = At(contents, k - 1)]
    BY <1>3, <1>4 DEF add_next
  <1>6. next' = [next EXCEPT ![At(contents, k - 1)] = n, ![n] = At(contents, k)]
    <2>1. next' = [next EXCEPT ![n] = At(contents, k), ![cur] = n]
      BY <1>4 DEF add_next
    <2>2. next \in [Link -> Link \union {Wild}] /\ n \in Link /\ cur \in Link
      BY DEF LInv, ListTypeOK, Link
    <2> QED
      BY <1>3, <2>1, <2>2
  <1>7. contents' = Inserted(contents, k, n) /\ k \in 1..Len(contents) + 1
    BY <1>1, <1>2 DEF add_next
  <1> QED
    BY <1>2, <1>5, <1>6, <1>7, Insertion

\* Taking an element out joins its neighbours.
LEMMA DelKeepsLInv ==
    ASSUME LInv, NEW n \in Elem, del(n)
    PROVE  LInv'
  <1> DEFINE s == contents
             k == Index(contents, n)
  <1>1. s \in Seq(Elem) /\ NoRepeats(s) /\ Len(s) \in Nat
    BY DEF LInv, ListTypeOK, Distinct, NoRepeats
  <1>2. k \in 1..Len(s) /\ s[k] = n /\ At(s, k) = n
    <2>1. k \in 1..Len(s) /\ s[k] = n
      BY IndexOf DEF del
    <2> QED
      BY <2>1 DEF At
  <1>3. next[n] = At(s, k + 1) /\ prev[n] = At(s, k - 1)
    <2>1. k \in 0..Len(s) /\ k - 1 \in 0..Len(s) /\ (k - 1) + 1 = k
      BY <1>1, <1>2
    <2> QED
      BY <1>2, <2>1 DEF LInv, Linked
  <1>4. /\ prev' = [prev EXCEPT ![At(s, k + 1)] = At(s, k - 1)]
        /\ next' = [next EXCEPT ![At(s, k - 1)] = At(s, k + 1)]
        /\ contents' = Removed(s, k)
    BY <1>3 DEF del
  <1>5. \A i \in Int : At(s, i) \in Link
    BY <1>1, AtEnd
  <1>6. ListTypeOK'
    BY <1>1, <1>2, <1>4, <1>5, RemovedSeq DEF LInv, ListTypeOK
  <1>7. Distinct'
    BY <1>1, <1>2, <1>4, RemovedNoRepeats DEF Distinct, NoRepeats
  <1>8. Linked'
    <2> SUFFICES ASSUME NEW i \in 0..Len(s) - 1
                 PROVE  /\ next'[At(contents', i)] = At(contents', i + 1)
                        /\ prev'[At(contents', i + 1)] = At(contents', i)
      BY <1>1, <1>2, <1>4, RemovedSeq DEF Linked
    <2>0. next \in [Link -> Link \union {Wild}] /\ prev \in [Link -> Link \union {Wild}]
      BY DEF LInv, ListTypeOK
    <2>1. /\ At(contents', i) = IF i < k THEN At(s, i) ELSE At(s, i + 1)
          /\ At(contents', i + 1) = IF i + 1 < k THEN At(s, i + 1) ELSE At(s, i + 2)
      <3>1. i \in 0..Len(s) /\ i + 1 \in 0..Len(s) /\ (i + 1) + 1 = i + 2
        BY <1>1
      <3> QED
        BY <1>1, <1>2, <1>4, <3>1, RemovedAt
    <2>2. At(s, 0) = Root /\ At(s, Len(s) + 1) = Root
      BY <1>1, AtEnd
    <2>3. CASE i + 1 < k
      <3>1. /\ i \in 0..Len(s) /\ k - 1 \in 0..Len(s) /\ i # k - 1
            /\ i + 1 \in 0..Len(s) /\ i + 1 # 0 /\ 0 \in 0..Len(s) /\ i + 1 # k + 1
        BY <1>1, <1>2, <2>3
      <3>2. At(s, i) # At(s, k - 1)
        BY <1>1, <3>1, AtInjective
      <3>3. At(s, i + 1) # At(s, k + 1)
        <4>1. CASE k = Len(s)
          BY <1>1, <2>2, <3>1, <4>1, AtInjective
        <4>2. CASE k + 1 \in 0..Len(s)
          BY <1>1, <3>1, <4>2, AtInjective
        <4> QED
          BY <1>1, <1>2, <4>1, <4>2
      <3>4. next[At(s, i)] = At(s, i + 1) /\ prev[At(s, i + 1)] = At(s, i)
        BY <3>1 DEF LInv, Linked
      <3>5. At(contents', i) = At(s, i) /\ At(contents', i + 1) = At(s, i + 1)
        BY <1>2, <2>1, <2>3
      <3>6. At(s, i) \in Link /\ At(s, i + 1) \in Link
        BY <1>5
      <3> QED
        BY <1>4, <2>0, <3>2, <3>3, <3>4, <3>5, <3>6
    <2>4. CASE i + 1 = k
      <3>1. At(contents', i) = At(s, k - 1) /\ At(contents', i + 1) = At(s, k + 1)
        BY <2>1, <2>4
      <3>2. At(s, k - 1) \in Link /\ At(s, k + 1) \in Link
        BY <1>2, <1>5
      <3> QED
        BY <1>4, <2>0, <3>1, <3>2
    <2>5. CASE i >= k
      <3>1. /\ i + 1 \in 0..Len(s) /\ k - 1 \in 0..Len(s) /\ i + 1 # k - 1
            /\ k + 1 \in 0..Len(s) /\ i + 2 # k + 1 /\ k + 1 # 0 /\ 0 \in 0..Len(s)
        BY <1>1, <1>2, <2>5
      <3>2. At(s, i + 1) # At(s, k - 1)
        BY <1>1, <3>1, AtInjective
      <3>3. At(s, i + 2) # At(s, k + 1)
        <4>1. CASE i + 2 = Len(s) + 1
          BY <1>1, <2>2, <3>1, <4>1, AtInjective
        <4>2. CASE i + 2 \in 0..Len(s)
          BY <1>1, <3>1, <4>2, AtInjective
        <4> QED
          BY <1>1, <4>1, <4>2
      <3>4. next[At(s, i + 1)] = At(s, i + 2) /\ prev[At(s, i + 2)] = At(s, i + 1)
        <4>1. (i + 1) + 1 = i + 2
          OBVIOUS
        <4> QED
          BY <3>1, <4>1 DEF LInv, Linked
      <3>5. At(contents', i) = At(s, i + 1) /\ At(contents', i + 1) = At(s, i + 2)
        BY <1>2, <2>1, <2>5
      <3>6. At(s, i + 1) \in Link /\ At(s, i + 2) \in Link
        BY <1>5
      <3> QED
        BY <1>4, <2>0, <3>2, <3>3, <3>4, <3>5, <3>6
    <2> QED
      BY <1>2, <2>3, <2>4, <2>5
  <1> QED
    BY <1>6, <1>7, <1>8 DEF LInv

\* Whatever calls of add, add_prev, add_next, del and empty are made on it,
\* the pointers of a linked_list_t represent the sequence of its elements.
THEOREM Representation == ListSpec => []LInv
  <1>1. ListInit => LInv
    <2> SUFFICES ASSUME ListInit PROVE LInv
      OBVIOUS
    <2>1. contents = <<>> /\ Len(contents) = 0
      BY DEF ListInit
    <2>2. ListTypeOK
      BY <2>1 DEF ListInit, ListTypeOK, Link
    <2>3. Distinct
      BY <2>1 DEF Distinct
    <2>4. Linked
      BY <2>1 DEF ListInit, Linked, At, Link
    <2> QED
      BY <2>2, <2>3, <2>4 DEF LInv
  <1>2. LInv /\ [ListNext]_listVars => LInv'
    <2> SUFFICES ASSUME LInv, [ListNext]_listVars PROVE LInv'
      OBVIOUS
    <2>1. CASE empty
      <3>1. contents' = <<>> /\ Len(contents') = 0
        BY <2>1 DEF empty
      <3>2. ListTypeOK'
        BY <2>1, <3>1 DEF LInv, empty, ListTypeOK, Link
      <3>3. Distinct'
        BY <3>1 DEF Distinct
      <3>4. next'[Root] = Root /\ prev'[Root] = Root
        BY <2>1 DEF LInv, empty, ListTypeOK, Link
      <3>5. Linked'
        BY <3>1, <3>4 DEF Linked, At
      <3> QED
        BY <3>2, <3>3, <3>5 DEF LInv
    <2>2. CASE UNCHANGED listVars
      BY <2>2 DEF LInv, ListTypeOK, Distinct, Linked, listVars
    <2> QED
      BY <2>1, <2>2, AddKeepsLInv, AddPrevKeepsLInv, AddNextKeepsLInv, DelKeepsLInv
      DEF ListNext
  <1> QED
    BY <1>1, <1>2, PTL DEF ListSpec

-----------------------------------------------------------------------------
(* The wait list. *)

\* What is left of a list without repetitions when an element is taken out.
LEMMA RemovedList ==
    ASSUME NEW s \in Seq(Node), NEW k \in 1..Len(s),
           \A i, j \in 1..Len(s) : s[i] = s[j] => i = j
    PROVE  /\ Removed(s, k) \in Seq(Node)
           /\ Len(Removed(s, k)) = Len(s) - 1
           /\ \A i \in 1..Len(s) - 1 :
                 Removed(s, k)[i] = IF i < k THEN s[i] ELSE s[i + 1]
           /\ ~Has(Removed(s, k), s[k])
           /\ \A n : Has(Removed(s, k), n) => Has(s, n)
           /\ \A i, j \in 1..Len(s) - 1 :
                 Removed(s, k)[i] = Removed(s, k)[j] => i = j
  <1>1. /\ Removed(s, k) \in Seq(Node)
        /\ Len(Removed(s, k)) = Len(s) - 1
        /\ \A i \in 1..Len(s) - 1 :
              Removed(s, k)[i] = IF i < k THEN s[i] ELSE s[i + 1]
    BY DEF Removed
  <1>2. \A i \in 1..Len(s) - 1 :
           \E x \in 1..Len(s) : /\ Removed(s, k)[i] = s[x]
                                /\ x # k
                                /\ x = IF i < k THEN i ELSE i + 1
    BY <1>1
  <1>3. ~Has(Removed(s, k), s[k])
    BY <1>1, <1>2 DEF Has
  <1>4. \A n : Has(Removed(s, k), n) => Has(s, n)
    BY <1>1, <1>2 DEF Has
  <1>5. ASSUME NEW i \in 1..Len(s) - 1, NEW j \in 1..Len(s) - 1,
               Removed(s, k)[i] = Removed(s, k)[j]
        PROVE  i = j
    <2>1. PICK x \in 1..Len(s) :
             Removed(s, k)[i] = s[x] /\ x = IF i < k THEN i ELSE i + 1
      BY <1>2
    <2>2. PICK y \in 1..Len(s) :
             Removed(s, k)[j] = s[y] /\ y = IF j < k THEN j ELSE j + 1
      BY <1>2
    <2>3. x = y
      BY <1>5, <2>1, <2>2
    <2> QED
      BY <2>1, <2>2, <2>3
  <1> QED
    BY <1>1, <1>3, <1>4, <1>5

\* The position of the element that is read at an end of the list.
LEMMA EntryPlace ==
    ASSUME WInv, NEW t \in Thread, pc[t] = "del"
    PROVE  /\ Len(list) \in Nat /\ Len(list) > 0
           /\ Index(list, arg[t]) = IF op[t] = "head" THEN 1 ELSE Len(list)
           /\ list[Index(list, arg[t])] = arg[t]
           /\ Index(list, arg[t]) \in 1..Len(list)
           /\ arg[t] \in Node
  <1>1. list \in Seq(Node) /\ list # <<>>
    BY DEF WInv, TypeOK, EntryInv
  <1>2. Len(list) \in Nat /\ Len(list) > 0
    BY <1>1
  <1>3. arg[t] = list[IF op[t] = "head" THEN 1 ELSE Len(list)]
    BY DEF WInv, EntryInv, Entry
  <1>4. Index(list, arg[t]) \in 1..Len(list) /\ list[Index(list, arg[t])] = arg[t]
    BY <1>2, <1>3 DEF Index
  <1>5. \A i, j \in 1..Len(list) : list[i] = list[j] => i = j
    BY DEF WInv, OneOwner
  <1> QED
    BY <1>1, <1>2, <1>3, <1>4, <1>5

\* A set of threads is finite, and a larger one has no smaller cardinality.
LEMMA ActiveFinite ==
    ASSUME NEW S \in SUBSET Thread, NEW R \in SUBSET Thread
    PROVE  /\ IsFiniteSet(S) /\ Cardinality(S) \in Nat
           /\ S \subseteq R => Cardinality(S) <= Cardinality(R)
           /\ \A x \in Thread : x \notin S => Cardinality(S \union {x}) = Cardinality(S) + 1
           /\ \A x \in S : Cardinality(S \ {x}) = Cardinality(S) - 1
  <1>1. IsFiniteSet(S) /\ IsFiniteSet(R)
    BY WaitListAssumption, FS_Subset
  <1>2. Cardinality(S) \in Nat
    BY <1>1, FS_CardinalityType
  <1>3. S \subseteq R => Cardinality(S) <= Cardinality(R)
    BY <1>1, FS_Subset
  <1>4. \A x \in Thread : x \notin S => Cardinality(S \union {x}) = Cardinality(S) + 1
    BY <1>1, FS_AddElement
  <1>5. \A x \in S : Cardinality(S \ {x}) = Cardinality(S) - 1
    BY <1>1, FS_RemoveElement
  <1> QED
    BY <1>1, <1>2, <1>3, <1>4, <1>5

\* Call keeps the parts of the invariant that count nothing.
LEMMA CallKeeps ==
    ASSUME WInv, NEW t \in Thread, NEW o \in Ops, Call(t, o)
    PROVE  TypeOK' /\ MutexInv' /\ EntryInv' /\ OneOwner' /\ NumInv' /\ FlushedAwake'
  <1>1. TypeOK'
    BY WaitListAssumption DEF WInv, Call, TypeOK, PC, Has
  <1>2. MutexInv'
    BY WaitListAssumption DEF WInv, Call, MutexInv, TypeOK, PC, Critical, Has
  <1>3. EntryInv'
    BY WaitListAssumption DEF WInv, Call, EntryInv, TypeOK, MutexInv, Entry, Getters, Has
  <1>4. OneOwner'
    BY WaitListAssumption DEF WInv, Call, OneOwner, TypeOK, MutexInv, Has
  <1>5. NumInv'
    BY WaitListAssumption DEF WInv, Call, NumInv, TypeOK, MutexInv, Has
  <1>6. FlushedAwake'
    BY WaitListAssumption DEF WInv, Call, FlushedAwake, TypeOK, MutexInv, Waiting, Has
  <1> QED
    BY <1>1, <1>2, <1>3, <1>4, <1>5, <1>6

\* lock keeps the parts of the invariant that count nothing.
LEMMA lockKeeps ==
    ASSUME WInv, NEW t \in Thread, lock(t)
    PROVE  TypeOK' /\ MutexInv' /\ EntryInv' /\ OneOwner' /\ NumInv' /\ FlushedAwake'
  <1>1. TypeOK'
    BY WaitListAssumption DEF WInv, lock, TypeOK, PC
  <1>2. MutexInv'
    BY WaitListAssumption DEF WInv, lock, MutexInv, TypeOK, PC, Critical
  <1>3. EntryInv'
    BY WaitListAssumption DEF WInv, lock, EntryInv, TypeOK, MutexInv, Entry, Getters
  <1>4. OneOwner'
    BY WaitListAssumption DEF WInv, lock, OneOwner, TypeOK, MutexInv, Has
  <1>5. NumInv'
    BY WaitListAssumption DEF WInv, lock, NumInv, TypeOK, MutexInv
  <1>6. FlushedAwake'
    BY WaitListAssumption DEF WInv, lock, FlushedAwake, TypeOK, MutexInv, Waiting
  <1> QED
    BY <1>1, <1>2, <1>3, <1>4, <1>5, <1>6

\* putAdd keeps the parts of the invariant that count nothing.
LEMMA putAddKeeps ==
    ASSUME WInv, NEW t \in Thread, putAdd(t)
    PROVE  TypeOK' /\ MutexInv' /\ EntryInv' /\ OneOwner' /\ NumInv' /\ FlushedAwake'
  <1>1. TypeOK'
    <2>1. arg[t] \in Node
      BY DEF WInv, putAdd, TypeOK, EntryInv
    <2>2. list' \in Seq(Node)
      BY <2>1 DEF WInv, putAdd, TypeOK
    <2> QED
      BY <2>2 DEF WInv, putAdd, TypeOK, PC
  <1>2. MutexInv'
    BY WaitListAssumption DEF WInv, putAdd, MutexInv, TypeOK, PC, Critical
  <1>3. EntryInv'
    <2>1. \A u \in Thread : pc'[u] # "del"
      BY DEF WInv, putAdd, TypeOK, MutexInv, Critical
    <2>2. ASSUME NEW u \in Thread, pc'[u] \in {"lock", "in"}, op'[u] = "put"
          PROVE  arg'[u] # None
      <3>1. u # t /\ pc[u] = pc'[u] /\ arg'[u] = arg[u]
        BY <2>2 DEF WInv, putAdd, TypeOK
      <3> QED
        BY <2>2, <3>1 DEF WInv, EntryInv, putAdd
    <2> QED
      BY <2>1, <2>2 DEF EntryInv
  <1>4. OneOwner'
    <2>1. arg[t] \in Node /\ ~Has(list, arg[t])
      BY DEF WInv, putAdd, TypeOK, EntryInv, OneOwner
    <2>2. list \in Seq(Node) /\ \A i, j \in 1..Len(list) : list[i] = list[j] => i = j
      BY DEF WInv, TypeOK, OneOwner
    <2>3. CASE alive
      <3>1. /\ Len(list') = Len(list) + 1 /\ Len(list) \in Nat
            /\ \A i \in 1..Len(list) + 1 : list'[i] = IF i = 1 THEN arg[t] ELSE list[i - 1]
        BY <2>1, <2>2, <2>3 DEF putAdd
      <3>2. ASSUME NEW i \in 1..Len(list'), NEW j \in 1..Len(list'), list'[i] = list'[j]
            PROVE  i = j
        <4>1. i > 1 => i - 1 \in 1..Len(list) /\ list'[i] = list[i - 1]
          BY <3>1
        <4>2. j > 1 => j - 1 \in 1..Len(list) /\ list'[j] = list[j - 1]
          BY <3>1
        <4>3. \A x \in 1..Len(list) : list[x] # arg[t]
          BY <2>1 DEF Has
        <4>4. i = 1 => list'[i] = arg[t]
          BY <3>1
        <4>5. j = 1 => list'[j] = arg[t]
          BY <3>1
        <4>6. CASE i = 1 \/ j = 1
          BY <3>1, <3>2, <4>1, <4>2, <4>3, <4>4, <4>5, <4>6
        <4>7. CASE i > 1 /\ j > 1
          <5>1. i - 1 = j - 1
            BY <2>2, <3>2, <4>1, <4>2, <4>7
          <5> QED
            BY <3>1, <5>1
        <4> QED
          BY <3>1, <4>6, <4>7
      <3>3. \A n : Has(list', n) => n = arg[t] \/ Has(list, n)
        BY <3>1 DEF Has
      <3>4. arg' = [arg EXCEPT ![t] = None] /\ pc' = [pc EXCEPT ![t] = "signal"]
        BY DEF putAdd
      <3>5. \A u \in Thread : arg'[u] # None /\ Has(list', arg'[u]) => pc'[u] = "del"
        BY <3>3, <3>4, <2>1, WaitListAssumption DEF WInv, TypeOK, OneOwner
      <3>6. \A u, v \in Thread : arg'[u] = arg'[v] /\ arg'[u] # None => u = v
        BY <3>4 DEF WInv, TypeOK, OneOwner
      <3> QED
        BY <3>2, <3>5, <3>6 DEF OneOwner
    <2>4. CASE ~alive
      BY <2>4 DEF WInv, putAdd, TypeOK, OneOwner
    <2> QED
      BY <2>3, <2>4
  <1>5. NumInv'
    BY WaitListAssumption DEF WInv, putAdd, NumInv, TypeOK, MutexInv
  <1>6. FlushedAwake'
    BY WaitListAssumption DEF WInv, putAdd, FlushedAwake, TypeOK, MutexInv, Waiting
  <1> QED
    BY <1>1, <1>2, <1>3, <1>4, <1>5, <1>6

\* putSignal keeps the parts of the invariant that count nothing.
LEMMA putSignalKeeps ==
    ASSUME WInv, NEW t \in Thread, putSignal(t)
    PROVE  TypeOK' /\ MutexInv' /\ EntryInv' /\ OneOwner' /\ NumInv' /\ FlushedAwake'
  <1>1. TypeOK'
    BY WaitListAssumption DEF WInv, putSignal, TypeOK, PC, Waiting
  <1>2. MutexInv'
    BY WaitListAssumption DEF WInv, putSignal, MutexInv, TypeOK, PC, Critical, Waiting
  <1>3. EntryInv'
    BY WaitListAssumption DEF WInv, putSignal, EntryInv, TypeOK, MutexInv, Entry, Getters, Waiting
  <1>4. OneOwner'
    BY WaitListAssumption DEF WInv, putSignal, OneOwner, TypeOK, MutexInv, Has, Waiting
  <1>5. NumInv'
    BY WaitListAssumption DEF WInv, putSignal, NumInv, TypeOK, MutexInv, Waiting
  <1>6. FlushedAwake'
    BY WaitListAssumption DEF WInv, putSignal, FlushedAwake, TypeOK, MutexInv, Waiting
  <1> QED
    BY <1>1, <1>2, <1>3, <1>4, <1>5, <1>6

\* getWait keeps the parts of the invariant that count nothing.
LEMMA getWaitKeeps ==
    ASSUME WInv, NEW t \in Thread, getWait(t)
    PROVE  TypeOK' /\ MutexInv' /\ EntryInv' /\ OneOwner' /\ NumInv' /\ FlushedAwake'
  <1>1. TypeOK'
    BY WaitListAssumption DEF WInv, getWait, TypeOK, PC
  <1>2. MutexInv'
    BY WaitListAssumption DEF WInv, getWait, MutexInv, TypeOK, PC, Critical
  <1>3. EntryInv'
    BY WaitListAssumption DEF WInv, getWait, EntryInv, TypeOK, MutexInv, Entry, Getters
  <1>4. OneOwner'
    BY WaitListAssumption DEF WInv, getWait, OneOwner, TypeOK, MutexInv, Has
  <1>5. NumInv'
    BY WaitListAssumption DEF WInv, getWait, NumInv, TypeOK, MutexInv
  <1>6. FlushedAwake'
    BY WaitListAssumption DEF WInv, getWait, FlushedAwake, TypeOK, MutexInv, Waiting
  <1> QED
    BY <1>1, <1>2, <1>3, <1>4, <1>5, <1>6

\* Spurious keeps the parts of the invariant that count nothing.
LEMMA SpuriousKeeps ==
    ASSUME WInv, NEW t \in Thread, Spurious(t)
    PROVE  TypeOK' /\ MutexInv' /\ EntryInv' /\ OneOwner' /\ NumInv' /\ FlushedAwake'
  <1>1. TypeOK'
    BY WaitListAssumption DEF WInv, Spurious, TypeOK, PC
  <1>2. MutexInv'
    BY WaitListAssumption DEF WInv, Spurious, MutexInv, TypeOK, PC, Critical
  <1>3. EntryInv'
    BY WaitListAssumption DEF WInv, Spurious, EntryInv, TypeOK, MutexInv, Entry, Getters
  <1>4. OneOwner'
    BY WaitListAssumption DEF WInv, Spurious, OneOwner, TypeOK, MutexInv, Has
  <1>5. NumInv'
    BY WaitListAssumption DEF WInv, Spurious, NumInv, TypeOK, MutexInv
  <1>6. FlushedAwake'
    BY WaitListAssumption DEF WInv, Spurious, FlushedAwake, TypeOK, MutexInv, Waiting
  <1> QED
    BY <1>1, <1>2, <1>3, <1>4, <1>5, <1>6

\* Timeout keeps the parts of the invariant that count nothing.
LEMMA TimeoutKeeps ==
    ASSUME WInv, NEW t \in Thread, Timeout(t)
    PROVE  TypeOK' /\ MutexInv' /\ EntryInv' /\ OneOwner' /\ NumInv' /\ FlushedAwake'
  <1>1. TypeOK'
    BY WaitListAssumption DEF WInv, Timeout, TypeOK, PC
  <1>2. MutexInv'
    BY WaitListAssumption DEF WInv, Timeout, MutexInv, TypeOK, PC, Critical
  <1>3. EntryInv'
    BY WaitListAssumption DEF WInv, Timeout, EntryInv, TypeOK, MutexInv, Entry, Getters
  <1>4. OneOwner'
    BY WaitListAssumption DEF WInv, Timeout, OneOwner, TypeOK, MutexInv, Has
  <1>5. NumInv'
    BY WaitListAssumption DEF WInv, Timeout, NumInv, TypeOK, MutexInv
  <1>6. FlushedAwake'
    BY WaitListAssumption DEF WInv, Timeout, FlushedAwake, TypeOK, MutexInv, Waiting
  <1> QED
    BY <1>1, <1>2, <1>3, <1>4, <1>5, <1>6

\* getLate keeps the parts of the invariant that count nothing.
LEMMA getLateKeeps ==
    ASSUME WInv, NEW t \in Thread, getLate(t)
    PROVE  TypeOK' /\ MutexInv' /\ EntryInv' /\ OneOwner' /\ NumInv' /\ FlushedAwake'
  <1>1. TypeOK'
    BY WaitListAssumption DEF WInv, getLate, TypeOK, PC
  <1>2. MutexInv'
    BY WaitListAssumption DEF WInv, getLate, MutexInv, TypeOK, PC, Critical
  <1>3. EntryInv'
    BY WaitListAssumption DEF WInv, getLate, EntryInv, TypeOK, MutexInv, Entry, Getters
  <1>4. OneOwner'
    BY WaitListAssumption DEF WInv, getLate, OneOwner, TypeOK, MutexInv, Has
  <1>5. NumInv'
    BY WaitListAssumption DEF WInv, getLate, NumInv, TypeOK, MutexInv
  <1>6. FlushedAwake'
    BY WaitListAssumption DEF WInv, getLate, FlushedAwake, TypeOK, MutexInv, Waiting
  <1> QED
    BY <1>1, <1>2, <1>3, <1>4, <1>5, <1>6

\* getEntry keeps the parts of the invariant that count nothing.
LEMMA getEntryKeeps ==
    ASSUME WInv, NEW t \in Thread, getEntry(t)
    PROVE  TypeOK' /\ MutexInv' /\ EntryInv' /\ OneOwner' /\ NumInv' /\ FlushedAwake'
  <1>1. TypeOK'
    BY WaitListAssumption DEF WInv, getEntry, TypeOK, PC, Entry
  <1>2. MutexInv'
    BY WaitListAssumption DEF WInv, getEntry, MutexInv, TypeOK, PC, Critical, Entry
  <1>3. EntryInv'
    BY WaitListAssumption DEF WInv, getEntry, EntryInv, TypeOK, MutexInv, Entry, Getters
  <1>4. OneOwner'
    <2>1. list \in Seq(Node) /\ list # <<>> /\ Has(list, Entry(op[t])) /\ Entry(op[t]) \in Node
      BY DEF WInv, TypeOK, getEntry, Entry, Has
    <2>2. \A u \in Thread \ {t} : pc[u] # "del"
      BY DEF WInv, MutexInv, getEntry, Critical
    <2>3. \A u \in Thread \ {t} : arg[u] # Entry(op[t])
      BY <2>1, <2>2, WaitListAssumption DEF WInv, OneOwner
    <2>4. /\ list' = list
          /\ arg' = [arg EXCEPT ![t] = Entry(op[t])]
          /\ pc' = [pc EXCEPT ![t] = "del"]
      BY DEF getEntry
    <2>5. \A u \in Thread : arg'[u] # None /\ Has(list', arg'[u]) => pc'[u] = "del"
      BY <2>4 DEF WInv, TypeOK, OneOwner
    <2>6. \A u, v \in Thread : arg'[u] = arg'[v] /\ arg'[u] # None => u = v
      BY <2>3, <2>4 DEF WInv, TypeOK, OneOwner
    <2> QED
      BY <2>4, <2>5, <2>6 DEF WInv, OneOwner
  <1>5. NumInv'
    BY WaitListAssumption DEF WInv, getEntry, NumInv, TypeOK, MutexInv, Entry
  <1>6. FlushedAwake'
    BY WaitListAssumption DEF WInv, getEntry, FlushedAwake, TypeOK, MutexInv, Waiting, Entry
  <1> QED
    BY <1>1, <1>2, <1>3, <1>4, <1>5, <1>6

\* getDel keeps the parts of the invariant that count nothing.
LEMMA getDelKeeps ==
    ASSUME WInv, NEW t \in Thread, getDel(t)
    PROVE  TypeOK' /\ MutexInv' /\ EntryInv' /\ OneOwner' /\ NumInv' /\ FlushedAwake'
  <1>0. /\ list' \in Seq(Node) /\ Len(list') = Len(list) - 1
        /\ ~Has(list', arg[t])
        /\ \A n : Has(list', n) => Has(list, n)
        /\ \A i, j \in 1..Len(list') : list'[i] = list'[j] => i = j
    <2>1. list' = Removed(list, Index(list, arg[t])) /\ pc[t] = "del"
      BY DEF getDel
    <2>2. list \in Seq(Node) /\ \A i, j \in 1..Len(list) : list[i] = list[j] => i = j
      BY DEF WInv, TypeOK, OneOwner
    <2>3. /\ Index(list, arg[t]) \in 1..Len(list)
          /\ list[Index(list, arg[t])] = arg[t]
      BY <2>1, EntryPlace
    <2> DEFINE k == Index(list, arg[t])
    <2> HIDE DEF k
    <2>4. k \in 1..Len(list) /\ list[k] = arg[t] /\ list' = Removed(list, k)
      BY <2>1, <2>3 DEF k
    <2> DEFINE r == Removed(list, k)
    <2>5. /\ r \in Seq(Node) /\ Len(r) = Len(list) - 1
          /\ ~Has(r, list[k])
          /\ \A n : Has(r, n) => Has(list, n)
          /\ \A i, j \in 1..Len(list) - 1 : r[i] = r[j] => i = j
      BY <2>2, <2>4, RemovedList
    <2>6. list' = r /\ Len(list') = Len(list) - 1
      BY <2>4, <2>5
    <2> HIDE DEF r
    <2> QED
      BY <2>4, <2>5, <2>6
  <1>1. TypeOK'
    <2>1. list' \in Seq(Node)
      BY <1>0
    <2> QED
      BY <2>1 DEF WInv, getDel, TypeOK, PC
  <1>2. MutexInv'
    BY WaitListAssumption DEF WInv, getDel, MutexInv, TypeOK, PC, Critical
  <1>3. EntryInv'
    <2>1. \A u \in Thread : pc'[u] # "del"
      BY DEF WInv, getDel, TypeOK, MutexInv, Critical
    <2>2. \A u \in Thread : pc'[u] \in {"lock", "in"} => pc'[u] = pc[u]
      BY DEF WInv, getDel, TypeOK
    <2> QED
      BY <2>1, <2>2 DEF WInv, EntryInv, getDel
  <1>4. OneOwner'
    <2>1. \A u \in Thread \ {t} : pc[u] # "del"
      BY DEF WInv, MutexInv, getDel, Critical
    <2>2. arg' = arg /\ pc' = [pc EXCEPT ![t] = "idle"]
      BY DEF getDel
    <2>3. \A u \in Thread : arg'[u] # None /\ Has(list', arg'[u]) => pc'[u] = "del"
      BY <1>0, <2>1, <2>2 DEF WInv, TypeOK, OneOwner
    <2>4. \A u, v \in Thread : arg'[u] = arg'[v] /\ arg'[u] # None => u = v
      BY <2>2 DEF WInv, OneOwner
    <2> QED
      BY <1>0, <2>3, <2>4 DEF OneOwner
  <1>5. NumInv'
    BY <1>0 DEF WInv, getDel, TypeOK, NumInv
  <1>6. FlushedAwake'
    BY WaitListAssumption DEF WInv, getDel, FlushedAwake, TypeOK, MutexInv, Waiting
  <1> QED
    BY <1>1, <1>2, <1>3, <1>4, <1>5, <1>6

\* getNull keeps the parts of the invariant that count nothing.
LEMMA getNullKeeps ==
    ASSUME WInv, NEW t \in Thread, getNull(t)
    PROVE  TypeOK' /\ MutexInv' /\ EntryInv' /\ OneOwner' /\ NumInv' /\ FlushedAwake'
  <1>1. TypeOK'
    BY WaitListAssumption DEF WInv, getNull, TypeOK, PC
  <1>2. MutexInv'
    BY WaitListAssumption DEF WInv, getNull, MutexInv, TypeOK, PC, Critical
  <1>3. EntryInv'
    BY WaitListAssumption DEF WInv, getNull, EntryInv, TypeOK, MutexInv, Entry, Getters
  <1>4. OneOwner'
    BY WaitListAssumption DEF WInv, getNull, OneOwner, TypeOK, MutexInv, Has
  <1>5. NumInv'
    BY WaitListAssumption DEF WInv, getNull, NumInv, TypeOK, MutexInv
  <1>6. FlushedAwake'
    BY WaitListAssumption DEF WInv, getNull, FlushedAwake, TypeOK, MutexInv, Waiting
  <1> QED
    BY <1>1, <1>2, <1>3, <1>4, <1>5, <1>6

\* flush keeps the parts of the invariant that count nothing.
LEMMA flushKeeps ==
    ASSUME WInv, NEW t \in Thread, flush(t)
    PROVE  TypeOK' /\ MutexInv' /\ EntryInv' /\ OneOwner' /\ NumInv' /\ FlushedAwake'
  <1>1. TypeOK'
    BY WaitListAssumption DEF WInv, flush, TypeOK, PC
  <1>2. MutexInv'
    BY WaitListAssumption DEF WInv, flush, MutexInv, TypeOK, PC, Critical
  <1>3. EntryInv'
    <2>1. \A u \in Thread : pc'[u] # "del"
      BY DEF WInv, flush, TypeOK, MutexInv, Critical
    <2>2. \A u \in Thread : pc'[u] \in {"lock", "in"} => pc'[u] = pc[u]
      BY DEF WInv, flush, TypeOK
    <2> QED
      BY <2>1, <2>2 DEF WInv, EntryInv, flush
  <1>4. OneOwner'
    BY WaitListAssumption DEF WInv, flush, OneOwner, TypeOK, MutexInv, Has
  <1>5. NumInv'
    BY WaitListAssumption DEF WInv, flush, NumInv, TypeOK, MutexInv
  <1>6. FlushedAwake'
    BY WaitListAssumption DEF WInv, flush, FlushedAwake, TypeOK, MutexInv, Waiting
  <1> QED
    BY <1>1, <1>2, <1>3, <1>4, <1>5, <1>6

\* Growing the set of active threads keeps NoLostWakeup, as long as the list
\* does not grow and nobody goes to sleep.
LEMMA MoreActive ==
    ASSUME WInv, list' = list, alive' = alive, Active \subseteq Active',
           Waiting' # {} => Waiting # {}
    PROVE  NoLostWakeup'
  <1>1. Active \in SUBSET Thread /\ Active' \in SUBSET Thread
    BY DEF Active
  <1>2. Cardinality(Active) <= Cardinality(Active')
    BY <1>1, ActiveFinite
  <1>3. Cardinality(Active) \in Nat /\ Cardinality(Active') \in Nat
    BY <1>1, ActiveFinite
  <1>4. Len(list) \in Nat
    BY DEF WInv, TypeOK
  <1>5. ASSUME alive', Waiting' # {}
        PROVE  Len(list') <= Cardinality(Active')
    <2>1. Len(list) <= Cardinality(Active)
      BY <1>5 DEF WInv, NoLostWakeup
    <2> QED
      BY <1>2, <1>3, <1>4, <2>1
  <1> QED
    BY <1>5 DEF NoLostWakeup

\* putAdd adds one element and one active thread.
LEMMA putAddCounts ==
    ASSUME WInv, NEW t \in Thread, putAdd(t)
    PROVE  NoLostWakeup'
  <1>1. Active \in SUBSET Thread /\ t \notin Active
    BY DEF WInv, MutexInv, putAdd, Active, Getters
  <1>2. Active' = Active \union {t}
    BY DEF WInv, TypeOK, putAdd, Active, Getters
  <1>3. Cardinality(Active') = Cardinality(Active) + 1 /\ Cardinality(Active) \in Nat
    BY <1>1, <1>2, ActiveFinite
  <1>4. Len(list) \in Nat /\ Len(list') <= Len(list) + 1
    <2>1. list \in Seq(Node) /\ arg[t] \in Node
      BY DEF WInv, TypeOK, EntryInv, putAdd
    <2> QED
      BY <2>1 DEF putAdd
  <1>5. Waiting' = Waiting /\ alive' = alive
    BY DEF WInv, TypeOK, putAdd, Waiting
  <1>6. ASSUME alive', Waiting' # {}
        PROVE  Len(list) <= Cardinality(Active)
    BY <1>5, <1>6 DEF WInv, NoLostWakeup
  <1>7. Len(list') \in Nat
    BY putAddKeeps DEF TypeOK
  <1> QED
    BY <1>3, <1>4, <1>6, <1>7 DEF NoLostWakeup

\* putSignal makes the thread it wakes active in its own stead.
LEMMA putSignalCounts ==
    ASSUME WInv, NEW t \in Thread, putSignal(t)
    PROVE  NoLostWakeup'
  <1>1. CASE Waiting = {}
    <2>1. pc' = [pc EXCEPT ![t] = "idle"]
      BY <1>1 DEF putSignal
    <2>2. Waiting' = {}
      BY <1>1, <2>1 DEF WInv, TypeOK, Waiting
    <2> QED
      BY <2>2 DEF NoLostWakeup
  <1>2. CASE Waiting # {}
    <2>1. PICK u \in Waiting : pc' = [pc EXCEPT ![t] = "idle", ![u] = "relock"]
      BY <1>2 DEF putSignal
    <2>2. u \in Thread /\ pc[u] = "wait" /\ op[u] \in Getters /\ u # t /\ pc[t] = "signal"
      BY <2>1 DEF WInv, MutexInv, putSignal, Waiting
    <2>3. t \in Active /\ u \notin Active \ {t} /\ Active \in SUBSET Thread
      BY <2>2 DEF Active
    <2>4. Active' = (Active \ {t}) \union {u}
      BY <2>1, <2>2 DEF WInv, TypeOK, MutexInv, putSignal, Active
    <2>5. Cardinality(Active \ {t}) = Cardinality(Active) - 1
      BY <2>3, ActiveFinite
    <2>6. Cardinality(Active') = Cardinality(Active \ {t}) + 1
      BY <2>2, <2>3, <2>4, ActiveFinite
    <2>7. Cardinality(Active) \in Nat
      BY <2>3, ActiveFinite
    <2>8. list' = list /\ alive' = alive
      BY DEF putSignal
    <2> QED
      BY <1>2, <2>5, <2>6, <2>7, <2>8 DEF WInv, NoLostWakeup
  <1> QED
    BY <1>1, <1>2

\* getDel takes one element and one active thread away.
LEMMA getDelCounts ==
    ASSUME WInv, NEW t \in Thread, getDel(t)
    PROVE  NoLostWakeup'
  <1>1. pc[t] = "del" /\ op[t] \in Getters
    BY DEF WInv, MutexInv, getDel
  <1>2. Active \in SUBSET Thread /\ t \in Active
    BY <1>1 DEF Active
  <1>3. Active' = Active \ {t}
    BY <1>1 DEF WInv, TypeOK, getDel, Active
  <1>4. Cardinality(Active') = Cardinality(Active) - 1 /\ Cardinality(Active) \in Nat
    BY <1>2, <1>3, ActiveFinite
  <1>5. Waiting' = Waiting /\ alive' = alive
    BY <1>1 DEF WInv, TypeOK, getDel, Waiting
  <1>6. Len(list') = Len(list) - 1 /\ Len(list) \in Nat
    <2>1. list \in Seq(Node)
      BY DEF WInv, TypeOK
    <2>2. Len(list) = num /\ num' = num - 1
      BY DEF WInv, NumInv, getDel
    <2>3. Len(list') = num'
      BY getDelKeeps DEF NumInv
    <2> QED
      BY <2>1, <2>2, <2>3
  <1>7. ASSUME alive', Waiting' # {}
        PROVE  Len(list) <= Cardinality(Active)
    BY <1>5, <1>7 DEF WInv, NoLostWakeup
  <1> QED
    BY <1>4, <1>6, <1>7 DEF NoLostWakeup

\* The invariant holds initially.
LEMMA InitWInv == Init => WInv
  <1> SUFFICES ASSUME Init PROVE WInv
    OBVIOUS
  <1>1. TypeOK
    BY DEF Init, TypeOK, PC
  <1>2. MutexInv
    BY WaitListAssumption DEF Init, MutexInv, Critical
  <1>3. EntryInv /\ NumInv /\ FlushedAwake
    BY DEF Init, EntryInv, NumInv, FlushedAwake
  <1>4. OneOwner
    BY DEF Init, OneOwner
  <1>5. Waiting = {}
    BY DEF Init, Waiting
  <1> QED
    BY <1>1, <1>2, <1>3, <1>4, <1>5 DEF WInv, NoLostWakeup

\* Every step keeps the invariant.
LEMMA NextWInv == WInv /\ [Next]_vars => WInv'
  <1> SUFFICES ASSUME WInv, [Next]_vars PROVE WInv'
    OBVIOUS
  <1>1. CASE UNCHANGED vars
    BY <1>1 DEF WInv, vars, TypeOK, MutexInv, EntryInv, Entry, OneOwner, NumInv,
                NoLostWakeup, FlushedAwake, Active, Waiting
  <1>2. ASSUME NEW t \in Thread, NEW o \in Ops, Call(t, o)
        PROVE  WInv'
    <2>1. Active \subseteq Active' /\ (Waiting' # {} => Waiting # {})
      BY <1>2 DEF WInv, TypeOK, Call, Active, Waiting
    <2>2. NoLostWakeup'
      BY <1>2, <2>1, MoreActive DEF Call
    <2> QED
      BY <1>2, <2>2, CallKeeps DEF WInv
  <1>3. ASSUME NEW t \in Thread, lock(t)
        PROVE  WInv'
    <2>1. Active \subseteq Active' /\ (Waiting' # {} => Waiting # {})
      BY <1>3 DEF WInv, TypeOK, MutexInv, lock, Active, Waiting
    <2>2. NoLostWakeup'
      BY <1>3, <2>1, MoreActive DEF lock
    <2> QED
      BY <1>3, <2>2, lockKeeps DEF WInv
  <1>4. ASSUME NEW t \in Thread, Spurious(t)
        PROVE  WInv'
    <2>1. Active \subseteq Active' /\ (Waiting' # {} => Waiting # {})
      BY <1>4 DEF WInv, TypeOK, MutexInv, Spurious, Active, Waiting
    <2>2. NoLostWakeup'
      BY <1>4, <2>1, MoreActive DEF Spurious
    <2> QED
      BY <1>4, <2>2, SpuriousKeeps DEF WInv
  <1>5. ASSUME NEW t \in Thread, Timeout(t)
        PROVE  WInv'
    <2>1. Active \subseteq Active' /\ (Waiting' # {} => Waiting # {})
      BY <1>5 DEF WInv, TypeOK, MutexInv, Timeout, Active, Waiting
    <2>2. NoLostWakeup'
      BY <1>5, <2>1, MoreActive DEF Timeout
    <2> QED
      BY <1>5, <2>2, TimeoutKeeps DEF WInv
  <1>6. ASSUME NEW t \in Thread, getLate(t)
        PROVE  WInv'
    <2>1. Active \subseteq Active' /\ (Waiting' # {} => Waiting # {})
      BY <1>6 DEF WInv, TypeOK, MutexInv, getLate, Active, Waiting
    <2>2. NoLostWakeup'
      BY <1>6, <2>1, MoreActive DEF getLate
    <2> QED
      BY <1>6, <2>2, getLateKeeps DEF WInv
  <1>7. ASSUME NEW t \in Thread, getEntry(t)
        PROVE  WInv'
    <2>1. Active \subseteq Active' /\ (Waiting' # {} => Waiting # {})
      BY <1>7 DEF WInv, TypeOK, MutexInv, getEntry, Active, Waiting
    <2>2. NoLostWakeup'
      BY <1>7, <2>1, MoreActive DEF getEntry
    <2> QED
      BY <1>7, <2>2, getEntryKeeps DEF WInv
  <1>8. ASSUME NEW t \in Thread, putAdd(t)
        PROVE  WInv'
    BY <1>8, putAddKeeps, putAddCounts DEF WInv
  <1>9. ASSUME NEW t \in Thread, putSignal(t)
        PROVE  WInv'
    BY <1>9, putSignalKeeps, putSignalCounts DEF WInv
  <1>10. ASSUME NEW t \in Thread, getDel(t)
        PROVE  WInv'
    BY <1>10, getDelKeeps, getDelCounts DEF WInv
  <1>11. ASSUME NEW t \in Thread, getWait(t)
        PROVE  WInv'
    <2>1. list' = <<>> /\ Len(list') = 0
      BY <1>11 DEF getWait
    <2>2. Active' \in SUBSET Thread
      BY DEF Active
    <2>3. Cardinality(Active') \in Nat
      BY <2>2, ActiveFinite
    <2>4. NoLostWakeup'
      BY <2>1, <2>3 DEF NoLostWakeup
    <2> QED
      BY <1>11, <2>4, getWaitKeeps DEF WInv
  <1>12. ASSUME NEW t \in Thread, getNull(t)
        PROVE  WInv'
    <2>1. ~alive'
      BY <1>12 DEF getNull
    <2> QED
      BY <1>12, <2>1, getNullKeeps DEF WInv, NoLostWakeup
  <1>13. ASSUME NEW t \in Thread, flush(t)
        PROVE  WInv'
    <2>1. ~alive'
      BY <1>13 DEF flush
    <2> QED
      BY <1>13, <2>1, flushKeeps DEF WInv, NoLostWakeup
  <1> QED
    BY <1>1, <1>2, <1>3, <1>4, <1>5, <1>6, <1>7, <1>8, <1>9, <1>10, <1>11, <1>12, <1>13 DEF Next, Step

\* The wait list keeps its invariant: one owner for every element, the
\* mutex around every access, and no lost wake-up.
THEOREM Invariance == Spec => []WInv
  BY InitWInv, NextWInv, PTL DEF Spec

\* While a thread is blocked on an open list, as many threads are on their
\* way to it as there are elements in it.
THEOREM WakeupSafety == Spec => []NoLostWakeup
  <1>1. WInv => NoLostWakeup
    BY DEF WInv
  <1> QED
    BY <1>1, Invariance, PTL

\* Every element is in the list once or belongs to one thread.
THEOREM Ownership == Spec => []OneOwner
  <1>1. WInv => OneOwner
    BY DEF WInv
  <1> QED
    BY <1>1, Invariance, PTL

\* Taking out the first element, or the last one.
LEMMA RemovedEnds ==
    ASSUME NEW s \in Seq(Node), s # <<>>
    PROVE  /\ Removed(s, 1) = SubSeq(s, 2, Len(s))
           /\ Removed(s, Len(s)) = SubSeq(s, 1, Len(s) - 1)
  <1>1. Len(s) \in Nat /\ Len(s) > 0
    OBVIOUS
  <1>2. SubSeq(s, 2, Len(s)) = [i \in 1..Len(s) - 1 |-> s[i + 1]]
    BY <1>1
  <1>3. Removed(s, 1) = [i \in 1..Len(s) - 1 |-> s[i + 1]]
    BY <1>1 DEF Removed
  <1>4. SubSeq(s, 1, Len(s) - 1) = [i \in 1..Len(s) - 1 |-> s[i]]
    BY <1>1
  <1>5. Removed(s, Len(s)) = [i \in 1..Len(s) - 1 |-> s[i]]
    BY <1>1 DEF Removed
  <1> QED
    BY <1>2, <1>3, <1>4, <1>5

\* getDel is a step of the atomic queue.
LEMMA getDelTakes ==
    ASSUME WInv, NEW t \in Thread, getDel(t)
    PROVE  /\ op[t] = "head" => Queue!TakeNewest(arg[t])
           /\ op[t] # "head" => Queue!Take(arg[t])
           /\ arg[t] \in Node
  <1>1. /\ pc[t] = "del" /\ alive' = alive
        /\ list' = Removed(list, Index(list, arg[t]))
    BY DEF getDel
  <1>2. alive /\ list # <<>> /\ arg[t] = Entry(op[t]) /\ list \in Seq(Node)
    BY <1>1 DEF WInv, EntryInv, TypeOK
  <1>3. Index(list, arg[t]) = IF op[t] = "head" THEN 1 ELSE Len(list)
    BY <1>1, EntryPlace
  <1>4. op[t] = "head" => list' = SubSeq(list, 2, Len(list))
    BY <1>1, <1>2, <1>3, RemovedEnds
  <1>5. op[t] # "head" => list' = SubSeq(list, 1, Len(list) - 1)
    BY <1>1, <1>2, <1>3, RemovedEnds
  <1>6. arg[t] \in Node
    BY <1>1, EntryPlace
  <1> QED
    BY <1>1, <1>2, <1>4, <1>5, <1>6 DEF Entry, Queue!Take, Queue!TakeNewest

\* The wait list implements the atomic queue of TaskQueue.
THEOREM Refinement == Spec => ImplementsQueue
  <1>1. Init => Queue!Init
    BY DEF Init, Queue!Init
  <1>2. WInv /\ [Next]_vars => [Queue!Next]_(Queue!vars)
    <2> SUFFICES ASSUME WInv, [Next]_vars
                 PROVE  Queue!Next \/ UNCHANGED <<list, alive>>
      BY DEF Queue!vars
    <2>1. ASSUME NEW t \in Thread, putAdd(t)
          PROVE  Queue!Next
      <3>1. arg[t] \in Node
        BY <2>1 DEF WInv, EntryInv, TypeOK, putAdd
      <3>2. Queue!Put(arg[t])
        BY <2>1 DEF putAdd, Queue!Put
      <3> QED
        BY <3>1, <3>2 DEF Queue!Next
    <2>2. ASSUME NEW t \in Thread, getDel(t)
          PROVE  Queue!Next
      BY <2>2, getDelTakes DEF Queue!Next
    <2>3. ASSUME NEW t \in Thread, flush(t)
          PROVE  Queue!Next
      BY <2>3 DEF flush, Queue!Next, Queue!Close
    <2>4. ASSUME NEW t \in Thread,
                 \/ \E o \in Ops : Call(t, o)
                 \/ lock(t) \/ putSignal(t) \/ getWait(t) \/ getEntry(t) \/ getNull(t)
                 \/ Spurious(t) \/ Timeout(t) \/ getLate(t)
          PROVE  UNCHANGED <<list, alive>>
      BY <2>4 DEF Call, lock, putSignal, getWait, getEntry, getNull, Spurious,
                  Timeout, getLate
    <2> QED
      BY <2>1, <2>2, <2>3, <2>4 DEF Next, Step, vars
  <1> QED
    BY <1>1, <1>2, Invariance, PTL DEF Spec, ImplementsQueue, Queue!Spec

\* A thread leaves get with the oldest element and get_from_head with the
\* newest one.
THEOREM Order == Spec => TakesInOrder
  <1>1. ASSUME WInv, [Next]_vars, NEW t \in Thread, pc[t] = "del", pc'[t] # "del"
        PROVE  IF op[t] = "head" THEN Queue!TakeNewest(arg[t]) ELSE Queue!Take(arg[t])
    <2>1. getDel(t)
      <3>1. \A u \in Thread : pc[u] \in Critical => u = t
        BY <1>1 DEF WInv, MutexInv, Critical
      <3>2. PICK u \in Thread :
              \/ \E o \in Ops : Call(u, o)
              \/ lock(u) \/ Step(u)
              \/ Spurious(u) \/ Timeout(u) \/ getLate(u)
        BY <1>1 DEF Next, vars
      <3>3. mutex = t /\ mutex # None
        BY <1>1, WaitListAssumption DEF WInv, MutexInv, Critical
      <3>4. ~lock(u) /\ ~getLate(u)
        BY <3>3 DEF lock, getLate
      <3>5. ~(\E o \in Ops : Call(u, o)) /\ ~Spurious(u) /\ ~Timeout(u)
        BY <1>1, <3>2 DEF Call, Spurious, Timeout, WInv, TypeOK
      <3>6. Step(u)
        BY <3>2, <3>4, <3>5
      <3>7. u = t
        BY <3>1, <3>6 DEF Step, putAdd, putSignal, getWait, getEntry, getDel, getNull,
                          flush, Critical
      <3> QED
        BY <1>1, <3>6, <3>7 DEF Step, putAdd, putSignal, getWait, getEntry, getNull, flush
    <2> QED
      BY <1>1, <2>1, getDelTakes
  <1>2. WInv /\ [Next]_vars =>
          [\A t \in Thread :
             pc[t] = "del" /\ pc'[t] # "del" =>
               IF op[t] = "head" THEN Queue!TakeNewest(arg[t]) ELSE Queue!Take(arg[t])]_vars
    BY <1>1
  <1> QED
    BY <1>2, Invariance, PTL DEF Spec, TakesInOrder

=============================================================================
