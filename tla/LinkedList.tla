----------------------------- MODULE LinkedList -----------------------------
(***************************************************************************)
(* The intrusive, circular, doubly linked list of threads/linked_list.hpp, *)
(* the storage of every task queue of the server.  The links live inside   *)
(* the elements, so the list is nothing but two pointer fields per element *)
(* and per list head; `contents' is an auxiliary variable that records     *)
(* which sequence of elements the calls made so far should have built,     *)
(* from _head.next to _head.prev.                                          *)
(***************************************************************************)
EXTENDS SeqOps

CONSTANTS
    Elem,   \* the elements T of linked_list_t<T, list_node>
    Root,   \* the address of _head
    Wild    \* the value of a pointer that was never assigned

ASSUME HeadAssumption == Root \notin Elem /\ Wild \notin Elem \union {Root}

VARIABLES
    next,       \* linked_list_node_t::next of every element and of _head
    prev,       \* linked_list_node_t::prev
    contents    \* auxiliary: the elements of the list, first to last

listVars == <<next, prev, contents>>

Link == Elem \union {Root}

-----------------------------------------------------------------------------

\* linked_list_t(): an element's own links are not initialised.
ListInit ==
    /\ next = [l \in Link |-> IF l = Root THEN Root ELSE Wild]
    /\ prev = [l \in Link |-> IF l = Root THEN Root ELSE Wild]
    /\ contents = <<>>

\* Mutant: _head.next is overwritten before it is read for node.next.
add_HeadFirst(n) ==
    /\ ~Has(contents, n)
    /\ prev' = [prev EXCEPT ![next[Root]] = n, ![n] = Root]
    /\ next' = [next EXCEPT ![n] = n, ![Root] = n]
    /\ contents' = Inserted(contents, 1, n)

\* void add(T &node): to the front; the caller passes an element that is in
\* no list.
add(n) ==
    /\ ~Has(contents, n)
    /\ prev' = [prev EXCEPT ![next[Root]] = n, ![n] = Root]
    /\ next' = [next EXCEPT ![n] = next[Root], ![Root] = n]
    /\ contents' = Inserted(contents, 1, n)

\* static void add_prev(T &node, T &cur)
add_prev(n, cur) ==
    /\ ~Has(contents, n) /\ Has(contents, cur)
    /\ next' = [next EXCEPT ![prev[cur]] = n, ![n] = cur]
    /\ prev' = [prev EXCEPT ![n] = prev[cur], ![cur] = n]
    /\ contents' = Inserted(contents, Index(contents, cur), n)

\* static void add_next(T &node, T &cur)
add_next(n, cur) ==
    /\ ~Has(contents, n) /\ Has(contents, cur)
    /\ prev' = [prev EXCEPT ![next[cur]] = n, ![n] = cur]
    /\ next' = [next EXCEPT ![n] = next[cur], ![cur] = n]
    /\ contents' = Inserted(contents, Index(contents, cur) + 1, n)

\* static void del(T &node): the element keeps its stale links.
del(n) ==
    /\ Has(contents, n)
    /\ prev' = [prev EXCEPT ![next[n]] = prev[n]]
    /\ next' = [next EXCEPT ![prev[n]] = next[n]]
    /\ contents' = Removed(contents, Index(contents, n))

\* void empty(), and operator=, which copies nothing and empties the target:
\* the elements that were in the list keep their links.
empty ==
    /\ next' = [next EXCEPT ![Root] = Root]
    /\ prev' = [prev EXCEPT ![Root] = Root]
    /\ contents' = <<>>

ListNext ==
    \/ \E n \in Elem : add(n) \/ del(n)
    \/ \E n, cur \in Elem : add_prev(n, cur) \/ add_next(n, cur)
    \/ empty

ListSpec == ListInit /\ [][ListNext]_listVars

-----------------------------------------------------------------------------

\* bool is_empty() const
is_empty == next[Root] = Root

\* What is at position i of the circle that starts and ends at _head, when
\* the list holds s.
At(s, i) == IF i \in 1..Len(s) THEN s[i] ELSE Root

\* The pointer fields hold pointers and the list holds elements.
ListTypeOK ==
    /\ next \in [Link -> Link \union {Wild}]
    /\ prev \in [Link -> Link \union {Wild}]
    /\ contents \in Seq(Elem)

\* No element is in the list twice.
Distinct ==
    \A i, j \in 1..Len(contents) : contents[i] = contents[j] => i = j

\* Whatever sequence of add, add_prev, add_next, del and empty was called,
\* and whatever stale links the elements came with, the next pointers lead
\* from _head through exactly the elements the calls left in the list, in
\* order, and back to _head, and the prev pointers lead the same way back.
Linked ==
    \A i \in 0..Len(contents) :
        /\ next[At(contents, i)] = At(contents, i + 1)
        /\ prev[At(contents, i + 1)] = At(contents, i)

LInv == ListTypeOK /\ Distinct /\ Linked

=============================================================================
