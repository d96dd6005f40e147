---------------------------- MODULE MCLinkedList ----------------------------
(* The linked list with a handful of elements. *)
EXTENDS LinkedList, TLC

Elements == Permutations(Elem)

=============================================================================
