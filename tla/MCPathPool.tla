---------------------------- MODULE MCPathPool ----------------------------
(***************************************************************************)
(* Four rich paths with two days each; the first three have the same       *)
(* points in different days, and so share a heap.                          *)
(***************************************************************************)
EXTENDS PathPool, TLC

d(clash, score, hash) == [clash |-> clash, score |-> score, hash |-> hash]

MCJob == {
    [key |-> 1, miss |-> 0, hot |-> 5, days |-> <<{d(0, 3, 2), d(0, 3, 1), d(1, 4, 3)}, {d(0, 2, 5)}>>],
    [key |-> 1, miss |-> 0, hot |-> 6, days |-> <<{d(0, 3, 6)}, {d(0, 2, 7)}>>],
    [key |-> 1, miss |-> 1, hot |-> 6, days |-> <<{d(0, 9, 4)}, {d(0, 2, 8)}>>],
    [key |-> 2, miss |-> 0, hot |-> 7, days |-> <<{d(0, 1, 1)}, {d(0, 2, 9)}>>]}

Alike == Permutations(Pool)

=============================================================================
