------------------------------- MODULE SeqOps -------------------------------
(* Insertion into and removal from a sequence, element by element. *)
EXTENDS Integers, Sequences

\* The sequence s with e inserted so that it gets index i.
Inserted(s, i, e) ==
    [j \in 1..Len(s) + 1 |-> IF j < i THEN s[j] ELSE IF j = i THEN e ELSE s[j - 1]]

\* The sequence s without its element i.
Removed(s, i) == [j \in 1..Len(s) - 1 |-> IF j < i THEN s[j] ELSE s[j + 1]]

\* Whether e is in s, and where.
Has(s, e) == \E i \in 1..Len(s) : s[i] = e
Index(s, e) == CHOOSE i \in 1..Len(s) : s[i] = e

=============================================================================
