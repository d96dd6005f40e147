----------------------------- MODULE MCWaitList -----------------------------
(* The wait list with a few threads and elements. *)
EXTENDS WaitList

=============================================================================
