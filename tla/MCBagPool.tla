----------------------------- MODULE MCBagPool -----------------------------
(* The thread pool with a few threads and jobs. *)
EXTENDS BagPool

=============================================================================
