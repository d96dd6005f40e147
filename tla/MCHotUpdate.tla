---------------------------- MODULE MCHotUpdate ----------------------------
(* Instances of HotUpdate for TLC. *)
EXTENDS HotUpdate, TLC

CONSTANTS a1, a2, a3

MCAddr == {a1, a2, a3}
AddrSymmetry == Permutations(MCAddr)
=============================================================================
