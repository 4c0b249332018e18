----------------------------- MODULE MCRestart -----------------------------
(* Restart on a small instance. *)
EXTENDS Restart, TLC
Symmetry == Permutations(Jobs)
=============================================================================
