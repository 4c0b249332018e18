---------------------------- MODULE MCSelfUpdate ----------------------------
(* SelfUpdate on a small instance.                                          *)
EXTENDS SelfUpdate, TLC

Symmetry == Permutations(Jobs)
=============================================================================
