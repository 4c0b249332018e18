-------------------------- MODULE MCInstallSystem --------------------------
(* InstallSystem on a small instance.                                       *)
EXTENDS InstallSystem, TLC

Symmetry == Permutations(Installations) \cup Permutations(Requests)
=============================================================================
