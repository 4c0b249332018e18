---------------------------- MODULE MCDirectory ----------------------------
(* Directory on a small instance. No symmetry: the run checks liveness.     *)
EXTENDS Directory
=============================================================================
