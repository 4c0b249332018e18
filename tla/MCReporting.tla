--------------------------- MODULE MCReporting ---------------------------
(* Reporting on a small instance. No symmetry: the run checks liveness.     *)
EXTENDS Reporting
=============================================================================
