--------------------------- MODULE MCUpdateJobs ---------------------------
(* UpdateJobs on a small instance. No symmetry: the run checks liveness.    *)
EXTENDS UpdateJobs
=============================================================================
