--------------------------- MODULE MCInstallJobs ---------------------------
(* InstallJobs on a small instance: the model values are interchangeable.   *)
EXTENDS InstallJobs, TLC

Symmetry == Permutations(Admins) \cup Permutations(Requests)
              \cup Permutations(Installations) \cup Permutations(Devices)
=============================================================================
