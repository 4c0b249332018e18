------------------------------ MODULE JobSlot ------------------------------
(***************************************************************************)
(* What the job tables with a unique index on the device of an open job    *)
(* promise (idx_update_install_jobs_one_open, idx_restart_jobs_one_open):  *)
(* a device has one place for an open job. A job takes the vacant place of *)
(* its device once, gives it up once, and comes back - if at all - only    *)
(* into a place nobody has taken meanwhile.                                *)
(***************************************************************************)
CONSTANTS
  Jobs,   \* rows there can be
  Of      \* Of[j]: the device of job j

VARIABLES
  open,   \* the jobs that occupy the place of their device
  over    \* the jobs that have given it up

vars == <<open, over>>

Init == open = {} /\ over = {}

Vacant(d) == \A j \in open : Of[j] # d

\* Many devices get their job with one statement.
Take(J) ==
  /\ J \cap (open \cup over) = {}
  /\ \A j \in J : Vacant(Of[j]) /\ \A k \in J : Of[k] = Of[j] => k = j
  /\ open' = open \cup J
  /\ over' = over

Release(J) ==
  /\ J \subseteq open
  /\ open' = open \ J
  /\ over' = over \cup J

Retake(j) ==
  /\ j \in over /\ Vacant(Of[j])
  /\ open' = open \cup {j}
  /\ over' = over \ {j}

FinalNext == \E J \in SUBSET Jobs : Take(J) \/ Release(J)
Next == FinalNext \/ \E j \in Jobs : Retake(j)

Spec == Init /\ [][Next]_vars

\* No job comes back.
FinalSpec == Init /\ [][FinalNext]_vars

-----------------------------------------------------------------------------

\* A device has one open job at most, and a job is open or over.
Exclusive ==
  /\ \A j, k \in open : Of[j] = Of[k] => j = k
  /\ open \cap over = {}

=============================================================================
