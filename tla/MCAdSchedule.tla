--------------------------- MODULE MCAdSchedule ---------------------------
(* The instance TLC checks. *)
EXTENDS AdSchedule

\* An interval alone, a scope alone, a section emptied.
MCPatches == {[scope |-> Unsent, minutes |-> 5], [scope |-> "b", minutes |-> Unsent],
              [scope |-> None, minutes |-> Unsent]}
MCSeeds == {[scope |-> "a", minutes |-> 60], [scope |-> None, minutes |-> 60]}
=============================================================================
