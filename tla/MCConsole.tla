----------------------------- MODULE MCConsole -----------------------------
(* The instance TLC checks. *)
EXTENDS Console

MCDefault == [days |-> 90, interval |-> "day"]

\* Nothing stored, a choice, a range that is not offered any more, an interval that does not fit.
MCPrefs == {None, [days |-> 7, interval |-> "hour"], [days |-> 30, interval |-> "day"],
            [days |-> 90, interval |-> "hour"]}
=============================================================================
