----------------------------- MODULE MCFigures -----------------------------
(* Figures on a small instance: two devices, one in a unit below that of    *)
(* the other.                                                               *)
EXTENDS Figures

CONSTANTS d1, d2

HomeDef == (d1 :> <<"notebooks", "clients", "domain">>) @@ (d2 :> <<"clients", "domain">>)
HostDef == (d1 :> "pc-1") @@ (d2 :> "pc-2")
ReportsDef == {[source |-> "wsus", reboot |-> TRUE, version |-> "1.0", user |-> "kim"]}
=============================================================================
