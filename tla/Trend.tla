------------------------------- MODULE Trend -------------------------------
(***************************************************************************)
(* The curve of open updates on the dashboard (ReportsService.trend): from *)
(* the states of today it is reckoned backwards through the time line,     *)
(* taking off what appeared and adding what was resolved since.            *)
(*                                                                         *)
(* Reporting makes states and time line. Its clock is the axis: every      *)
(* moment is a bucket of its own, and the window reaches back to before    *)
(* the first of them. The device is active throughout.                     *)
(***************************************************************************)
EXTENDS Reporting, Integers, FiniteSetsExt

-----------------------------------------------------------------------------

\* postRebootPendingEventSql: details.hresult is that of the history entry.
PendingEvent(e) ==
  \E h \in history : h.update = e.update /\ h.at = e.at /\ h.code = "pending"

Ereignisse == {e \in events : ~PendingEvent(e)}

Earlier(e) == {f \in Ereignisse : f.update = e.update /\ f.at < e.at}

\* lag(event_type) OVER (PARTITION BY device_id, update_id ORDER BY occurred_at, id).
\* No two events of an update have the same moment here.
Vorher(e) ==
  IF Earlier(e) = {} THEN "none"
  ELSE (CHOOSE f \in Earlier(e) : \A g \in Earlier(e) : g.at <= f.at).type

Appeared == {e \in Ereignisse : e.type = "appeared" /\ Vorher(e) # "appeared"}
Resolved == {e \in Ereignisse : e.type \in {"installed", "disappeared", "hidden"} /\ Vorher(e) = "appeared"}

CountSince(s, t) == Cardinality({e \in s : e.at > t})

\* What the loop gives out for bucket t: what is open at its end, never less than nothing.
OpenAt(t) ==
  Max({0, Cardinality({u \in Updates : state[u] = "available"})
          - CountSince(Appeared, t) + CountSince(Resolved, t)})

-----------------------------------------------------------------------------

\* "Die Rechnung stimmt, solange die Ereignisse im betrachteten Fenster vollstaendig
\* sind" (reports.service.ts:381-382): at the end of the bucket in which an update appeared
\* it is open, so something is. Speaks of moments when the backend has missed nothing and
\* Windows has left no attempt pending. Refuted: an update that has failed is
\* never counted as resolved, and the curve leaves it out from the beginning.
AppearedIsOpen ==
  ~disordered /\ (\A h \in history : h.code # "pending") =>
    \A e \in Ereignisse : e.type = "appeared" => OpenAt(e.at) > 0
=============================================================================
