----------------------------- MODULE Dashboard -----------------------------
(***************************************************************************)
(* DashboardView.vue: range and interval of the trends, chosen by the user *)
(* or brought by the stored preference, and the requests that are under    *)
(* way for them. Answers come in any order.                                *)
(*                                                                         *)
(* Abstractions. The tiles' three requests are one, so are the trends'     *)
(* four. Two requests for the same choice answer as one.                   *)
(***************************************************************************)
EXTENDS Naturals

CONSTANTS
  Days,        \* the ranges offered
  Default,     \* the choice a new view starts with
  Prefs,       \* what may be stored: also what is not offered any more, or nothing
  Closed, None,
  MaxChanges   \* bound: changes of the choice while the view is open

VARIABLES
  dash,  \* the view, or Closed
  pref,  \* user_preferences: the section "dashboard"
  puts   \* PUTs of it under way

Intervals == {"hour", "day", "week"}
IntervalsFor(days) ==
  CASE days <= 1              -> {"hour"}
    [] days > 1 /\ days <= 7  -> {"hour", "day"}
    [] days > 7               -> {"day", "week"}
DefaultInterval(days) ==
  CASE days <= 1                -> "hour"
    [] days > 1 /\ days < 180   -> "day"
    [] days >= 180              -> "week"
Choice == {c \in [days : Days, interval : Intervals] : c.interval \in IntervalsFor(c.days)}

ASSUME DashboardAssumption == Days \subseteq Nat /\ Default \in Choice

DashInit == dash = Closed /\ pref = None /\ puts = {}

\* load() has sent its requests.
NewDash ==
  [chosen |-> Default, shown |-> None, trends |-> {}, first |-> {"tiles", "preference"},
   read |-> None, failed |-> FALSE, changes |-> 0]

Requests == IF dash = Closed THEN {} ELSE dash.trends

\* loadTrends() of the choice as it is, once the tiles and the preference are there.
Continued(d) ==
  IF d.first = {} THEN [d EXCEPT !.trends = @ \cup {d.chosen}] ELSE d

\* Promise.all gives up with the tiles; the preference is applied all the same.
Tiles(ok) ==
  /\ dash # Closed /\ "tiles" \in dash.first
  /\ dash' = IF ok THEN Continued([dash EXCEPT !.first = @ \ {"tiles"}])
             ELSE [dash EXCEPT !.first = (@ \ {"tiles"}) \cup {"rejected"}, !.failed = TRUE]
  /\ UNCHANGED <<pref, puts>>

ReadPreference ==
  /\ dash # Closed /\ "preference" \in dash.first /\ dash.read = None
  /\ dash' = [dash EXCEPT !.read = [was |-> pref]]
  /\ UNCHANGED <<pref, puts>>

\* What is not offered is left at the default; an interval that does not fit gives way.
Applied(chosen, stored) ==
  CASE stored = None \/ stored.days \notin Days -> chosen
    [] OTHER -> [days |-> stored.days,
                 interval |-> IF stored.interval \in IntervalsFor(stored.days)
                              THEN stored.interval ELSE DefaultInterval(stored.days)]

ApplyPreference ==
  /\ dash # Closed /\ "preference" \in dash.first /\ dash.read # None
  /\ dash' = Continued([dash EXCEPT !.first = @ \ {"preference"}, !.read = None,
                                    !.chosen = IF dash.read.was = None THEN @
                                               ELSE Applied(@, dash.read.was)])
  /\ UNCHANGED <<pref, puts>>

\* Without it the default holds.
MissPreference ==
  /\ dash # Closed /\ "preference" \in dash.first
  /\ dash' = Continued([dash EXCEPT !.first = @ \ {"preference"}, !.read = None])
  /\ UNCHANGED <<pref, puts>>

\* A bug to compare with: every answer is shown.
TrendsAnyway(c, ok) ==
  /\ dash # Closed /\ c \in dash.trends
  /\ dash' = [dash EXCEPT !.trends = @ \ {c}, !.failed = @ \/ ~ok,
                          !.shown = IF ok THEN c ELSE @]
  /\ UNCHANGED <<pref, puts>>

\* Only the answer to the choice as it is by now is shown.
Trends(c, ok) ==
  /\ dash # Closed /\ c \in dash.trends
  /\ dash' = [dash EXCEPT !.trends = @ \ {c}, !.failed = @ \/ ~ok,
                          !.shown = IF ok /\ c = dash.chosen THEN c ELSE @]
  /\ UNCHANGED <<pref, puts>>

Choose(c) ==
  /\ dash.changes < MaxChanges
  /\ dash' = [dash EXCEPT !.chosen = c, !.trends = @ \cup {c}, !.changes = @ + 1]
  /\ puts' = puts \cup {c}
  /\ UNCHANGED pref

OnRangeChange(days) ==
  /\ dash # Closed /\ days # dash.chosen.days
  /\ Choose([days |-> days, interval |-> DefaultInterval(days)])

OnIntervalChange(interval) ==
  /\ dash # Closed /\ interval \in IntervalsFor(dash.chosen.days) \ {dash.chosen.interval}
  /\ Choose([days |-> dash.chosen.days, interval |-> interval])

\* The PUT arrives; nobody waits for it, so they overtake each other. One may fail.
SavePreference(c, ok) ==
  /\ c \in puts /\ puts' = puts \ {c}
  /\ pref' = IF ok THEN c ELSE pref
  /\ UNCHANGED dash

DashUser ==
  \/ \E days \in Days : OnRangeChange(days)
  \/ \E interval \in Intervals : OnIntervalChange(interval)

DashAnswer ==
  \/ \E ok \in BOOLEAN : Tiles(ok)
  \/ ReadPreference \/ ApplyPreference \/ MissPreference
  \/ \E c \in Choice, ok \in BOOLEAN : Trends(c, ok)

\* When nothing is under way any more and nothing failed, the trends shown are those of the
\* range and interval the page says, in whatever order the preference, the changes and the
\* answers came (DashboardView.vue:565-589).
DashboardSettles ==
  (dash # Closed /\ dash.first = {} /\ dash.trends = {} /\ ~dash.failed)
  => dash.shown = dash.chosen

\* Refuted: the last choice is the one that is stored. PUTs overtake each other, and the
\* preference that was still on its way takes back what was chosen meanwhile.
LastChoiceStored ==
  (dash # Closed /\ dash.first = {} /\ puts = {} /\ dash.changes > 0) => pref = dash.chosen

=============================================================================
