--------------------------- MODULE ConsoleProofs ---------------------------
(***************************************************************************)
(* What the user is shown and where the user ends up does not depend on    *)
(* the order of the answers: the dashboard's trends and the way back to a  *)
(* view an expired session took away, in a tab with all its views, for     *)
(* every number of views, ranges, answers and refusals under way.          *)
(***************************************************************************)
EXTENDS Console, TLAPS

-----------------------------------------------------------------------------
(* The way back.                                                           *)

\* The login page remembers what was taken away.
Kept == left # Null => weiter = left /\ left \in Views

LEMMA KeptNext == Kept /\ [Next]_vars => Kept'
<1> SUFFICES ASSUME Kept, [Next]_vars PROVE Kept'
  OBVIOUS
<1>1. CASE Browse
  BY <1>1 DEF Browse, Open, Reload, Navigate, SignIn, SetUp, SignOut, Kept
<1>2. CASE Refuse
  BY <1>2 DEF Refuse, Unauthorized, Kept
<1>3. CASE UNCHANGED <<weiter, left>>
  BY <1>3 DEF Kept
<1>4. Browse \/ Refuse \/ UNCHANGED <<weiter, left>>
  BY DEF Next, vars, World, Expire, SomeoneSetsUp, DashStep, ListStep, Sends, Sent, session
<1> QED
  BY <1>1, <1>2, <1>3, <1>4

\* Whoever signs in again comes back to the view the expired session took away, however many
\* requests were refused meanwhile (router.ts:91-94, LoginView.vue).
THEOREM SignInComesBack == Spec => ComesBack
<1> DEFINE Step == SignIn /\ left # Null => view' = left
<1>1. Init => Kept
  BY DEF Init, SessionInit, Kept
<1>2. Kept => [Step]_session
  <2> SUFFICES ASSUME Kept, SignIn, left # Null PROVE view' = left
    OBVIOUS
  <2>1. weiter = left /\ left \notin {"setup", "login"}
    BY SessionAssumption DEF Kept
  <2> QED
    BY <2>1 DEF SignIn, Go, Guard, SignedIn
<1> QED
  BY <1>1, <1>2, KeptNext, PTL DEF Spec, ComesBack

-----------------------------------------------------------------------------
(* The dashboard.                                                          *)

PrefType == Prefs \cup Choice \cup {None}
DashType ==
  [chosen : Choice, shown : Choice \cup {None}, trends : SUBSET Choice,
   first : SUBSET {"tiles", "preference", "rejected"}, read : {None} \cup [was : PrefType],
   failed : BOOLEAN, changes : Nat]

\* Without a failure the trends of the choice are shown or asked for.
Settling(d) == d.first = {} /\ ~d.failed => d.shown = d.chosen \/ d.chosen \in d.trends

IInv == pref \in PrefType /\ puts \subseteq Choice /\ (dash # Closed => dash \in DashType /\ Settling(dash))

\* Every range offered has an interval.
LEMMA DefaultFits ==
  ASSUME NEW days \in Days
  PROVE  [days |-> days, interval |-> DefaultInterval(days)] \in Choice
BY DashboardAssumption DEF Choice, Intervals, IntervalsFor, DefaultInterval

\* What a preference brings is a choice the page offers.
LEMMA AppliedType ==
  ASSUME NEW c \in Choice, NEW p
  PROVE  Applied(c, p) \in Choice
<1>1. CASE p = None \/ p.days \notin Days
  BY <1>1 DEF Applied
<1>2. CASE ~(p = None \/ p.days \notin Days)
  <2>1. p.days \in Nat /\ p.interval \in IntervalsFor(p.days) => p.interval \in Intervals
    BY <1>2, DashboardAssumption DEF IntervalsFor, Intervals
  <2>2. CASE p.interval \in IntervalsFor(p.days)
    BY <1>2, <2>1, <2>2, DashboardAssumption DEF Applied, Choice
  <2>3. CASE p.interval \notin IntervalsFor(p.days)
    <3>1. Applied(c, p) = [days |-> p.days, interval |-> DefaultInterval(p.days)]
      BY <1>2, <2>3 DEF Applied
    <3> QED
      BY <1>2, <3>1, DefaultFits
  <2> QED
    BY <2>2, <2>3
<1> QED
  BY <1>1, <1>2

\* The request that follows the first answers makes up for a changed choice.
LEMMA ContinuedAsks ==
  ASSUME NEW d \in DashType
  PROVE  Continued(d) \in DashType /\ Settling(Continued(d))
<1> DEFINE e == [d EXCEPT !.trends = @ \cup {d.chosen}]
<1>1. e \in DashType /\ e.chosen \in e.trends
  BY DEF DashType
<1>2. Continued(d) = IF d.first = {} THEN e ELSE d
  BY DEF Continued
<1> HIDE DEF e
<1> QED
  BY <1>1, <1>2 DEF Settling

LEMMA AnswerKeeps ==
  ASSUME IInv, DashAnswer
  PROVE  IInv'
<1>0. UNCHANGED <<pref, puts>> /\ dash # Closed /\ dash \in DashType /\ Settling(dash)
  BY DEF DashAnswer, Tiles, ReadPreference, ApplyPreference, MissPreference, Trends, IInv
<1>1. ASSUME NEW ok \in BOOLEAN, Tiles(ok) PROVE dash' \in DashType /\ Settling(dash')
  <2> DEFINE d == [dash EXCEPT !.first = @ \ {"tiles"}]
             f == [dash EXCEPT !.first = (@ \ {"tiles"}) \cup {"rejected"}, !.failed = TRUE]
  <2>1. d \in DashType
    BY <1>0 DEF DashType
  <2>2. f \in DashType /\ f.failed
    BY <1>0 DEF DashType
  <2>3. dash' = Continued(d) \/ dash' = f
    BY <1>1 DEF Tiles
  <2> HIDE DEF d, f
  <2> QED
    BY <2>1, <2>2, <2>3, ContinuedAsks DEF Settling
<1>2. CASE ReadPreference
  <2> DEFINE d == [dash EXCEPT !.read = [was |-> pref]]
  <2>1. d \in DashType /\ d.first = dash.first
    BY <1>0 DEF DashType, IInv
  <2>2. dash' = d /\ dash.first # {}
    BY <1>2 DEF ReadPreference
  <2> HIDE DEF d
  <2> QED
    BY <1>0, <2>1, <2>2 DEF Settling, IInv
<1>3. CASE ApplyPreference \/ MissPreference
  <2> DEFINE c == IF dash.read.was = None THEN dash.chosen ELSE Applied(dash.chosen, dash.read.was)
             d == [dash EXCEPT !.first = @ \ {"preference"}, !.read = None, !.chosen = c]
             e == [dash EXCEPT !.first = @ \ {"preference"}, !.read = None]
  <2>1. dash.chosen \in Choice
    BY <1>0 DEF DashType
  <2>2. c \in Choice
    BY <2>1, AppliedType
  <2> HIDE DEF c
  <2>3. d \in DashType /\ e \in DashType
    BY <1>0, <2>2 DEF DashType
  <2>4. dash' = Continued(d) \/ dash' = Continued(e)
    BY <1>3 DEF ApplyPreference, MissPreference, c
  <2> HIDE DEF d, e
  <2> QED
    BY <1>0, <2>3, <2>4, ContinuedAsks DEF IInv
<1>4. ASSUME NEW c \in Choice, NEW ok \in BOOLEAN, Trends(c, ok) PROVE dash' \in DashType /\ Settling(dash')
  <2> DEFINE d == [dash EXCEPT !.trends = @ \ {c}, !.failed = @ \/ ~ok,
                               !.shown = IF ok /\ c = dash.chosen THEN c ELSE @]
  <2>1. d \in DashType
    BY <1>0 DEF DashType
  <2>2. /\ d.first = dash.first /\ d.chosen = dash.chosen /\ d.trends = dash.trends \ {c}
        /\ d.shown = IF ok /\ c = dash.chosen THEN c ELSE dash.shown
    BY <1>0 DEF DashType
  <2>3. ~d.failed => ~dash.failed /\ ok
    BY <1>0, Zenon DEF DashType
  <2>4. dash' = d
    BY <1>4 DEF Trends
  <2> HIDE DEF d
  <2> QED
    BY <1>0, <2>1, <2>2, <2>3, <2>4 DEF Settling
<1> QED
  BY <1>0, <1>1, <1>2, <1>3, <1>4 DEF DashAnswer, IInv

LEMMA UserKeeps ==
  ASSUME IInv, DashUser
  PROVE  IInv'
<1>1. PICK c : /\ dash # Closed /\ c \in Choice
               /\ Choose(c)
  <2>1. ASSUME NEW days \in Days, OnRangeChange(days)
        PROVE  \E c : dash # Closed /\ c \in Choice /\ Choose(c)
    BY <2>1, DefaultFits DEF OnRangeChange
  <2>2. ASSUME NEW interval \in Intervals, OnIntervalChange(interval)
        PROVE  \E c : dash # Closed /\ c \in Choice /\ Choose(c)
    <3>1. dash.chosen \in Choice
      BY <2>2 DEF OnIntervalChange, IInv, DashType
    <3>2. [days |-> dash.chosen.days, interval |-> interval] \in Choice
      BY <2>2, <3>1 DEF OnIntervalChange, Choice
    <3> QED
      BY <2>2, <3>2 DEF OnIntervalChange
  <2> QED
    BY <2>1, <2>2 DEF DashUser
<1> DEFINE d == [dash EXCEPT !.chosen = c, !.trends = @ \cup {c}, !.changes = @ + 1]
<1>2. d \in DashType /\ d.chosen = c /\ c \in d.trends
  <2>1. c \in Choice /\ dash \in DashType
    BY <1>1 DEF IInv
  <2> DEFINE n == dash.changes + 1
             t == dash.trends \cup {c}
  <2>2. t \in SUBSET Choice /\ c \in t /\ n \in Nat
    BY <2>1 DEF DashType
  <2>3. d = [dash EXCEPT !.chosen = c, !.trends = t, !.changes = n]
    OBVIOUS
  <2> HIDE DEF n, t, d
  <2> QED
    BY <2>1, <2>2, <2>3 DEF DashType
<1>3. dash' = d /\ pref' = pref /\ puts' = puts \cup {c}
  BY <1>1 DEF Choose
<1> HIDE DEF d
<1> QED
  BY <1>1, <1>2, <1>3 DEF IInv, Settling

LEMMA DashNext == IInv /\ [Next]_vars => IInv'
<1> SUFFICES ASSUME IInv, [Next]_vars PROVE IInv'
  OBVIOUS
<1>1. CASE DashAnswer
  BY <1>1, AnswerKeeps
<1>2. CASE DashUser
  BY <1>2, UserKeeps
<1>3. ASSUME NEW again \in BOOLEAN, Mounts(again) PROVE IInv'
  <2>1. NewDash \in DashType /\ Settling(NewDash)
    BY DashboardAssumption DEF NewDash, DashType, Settling
  <2>2. \/ dash' = NewDash /\ pref' \in Prefs /\ puts' = {}
        \/ dash' = Closed /\ pref' = None /\ puts' = {}
        \/ UNCHANGED <<dash, pref, puts>>
    BY <1>3 DEF Mounts
  <2> QED
    BY <2>1, <2>2 DEF IInv, PrefType
<1>4. ASSUME NEW c \in Choice, NEW ok \in BOOLEAN, SavePreference(c, ok) PROVE IInv'
  BY <1>4 DEF SavePreference, IInv, PrefType
<1>5. CASE UNCHANGED <<dash, pref, puts>>
  BY <1>5 DEF IInv
<1>6. \/ DashAnswer \/ DashUser \/ UNCHANGED <<dash, pref, puts>>
      \/ (\E again \in BOOLEAN : Mounts(again))
      \/ (\E c \in Choice, ok \in BOOLEAN : SavePreference(c, ok))
  BY DEF Next, vars, Browse, Refuse, World, DashStep, ListStep
<1> QED
  BY <1>1, <1>2, <1>3, <1>4, <1>5, <1>6

\* With nothing under way and nothing failed the trends are those of the range and the
\* interval the page says, whatever overtook what (DashboardView.vue:565-589).
THEOREM TrendsMatch == Spec => []DashboardSettles
<1>1. Init => IInv
  BY DEF Init, DashInit, IInv, PrefType
<1>2. IInv => DashboardSettles
  BY DEF IInv, Settling, DashboardSettles
<1> QED
  BY <1>1, <1>2, DashNext, PTL DEF Spec
=============================================================================
