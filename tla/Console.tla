------------------------------ MODULE Console ------------------------------
(***************************************************************************)
(* One tab of the console: Session with the views behind it. Entering a    *)
(* view mounts it anew, leaving it drops it with the answers it waits for. *)
(* A request sent without a session is refused; the refusal overtakes the  *)
(* answers that are still due to the view, and takes the view away.        *)
(***************************************************************************)
EXTENDS Session, Dashboard, JobList

vars == <<session, dash, pref, puts, list, job>>

Init == SessionInit /\ DashInit /\ ListInit

\* A navigation: what is entered asks, what is left is gone. What the backend has for a view
\* is picked when it is entered: other tabs and other users have been at it meanwhile.
Mounts(again) ==
  LET entered(v) == view' = v /\ (again \/ view # v)
      leaves(v) == view' # v
  IN /\ CASE entered("dashboard") -> dash' = NewDash /\ pref' \in Prefs /\ puts' = {}
          [] leaves("dashboard")   -> dash' = Closed /\ pref' = None /\ puts' = {}
          [] OTHER                -> UNCHANGED <<dash, pref, puts>>
     /\ CASE entered("jobs") -> /\ \E expanded \in SUBSET Ids :
                                     Cardinality(expanded) <= 1 /\ list' = NewList(expanded)
                                /\ job' \in [Ids -> States]
          [] leaves("jobs")   -> list' = Away /\ job' = [i \in Ids |-> "over"]
          [] OTHER           -> UNCHANGED <<list, job>>

Browse ==
  \/ \E to \in Views \cup {"login", "setup"} : Open(to) /\ Mounts(TRUE)
  \/ Reload /\ Mounts(TRUE)
  \/ \E to \in Views \ {view} : Navigate(to) /\ Mounts(FALSE)
  \/ (SignIn \/ SetUp \/ SignOut) /\ Mounts(FALSE)

Refuse == Unauthorized /\ Mounts(FALSE)

World ==
  \/ (Expire \/ SomeoneSetsUp) /\ UNCHANGED <<dash, pref, puts, list, job>>
  \/ (\E i \in Ids : Progress(i)) /\ UNCHANGED <<session, dash, pref, puts>>
  \/ (\E c \in Choice, ok \in BOOLEAN : SavePreference(c, ok)) /\ UNCHANGED <<session, list, job>>

\* A step of a view: whatever it sends is sent with the cookie of this moment.
Sends(before, after) == IF after \subseteq before THEN UNCHANGED session ELSE Sent

DashStep(step) == step /\ Sends(Requests, Requests') /\ UNCHANGED <<list, job>>
ListStep(step) == step /\ Sends(ListRequests, ListRequests') /\ UNCHANGED <<dash, pref, puts>>

Next ==
  \/ Browse \/ Refuse \/ World
  \/ DashUser /\ Sent /\ UNCHANGED <<list, job>>
  \/ ListStep(ListUser \/ Poll)
  \/ refusals = 0 /\ (DashStep(DashAnswer) \/ ListStep(ListAnswer))

\* A 401 arrives; the timer is started and goes off (the tab is looked at); of the lists that
\* are asked for again and again some are answered.
Fairness ==
  /\ WF_vars(Refuse)
  /\ WF_vars(refusals = 0 /\ ListStep(StartTimer)) /\ WF_vars(ListStep(Poll))
  /\ WF_vars(refusals = 0 /\ ListStep(\E q \in ListAsked : ShowRow(q) \/ FailRow(q)))
  /\ SF_vars(refusals = 0 /\ ListStep(\E l \in ListLoads : ServeHeads(l)))
  /\ SF_vars(refusals = 0 /\ ListStep(\E l \in ListLoads : ShowHeads(l)))

Spec == Init /\ [][Next]_vars /\ Fairness

\* While a list stays open and its requests are answered, its heads (not the rows below them,
\* see RowsSettle) finally say of every request that it is over once it is, whatever answers overtook each other: the interval
\* goes on until then and the first load may fail (InstallationsTab.vue:157-171).
HeadsSettle ==
  <>[](list # Away /\ refusals = 0 /\ Over) => <>[](list # Away /\ (list.heads # Unread => HeadsOver))
=============================================================================
