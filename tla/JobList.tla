------------------------------ MODULE JobList ------------------------------
(***************************************************************************)
(* The lists of requests with their jobs: InstallationsTab.vue,            *)
(* RestartsView.vue and AgentRolloutsTab.vue, three times the same. A head *)
(* counts the jobs of a request by state, an expanded one shows the jobs;  *)
(* both are loaded on their own, again every half minute while something   *)
(* is open, and answered in any order.                                     *)
(*                                                                         *)
(* Abstractions. A request has one job: its state is the head's count and  *)
(* the row. Cancelling and the load that follows it are one step, and so   *)
(* are reading a row and showing it. Where the three differ, in what may   *)
(* be cancelled, the step is that of any of them. A hidden tab does not    *)
(* poll; that it is looked at is the fairness of Poll.                     *)
(***************************************************************************)
EXTENDS Naturals, FiniteSets

CONSTANTS
  Ids,       \* the requests on the page
  Away,      \* the view is not open
  Unread,    \* not loaded, not answered yet
  MaxLoads,  \* bound: lists under way at the same time
  MaxRows    \* bound: rows under way when another request is expanded

VARIABLES
  list,  \* the view, or Away
  job    \* the backend's job of each request

States == {"waiting", "running", "over"}

ListInit == list = Away /\ job = [i \in Ids |-> "over"]

\* The view is entered, one request perhaps expanded by the link; load() has asked.
NewList(expanded) ==
  [heads |-> Unread, rows |-> [i \in Ids |-> Unread], expanded |-> expanded,
   loads |-> {[first |-> TRUE, got |-> Unread]}, asked |-> {}, timer |-> FALSE]

ListLoads == IF list = Away THEN {} ELSE list.loads
ListAsked == IF list = Away THEN {} ELSE list.asked
ListRequests == ListLoads \cup ListAsked

\* A bug to compare with: what has started does not count.
AnyWaiting == list.heads # Unread /\ \E i \in Ids : list.heads[i] = "waiting"

AnyOpen == list.heads # Unread /\ \E i \in Ids : list.heads[i] \in {"waiting", "running"}

Load == list' = [list EXCEPT !.loads = @ \cup {[first |-> FALSE, got |-> Unread]}]
MayLoad == list # Away /\ Cardinality(list.loads) < MaxLoads

\* The interval started by onMounted after its first load.
Poll ==
  /\ MayLoad /\ list.timer /\ AnyOpen
  /\ Load /\ UNCHANGED job

Refresh == MayLoad /\ list.heads # Unread /\ Load /\ UNCHANGED job

\* What has not started can be cancelled, of a rollout what is not over; the list is loaded
\* again.
Cancel(i) ==
  /\ MayLoad /\ list.heads # Unread
  /\ \E open \in {{"waiting"}, {"waiting", "running"}} :
       /\ list.heads[i] \in open
       /\ job' = [job EXCEPT ![i] = IF @ \in open THEN "over" ELSE @]
  /\ Load

\* The request of a row: it holds the rows as they were when it was sent.
Asked(i, first) == [id |-> i, first |-> first, base |-> list.rows]

Toggle(i) ==
  /\ list # Away /\ Cardinality(list.asked) < MaxRows
  /\ IF i \in list.expanded
     THEN list' = [list EXCEPT !.expanded = @ \ {i}]
     ELSE list' = [list EXCEPT !.expanded = @ \cup {i},
                               !.asked = IF list.rows[i] = Unread
                                         THEN @ \cup {Asked(i, FALSE)} ELSE @]
  /\ UNCHANGED job

ServeHeads(l) ==
  /\ list # Away /\ l \in list.loads /\ l.got = Unread
  /\ list' = [list EXCEPT !.loads = (@ \ {l}) \cup {[l EXCEPT !.got = job]}]
  /\ UNCHANGED job

\* The heads are there; the expanded requests are loaded with them.
ShowHeads(l) ==
  /\ list # Away /\ l \in list.loads /\ l.got # Unread
  /\ list' = [list EXCEPT !.loads = @ \ {l}, !.heads = l.got,
                          !.asked = @ \cup {Asked(i, l.first) : i \in list.expanded}]
  /\ UNCHANGED job

FailHeads(l) ==
  /\ list # Away /\ l \in list.loads
  /\ list' = [list EXCEPT !.loads = @ \ {l}]
  /\ UNCHANGED job

\* loadJobs: the copy was taken before the await.
ShowRow(q) ==
  /\ list # Away /\ q \in list.asked
  /\ list' = [list EXCEPT !.asked = @ \ {q}, !.rows = [q.base EXCEPT ![q.id] = job[q.id]]]
  /\ UNCHANGED job

\* The load it belongs to ends with it, whatever else it asked for.
FailRow(q) ==
  /\ list # Away /\ q \in list.asked
  /\ list' = [list EXCEPT !.asked = {IF q.first THEN [o EXCEPT !.first = FALSE] ELSE o : o \in @ \ {q}}]
  /\ UNCHANGED job

\* onMounted goes on after its load, whether it came or failed.
StartTimer ==
  /\ list # Away /\ ~list.timer /\ ~\E q \in ListRequests : q.first
  /\ list' = [list EXCEPT !.timer = TRUE]
  /\ UNCHANGED job

Progress(i) ==
  /\ job[i] # "over"
  /\ job' = [job EXCEPT ![i] = IF @ = "waiting" THEN "running" ELSE "over"]
  /\ UNCHANGED list

ListUser == Refresh \/ \E i \in Ids : Cancel(i) \/ Toggle(i)

ListAnswer ==
  \/ \E l \in ListLoads : ServeHeads(l) \/ ShowHeads(l) \/ FailHeads(l)
  \/ \E q \in ListAsked : ShowRow(q) \/ FailRow(q)
  \/ StartTimer

Over == \A i \in Ids : job[i] = "over"
HeadsOver == \A i \in Ids : list.heads[i] = "over"

\* Refuted: once everything is over, the expanded jobs say so as well. Of two rows that are
\* loaded together the second answer brings back the first one's old state, and when the
\* heads show nothing open, nobody loads again.
RowsSettle ==
  <>[](list # Away /\ Over /\ list.loads = {} /\ list.asked = {})
  => <>[](list # Away /\ (list.heads # Unread /\ HeadsOver => \A i \in list.expanded : list.rows[i] = "over"))

=============================================================================
