---------------------------- MODULE InstallJobs ----------------------------
(***************************************************************************)
(* The backend's side of the install jobs (backend/src/install-jobs): the  *)
(* rows of update_install_jobs, the administrators who create and cancel   *)
(* them, the check-ins that claim them and the reports that close them.    *)
(*                                                                         *)
(* Abstractions.                                                           *)
(*  - An installation creates at most one job per device, so a job is the  *)
(*    pair <<installation, device>>.                                       *)
(*  - Time is kept only as the comparisons the SQL makes: now against      *)
(*    not_before and expires_at (clock), now against started_at + 6 h      *)
(*    (age), last_seen_at against started_at + 6 h (seen).                 *)
(*  - A scope - selected ids or classifications - is the set of updates    *)
(*    it resolves to; offered[d] is what the device last reported as       *)
(*    available and not waiting for a reboot.                              *)
(*  - Every SQL statement is one atomic step, and so are the transaction   *)
(*    of create() and the two statements of cleanup(), which concern       *)
(*    different rows. One statement is not: claim()'s UPDATE ... WHERE     *)
(*    id = (SELECT ...). Under READ COMMITTED, the default and never       *)
(*    changed here, the subselect is evaluated once; an UPDATE that has to *)
(*    wait for another writer of the row re-checks only that the id still  *)
(*    matches. So reading the id and writing the row are two steps.        *)
(***************************************************************************)
EXTENDS Naturals, FiniteSets

CONSTANTS
  Devices,        \* rows of devices
  Installations,  \* ids of update_installations; their number bounds the model
  Updates,        \* updates a device can be offered
  Admins,         \* concurrent POST /api/install-jobs requests
  Requests        \* concurrent check-in requests the server can be handling

ASSUME UpdatesAssumption == Updates # {}

VARIABLES
  state,     \* state[j]: install_job_state of job j, "absent" if there is no row
  clock,     \* clock[j]: now against not_before and expires_at
  age,       \* age[j]: "unstarted" (started_at is null), "started", or "stale":
             \* started more than STALLED_AFTER_HOURS ago
  seen,      \* seen[j]: last_seen_at > started_at + STALLED_AFTER_HOURS
  scope,     \* scope[i]: what installation i is to install
  offered,   \* offered[d]: updates available on d, as last reported
  device,    \* device[d]: "ready", "old" (agent before 0.7.0) or "archived"
  dialog,    \* dialog[a]: what create() has read for admin request a
  claim      \* claim[r]: how far check-in request r has come

vars == <<state, clock, age, seen, scope, offered, device, dialog, claim>>

-----------------------------------------------------------------------------

Jobs == Installations \X Devices
Device(j) == j[2]

Undelivered == {"pending", "delivered"}
Open   == {"pending", "delivered", "running"}
Closed == {"done", "failed", "expired", "cancelled"}

OpenJobs(d) == {j \in Jobs : Device(j) = d /\ state[j] \in Open}

IdleDialog == [pc |-> "idle"]
IdleClaim  == [pc |-> "idle"]

\* The check-in has been answered: with an install request, without one, or -
\* the transaction was refused - with an error.
Answered(jobs) == [pc |-> "answer", jobs |-> jobs]
Errored == [pc |-> "error"]

Init ==
  /\ state   = [j \in Jobs |-> "absent"]
  /\ clock   = [j \in Jobs |-> "early"]
  /\ age     = [j \in Jobs |-> "unstarted"]
  /\ seen    = [j \in Jobs |-> FALSE]
  /\ scope   = [i \in Installations |-> {}]
  /\ offered \in [Devices -> SUBSET Updates]
  /\ device  = [d \in Devices |-> "ready"]
  /\ dialog  = [a \in Admins |-> IdleDialog]
  /\ claim   = [r \in Requests |-> IdleClaim]

-----------------------------------------------------------------------------
(* create(): the eligibility of the devices is read before the transaction *)
(* and may be out of date when the rows are inserted.                      *)

Eligible(D, S) ==
  {d \in D : /\ device[d] = "ready"
             /\ OpenJobs(d) = {}
             /\ offered[d] \cap S # {}}

CreateRead(a, D, S) ==
  /\ dialog[a] = IdleDialog
  /\ Eligible(D, S) # {}
  /\ dialog' = [dialog EXCEPT ![a] = [pc      |-> "insert",
                                      devices |-> Eligible(D, S),
                                      scope   |-> S]]
  /\ UNCHANGED <<state, clock, age, seen, scope, offered, device, claim>>

InsertableNoIndex(D) == D

\* The rows idx_update_install_jobs_one_open lets in: ON CONFLICT DO NOTHING
\* leaves out a device that got an open job in the meantime.
Insertable(D) == {d \in D : OpenJobs(d) = {}}

CreateInsert(a, i, immediate) ==
  LET rows == {i} \X Insertable(dialog[a].devices) IN
  /\ dialog[a].pc = "insert"
  /\ \A d \in Devices : state[<<i, d>>] = "absent"
  /\ state' = [j \in Jobs |-> IF j \in rows THEN "pending" ELSE state[j]]
  /\ clock' = [j \in Jobs |-> IF j \in rows
                              THEN IF Device(j) \in immediate THEN "due" ELSE "early"
                              ELSE clock[j]]
  /\ scope' = IF rows = {} THEN scope ELSE [scope EXCEPT ![i] = dialog[a].scope]
  /\ dialog' = [dialog EXCEPT ![a] = IdleDialog]
  /\ UNCHANGED <<age, seen, offered, device, claim>>

\* cancel() of one job and cancelInstallation() of all jobs of one.
CancelJobs(J) ==
  /\ \E j \in J : state[j] \in Undelivered
  /\ state' = [j \in Jobs |-> IF j \in J /\ state[j] \in Undelivered
                              THEN "cancelled" ELSE state[j]]
  /\ UNCHANGED <<clock, age, seen, scope, offered, device, dialog, claim>>

Cancel(j) == CancelJobs({j})
CancelInstallation(i) == CancelJobs({i} \X Devices)

-----------------------------------------------------------------------------
(* cleanup(): what has not been fetched in time has expired; what has been *)
(* running for hours although the device reported since was interrupted.   *)

Interrupted(j) == state[j] = "running" /\ age[j] = "stale" /\ seen[j]

CleanedUpUnknown(j) == IF Interrupted(j) THEN "interrupted" ELSE state[j]
CleanedUpRunning(j) == IF Interrupted(j) THEN "failed" ELSE state[j]

CleanedUp(j) ==
  CASE state[j] \in Undelivered /\ clock[j] = "overdue" -> "expired"
    [] Interrupted(j) -> "failed"
    [] OTHER -> state[j]

Cleanup(J) == state' = [j \in Jobs |-> IF j \in J THEN CleanedUp(j) ELSE state[j]]

\* Reading the protocol cleans up after all devices.
List ==
  /\ Cleanup(Jobs)
  /\ UNCHANGED <<clock, age, seen, scope, offered, device, dialog, claim>>

-----------------------------------------------------------------------------
(* The check-in: ingest the snapshot, then claim(). late are the jobs whose *)
(* started_at + 6 h lies before the time the snapshot was collected at,     *)
(* which may be long ago.                                                  *)

StaleJobs(d) == {j \in Jobs : Device(j) = d /\ age[j] = "stale"}

Ingest(r, d, updates, late) ==
  /\ claim[r] = IdleClaim
  /\ device[d] # "archived"
  /\ offered' = [offered EXCEPT ![d] = updates]
  /\ seen' = [j \in Jobs |-> seen[j] \/ j \in late]
  /\ claim' = IF device[d] = "ready"
              THEN [claim EXCEPT ![r] = [pc |-> "cleanup", device |-> d]]
              ELSE [claim EXCEPT ![r] = Answered({})]
  /\ UNCHANGED <<state, clock, age, scope, device, dialog>>

ClaimCleanup(r) ==
  /\ claim[r].pc = "cleanup"
  /\ Cleanup({j \in Jobs : Device(j) = claim[r].device})
  /\ claim' = [claim EXCEPT ![r].pc = "select"]
  /\ UNCHANGED <<clock, age, seen, scope, offered, device, dialog>>

ClaimableEarly(d) == {j \in Jobs : Device(j) = d /\ state[j] \in Undelivered}

Claimable(d) == {j \in Jobs : /\ Device(j) = d
                              /\ state[j] \in Undelivered
                              /\ clock[j] = "due"}

ClaimSelect(r) ==
  LET jobs == Claimable(claim[r].device) IN
  /\ claim[r].pc = "select"
  /\ IF jobs = {}
     THEN claim' = [claim EXCEPT ![r] = Answered({})]
     ELSE \E j \in jobs :
            claim' = [claim EXCEPT ![r] = [pc |-> "deliver", job |-> j]]
  /\ UNCHANGED <<state, clock, age, seen, scope, offered, device, dialog>>

\* Writing the row. If it was closed in between and the device has a new open
\* job, the unique index refuses the row and the request ends with an error.
ClaimDeliver(r) ==
  LET j == claim[r].job IN
  /\ claim[r].pc = "deliver"
  /\ IF OpenJobs(Device(j)) \ {j} = {}
     THEN /\ state' = [state EXCEPT ![j] = "delivered"]
          /\ claim' = [claim EXCEPT ![r].pc = "resolve"]
     ELSE /\ claim' = [claim EXCEPT ![r] = Errored]
          /\ UNCHANGED state
  /\ UNCHANGED <<clock, age, seen, scope, offered, device, dialog>>

StillOffered(j) == offered[Device(j)] \cap scope[j[1]]

\* The job goes out with what is still open of it; answered, the request ends.
ClaimResolve(r) ==
  /\ claim[r].pc = "resolve"
  /\ claim' = IF StillOffered(claim[r].job) = {}
              THEN [claim EXCEPT ![r].pc = "close"]
              ELSE [claim EXCEPT ![r] = Answered({claim[r].job})]
  /\ UNCHANGED <<state, clock, age, seen, scope, offered, device, dialog>>

\* Nothing left to install: done, whatever has become of the row meanwhile.
ClaimClose(r) ==
  /\ claim[r].pc = "close"
  /\ state' = [state EXCEPT ![claim[r].job] = "done"]
  /\ claim' = [claim EXCEPT ![r] = Answered({})]
  /\ UNCHANGED <<clock, age, seen, scope, offered, device, dialog>>

\* The response leaves the server; whether it arrives is not its concern.
Respond(r) ==
  /\ claim[r].pc \in {"answer", "error"}
  /\ claim' = [claim EXCEPT ![r] = IdleClaim]
  /\ UNCHANGED <<state, clock, age, seen, scope, offered, device, dialog>>

-----------------------------------------------------------------------------
(* reportResult(): accepted for a job that is out, refused (404) otherwise. *)

ReportableAny(j) == state[j] # "absent"

Reportable(j) == state[j] \in {"delivered", "running"}

Report(j, result) ==
  /\ device[Device(j)] # "archived"
  /\ Reportable(j)
  /\ state' = [state EXCEPT ![j] = result]
  /\ age' = [age EXCEPT ![j] = IF @ = "unstarted" THEN "started" ELSE @]
  /\ UNCHANGED <<clock, seen, scope, offered, device, dialog, claim>>

-----------------------------------------------------------------------------
(* The passing of time and what happens to the devices elsewhere.          *)

BecomeDue(j) ==
  /\ state[j] \in Open /\ clock[j] = "early"
  /\ clock' = [clock EXCEPT ![j] = "due"]
  /\ UNCHANGED <<state, age, seen, scope, offered, device, dialog, claim>>

PassDeadline(j) ==
  /\ state[j] \in Open /\ clock[j] = "due"
  /\ clock' = [clock EXCEPT ![j] = "overdue"]
  /\ UNCHANGED <<state, age, seen, scope, offered, device, dialog, claim>>

BecomeStale(j) ==
  /\ state[j] \in Open /\ age[j] = "started"
  /\ age' = [age EXCEPT ![j] = "stale"]
  /\ UNCHANGED <<state, clock, seen, scope, offered, device, dialog, claim>>

\* Archived, restored, or another agent version installed.
ChangeDevice(d, to) ==
  /\ device[d] # to
  /\ device' = [device EXCEPT ![d] = to]
  /\ UNCHANGED <<state, clock, age, seen, scope, offered, dialog, claim>>

Next ==
  \/ \E a \in Admins, D \in SUBSET Devices, S \in SUBSET Updates : CreateRead(a, D, S)
  \/ \E a \in Admins, i \in Installations, I \in SUBSET Devices : CreateInsert(a, i, I)
  \/ \E j \in Jobs : Cancel(j)
  \/ \E i \in Installations : CancelInstallation(i)
  \/ List
  \/ \E r \in Requests, d \in Devices, U \in SUBSET Updates :
       \E late \in SUBSET StaleJobs(d) : Ingest(r, d, U, late)
  \/ \E r \in Requests : ClaimCleanup(r)
  \/ \E r \in Requests : ClaimSelect(r)
  \/ \E r \in Requests : ClaimDeliver(r)
  \/ \E r \in Requests : ClaimResolve(r)
  \/ \E r \in Requests : ClaimClose(r)
  \/ \E r \in Requests : Respond(r)
  \/ \E j \in Jobs, s \in {"running", "done", "failed"} : Report(j, s)
  \/ \E j \in Jobs : BecomeDue(j)
  \/ \E j \in Jobs : PassDeadline(j)
  \/ \E j \in Jobs : BecomeStale(j)
  \/ \E d \in Devices, t \in {"ready", "old", "archived"} : ChangeDevice(d, t)

Spec == Init /\ [][Next]_vars

-----------------------------------------------------------------------------
(* Properties.                                                             *)

ClaimStates ==
       {IdleClaim}
  \cup [pc : {"cleanup", "select"}, device : Devices]
  \cup [pc : {"deliver", "resolve", "close"}, job : Jobs]
  \cup {Answered(J) : J \in {{}} \cup {{j} : j \in Jobs}}
  \cup {Errored}

DialogStates ==
  {IdleDialog} \cup [pc : {"insert"}, devices : SUBSET Devices, scope : SUBSET Updates]

\* The types of the variables.
TypeOK ==
  /\ state   \in [Jobs -> {"absent"} \cup Open \cup Closed]
  /\ clock   \in [Jobs -> {"early", "due", "overdue"}]
  /\ age     \in [Jobs -> {"unstarted", "started", "stale"}]
  /\ seen    \in [Jobs -> BOOLEAN]
  /\ scope   \in [Installations -> SUBSET Updates]
  /\ offered \in [Devices -> SUBSET Updates]
  /\ device  \in [Devices -> {"ready", "old", "archived"}]
  /\ dialog  \in [Admins -> DialogStates]
  /\ claim   \in [Requests -> ClaimStates]

\* A device never has two open jobs, whatever requests overlap: the eligibility
\* create() reads is stale by the time it inserts, and a claim may write a row
\* that was closed after it had been selected.
OneOpenJobPerDevice ==
  \A j, k \in Jobs : /\ Device(j) = Device(k)
                     /\ state[j] \in Open
                     /\ state[k] \in Open
                     => j = k

\* What the agent gets is due: until not_before a job is only pending or
\* cancelled, however claims, cancellations and reports interleave.
NothingBeforeItsTime ==
  \A j \in Jobs : clock[j] = "early" => state[j] \in {"absent", "pending", "cancelled"}

\* A closed job changes its state only by the write of a claim that had selected
\* it while it was open: late reports, cancellations and cleanups leave it alone.
ClosedChangesOnlyByClaim ==
  [][\A j \in Jobs :
       state[j] \in Closed /\ state'[j] # state[j]
         => \E r \in Requests : /\ claim[r].pc \in {"deliver", "close"}
                                /\ claim[r].job = j
                                /\ claim'[r] # claim[r]]_vars

\* The table keeps the promise of JobSlot: whatever requests overlap, a job enters
\* the place of its device only while it is vacant, and a claim that writes over a
\* closed job is no exception.
Slot == INSTANCE JobSlot WITH
  Of   <- [j \in Jobs |-> Device(j)],
  open <- {j \in Jobs : state[j] \in Open},
  over <- {j \in Jobs : state[j] \in Closed}

ImplementsSlot == Slot!Spec

\* Refuted: cancelInstallation() leaves closed jobs "wie sie sind", and a job an
\* administrator cancelled is not carried out. claim() closes a job it finds
\* nothing left of by id alone, and turns a cancelled one into a done one.
CancelledNeverDone ==
  [][\A j \in Jobs : state[j] = "cancelled" => state'[j] # "done"]_vars

=============================================================================
