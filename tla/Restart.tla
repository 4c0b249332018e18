------------------------------ MODULE Restart ------------------------------
(***************************************************************************)
(* Restarts on request: the restart jobs of one device in the backend      *)
(* (backend/src/restart-jobs), the check-in that hands them out, and the   *)
(* agent's RestartCoordinator, which asks the user, restarts the machine   *)
(* and reports every step.                                                 *)
(*                                                                         *)
(* Abstractions.                                                           *)
(*  - Only boots order the moments that are compared: a time of the        *)
(*    device's clock is the number of boots before it, so "last_boot_at >  *)
(*    t" is lastBoot > t. The five minutes of tolerance after a job's      *)
(*    creation are the set young: a boot within them moves since[j].       *)
(*  - The deadline and the wait before the next prompt are "not yet" or    *)
(*    "over"; which deferrals a prompt offers is left out.                 *)
(*  - One SQL statement is one step; cleanup()'s two concern different     *)
(*    rows and are one. The gate (_gate) is held while reports are sent,   *)
(*    so a flush is a state of the gate and each POST a step of its own.   *)
(*  - A POST and its answer are one step: the coordinator does nothing in  *)
(*    between. A request that never arrives and one that arrives when the  *)
(*    agent has given it up are outcomes of it.                            *)
(***************************************************************************)
EXTENDS Naturals, Sequences, FiniteSets

CONSTANTS
  Jobs,          \* ids of restart_jobs, all of the one device
  NoJob,         \* no restartRequest in an answer
  MaxBoots,      \* bound: boots of the machine
  MaxDeferrals,  \* maxDeferrals of the request
  MaxReports,    \* bound: reports waiting to be sent when a prompt is shown
  MaxLate        \* bound: reports under way that the agent has given up

ASSUME NoJobAssumption == NoJob \notin Jobs
ASSUME BoundsAssumption == MaxBoots \in Nat /\ MaxDeferrals \in Nat

VARIABLES
  state,      \* state[j]: restart_job_state, "absent" without a row
  since,      \* since[j]: coalesce(restarting_at, created_at + 5 minutes)
  marked,     \* jobs whose restarting_at is set
  young,      \* jobs created less than five minutes ago
  lastBoot,   \* devices.last_boot_at
  checkin,    \* the check-in under way: pc and the last boot it carries or the
              \* job it answers with
  file,       \* the agent's RestartState on disk
  prompt,     \* the prompt process: "none", "offer", "final" or its answer
  gate,       \* who holds _gate: "free", a tick's "flush", the cycle's "report", or
              \* "send" and "initiate" of RestartAsync
  boot,       \* boots of the machine so far
  server,     \* the machine's product type is a server
  late,       \* reports under way whose answer nobody waits for
  told,       \* history: jobs a null answer withdrew on the agent
  rebooted    \* history: what the backend had on record of a job at a boot of the
              \* machine that counts for it: "nothing", "open" or "restarting"

backendVars == <<state, since, marked, young, lastBoot>>
agentVars   == <<file, prompt, gate>>
worldVars   == <<boot, server, rebooted>>
vars == <<backendVars, checkin, agentVars, worldVars, late, told>>

Never == MaxBoots + 1     \* a time that is null

Open        == {"pending", "delivered", "notified", "deferred", "restarting"}
Cancellable == Open \ {"restarting"}
Closed      == {"done", "failed", "expired", "cancelled"}
Claimable   == {"delivered", "notified", "deferred"}
Answers     == {"now", "timeout", "defer", "closed"}

NoFile == [job |-> NoJob]
Accepted(j) == [job |-> j, restarting |-> Never, closed |-> FALSE, deferrals |-> 0,
                deadline |-> "none", wait |-> FALSE, unreported |-> <<>>]
Idle == [pc |-> "idle"]

Init ==
  /\ state = [j \in Jobs |-> "absent"]
  /\ since = [j \in Jobs |-> 0]
  /\ marked = {} /\ young = {} 
  /\ lastBoot = 0
  /\ checkin = Idle
  /\ file = NoFile /\ prompt = "none" /\ gate = "free"
  /\ boot = 0
  /\ rebooted = [j \in Jobs |-> "nothing"]
  /\ server \in BOOLEAN
  /\ late = {} /\ told = {}

-----------------------------------------------------------------------------
(* The backend.                                                            *)

OpenJobs == {j \in Jobs : state[j] \in Open}

\* create(): idx_restart_jobs_one_open lets in one open job of the device; the
\* checks before the transaction only save the attempt.
Create(j) ==
  /\ state[j] = "absent"
  /\ OpenJobs = {}
  /\ state' = [state EXCEPT ![j] = "pending"]
  /\ since' = [since EXCEPT ![j] = boot]
  /\ young' = young \cup {j}
  /\ UNCHANGED <<marked, lastBoot, checkin, agentVars, worldVars, late, told>>

\* cancelJob(), and cancelRequest() for this device's job of the request.
Cancel(j) ==
  /\ state[j] \in Cancellable
  /\ state' = [state EXCEPT ![j] = "cancelled"]
  /\ UNCHANGED <<since, marked, young, lastBoot,
                 checkin, agentVars, worldVars, late, told>>

\* RESTARTED
Restarted(j) == lastBoot > since[j]


\* cleanup(): done first, then expired, for the jobs whose expires_at is past.
CleanedUp(overdue) ==
  [j \in Jobs |->
     IF state[j] \in Open /\ Restarted(j) THEN "done"
     ELSE IF state[j] \in {"pending", "delivered"} /\ j \in overdue THEN "expired"
     ELSE state[j]]

\* listRequests(), requestJobs() and deviceJobs() clean up before they read.
List ==
  /\ \E overdue \in SUBSET Jobs : state' = CleanedUp(overdue)
  /\ state' # state
  /\ UNCHANGED <<since, marked, young, lastBoot,
                 checkin, agentVars, worldVars, late, told>>


AcceptsAlways(r) == state[r.job] # "absent"

\* reportResult(): any open job takes any state; otherwise 404.
Accepts(r) == state[r.job] \in Open

Reported(r) ==
  IF Accepts(r)
  THEN /\ state' = [state EXCEPT ![r.job] = r.state]
       /\ IF r.state = "restarting"
          THEN since' = [since EXCEPT ![r.job] = r.at] /\ marked' = marked \cup {r.job}
          ELSE UNCHANGED <<since, marked>>
  ELSE UNCHANGED <<state, since, marked>>

LateReport(r) ==
  /\ r \in late
  /\ late' = late \ {r}
  /\ Reported(r)
  /\ UNCHANGED <<young, lastBoot, checkin, agentVars, worldVars, told>>

-----------------------------------------------------------------------------
(* The check-in: the snapshot is collected, ingested, and claim() runs its *)
(* statements one by one; the answer may get lost at any time.             *)

Collect ==
  /\ checkin = Idle /\ gate # "report"
  /\ checkin' = [pc |-> "sent", boot |-> boot]
  /\ UNCHANGED <<backendVars, agentVars, worldVars, late, told>>

\* touchDevice(), of the newest snapshot.
Ingest ==
  /\ checkin.pc = "sent"
  /\ lastBoot' = checkin.boot
  /\ checkin' = [pc |-> "cleanup"]
  /\ UNCHANGED <<state, since, marked, young, agentVars, worldVars, late, told>>

ClaimCleanup ==
  /\ checkin.pc = "cleanup"
  /\ \E overdue \in SUBSET Jobs : state' = CleanedUp(overdue)
  /\ checkin' = [pc |-> "deliver"]
  /\ UNCHANGED <<since, marked, young, lastBoot, agentVars, worldVars, late, told>>

ClaimDeliver ==
  /\ checkin.pc = "deliver"
  /\ state' = [j \in Jobs |-> IF state[j] = "pending" THEN "delivered" ELSE state[j]]
  /\ checkin' = [pc |-> "select"]
  /\ UNCHANGED <<since, marked, young, lastBoot, agentVars, worldVars, late, told>>

Selected == {j \in Jobs : state[j] \in Claimable}

\* The unique index leaves at most one job to select.
ClaimSelect ==
  /\ checkin.pc = "select"
  /\ checkin' = [pc  |-> "answer",
                 job |-> IF Selected = {} THEN NoJob ELSE CHOOSE j \in Selected : TRUE]
  /\ UNCHANGED <<backendVars, agentVars, worldVars, late, told>>

CheckinLost ==
  /\ checkin # Idle
  /\ checkin' = Idle
  /\ UNCHANGED <<backendVars, agentVars, worldVars, late, told>>

-----------------------------------------------------------------------------
(* The agent's coordinator.                                                *)

Restarting == file.job # NoJob /\ file.restarting # Never

\* Report() puts a result at the end of Unreported.
WithReport(f, s, at) ==
  [f EXCEPT !.unreported = Append(@, [job |-> f.job, state |-> s, at |-> at])]

\* Drop() closes the prompt and deletes the file, with what is unreported.
Drop == file' = NoFile /\ prompt' = "none"

NullAnswer ==
  IF file.job # NoJob /\ ~Restarting /\ ~file.closed
  THEN Drop /\ told' = told \cup {file.job}
  ELSE UNCHANGED <<file, prompt, told>>

\* ApplyAsync()
Apply ==
  /\ checkin.pc = "answer"
  /\ gate = "free"
  /\ checkin' = [pc |-> "report"]
  /\ IF checkin.job = NoJob
     THEN NullAnswer
     ELSE /\ UNCHANGED told
          /\ IF file.job = checkin.job \/ Restarting
             THEN UNCHANGED <<file, prompt>>
             ELSE file' = Accepted(checkin.job) /\ prompt' = "none"
  /\ UNCHANGED <<backendVars, gate, worldVars, late>>

\* FlushAsync() takes the first report; its outcome is one of the four.
Unreported == file.job # NoJob /\ file.unreported # <<>>
Report == Head(file.unreported)
Sent == [file EXCEPT !.unreported = Tail(@)]

\* FlushAsync() ends: TryFlushAsync() of RestartAsync goes on to the shutdown.
FlushGivesUp == gate' = IF gate = "send" THEN "initiate" ELSE "free"

PostDone ==
  /\ gate \in {"flush", "report", "send"} /\ Unreported
  /\ Reported(Report)
  /\ IF ~Accepts(Report) /\ ~Restarting
     THEN Drop /\ gate' = "free"
     ELSE file' = Sent /\ UNCHANGED <<prompt, gate>>
  /\ UNCHANGED <<young, lastBoot, checkin, worldVars, late, told>>

\* The report never arrives, or arrives later - at once, if only its answer is
\* lost - when the agent no longer waits.
PostFails ==
  /\ gate \in {"flush", "report", "send"} /\ Unreported
  /\ FlushGivesUp
  /\ late' \in {late} \cup (IF Cardinality(late) < MaxLate THEN {late \cup {Report}} ELSE {})
  /\ UNCHANGED <<backendVars, checkin, file, prompt, worldVars, told>>


FlushEndsKept ==
  /\ gate \in {"flush", "report", "send"} /\ ~Unreported
  /\ FlushGivesUp
  /\ UNCHANGED <<backendVars, checkin, file, prompt, worldVars, late, told>>

FlushEnds ==
  /\ gate \in {"flush", "report", "send"} /\ ~Unreported
  /\ FlushGivesUp
  /\ IF file.job # NoJob /\ file.closed THEN Drop ELSE UNCHANGED <<file, prompt>>
  /\ UNCHANGED <<backendVars, checkin, worldVars, late, told>>

\* ReportPendingAsync() ends the cycle: the next one waits for its flush.
ReportPending ==
  /\ checkin.pc = "report" /\ gate = "free"
  /\ checkin' = Idle
  /\ gate' = IF Unreported THEN "report" ELSE gate
  /\ UNCHANGED <<backendVars, file, prompt, worldVars, late, told>>

\* TickAsync() of a closed job only sends what is left to report.
TickClosed ==
  /\ gate = "free" /\ file.job # NoJob /\ file.closed
  /\ gate' = "flush"
  /\ UNCHANGED <<backendVars, checkin, file, prompt, worldVars, late, told>>

agentElse == <<backendVars, checkin, worldVars, late, told>>

Ticking == gate = "free" /\ file.job # NoJob /\ ~file.closed

FailUnreported(f) ==
  /\ file' = [f EXCEPT !.closed = TRUE]
  /\ gate' = "flush"

\* FailAsync()
Fail(f) ==
  /\ file' = [WithReport(f, "failed", boot) EXCEPT !.closed = TRUE]
  /\ gate' = "flush"


TickRestartingForgets ==
  /\ Ticking /\ Restarting
  /\ \/ /\ boot > file.restarting
        /\ file' = [file EXCEPT !.restarting = Never] /\ UNCHANGED <<prompt, gate>>
     \/ /\ boot <= file.restarting
        /\ Fail(file) /\ UNCHANGED prompt
  /\ UNCHANGED agentElse

\* The machine has restarted since, or the restart has not come in time.
TickRestarting ==
  /\ Ticking /\ Restarting
  /\ \/ /\ boot > file.restarting
        /\ Drop /\ UNCHANGED gate
     \/ /\ boot <= file.restarting
        /\ Fail(file) /\ UNCHANGED prompt
  /\ UNCHANGED agentElse

TickServer ==
  /\ Ticking /\ ~Restarting /\ server
  /\ Fail(file)
  /\ UNCHANGED <<prompt, agentElse>>

Asking == Ticking /\ ~Restarting /\ ~server


BeginRestartMisnamed(f) ==
  /\ file' = WithReport([f EXCEPT !.restarting = boot, !.wait = FALSE], "rebooting", boot)
  /\ gate' = "send"

\* RestartAsync() up to the shutdown: recorded and saved, then reported.
BeginRestart(f) ==
  /\ file' = WithReport([f EXCEPT !.restarting = boot, !.wait = FALSE], "restarting", boot)
  /\ gate' = "send"

TickNobody ==
  /\ Asking /\ prompt = "none" /\ ~file.wait
  /\ BeginRestart(file)
  /\ UNCHANGED <<prompt, agentElse>>

\* The deadline begins with the first message.
Deadlined == [file EXCEPT !.deadline = IF @ = "none" THEN "running" ELSE @]

TickAbsent ==
  /\ Asking /\ prompt = "none" /\ ~file.wait
  /\ IF file.deadline = "over"
     THEN BeginRestart(file)
     ELSE /\ file' = [(IF file.deadline = "none"
                       THEN WithReport(Deadlined, "notified", boot)
                       ELSE file) EXCEPT !.wait = TRUE]
          /\ gate' = "flush"
  /\ UNCHANGED <<prompt, agentElse>>

\* final: nothing left to defer, or the deadline is over.
TickShow ==
  /\ Asking /\ prompt = "none" /\ ~file.wait
  /\ Len(file.unreported) < MaxReports
  /\ prompt' = IF file.deferrals >= MaxDeferrals \/ file.deadline = "over"
               THEN "final" ELSE "offer"
  /\ file' = WithReport(Deadlined, "notified", boot)
  /\ gate' = "flush"
  /\ UNCHANGED agentElse

\* PromptSession.Start() fails: tried again later, or the deadline decides.
TickNotShown ==
  /\ Asking /\ prompt = "none" /\ ~file.wait
  /\ IF file.deadline = "over"
     THEN BeginRestart(file)
     ELSE file' = [Deadlined EXCEPT !.wait = TRUE] /\ UNCHANGED gate
  /\ UNCHANGED <<prompt, agentElse>>

-----------------------------------------------------------------------------
(* FollowPromptAsync(): the prompt's answer, or its silence.               *)

FollowRestart ==
  /\ Asking /\ prompt \in {"now", "timeout"}
  /\ prompt' = "none"
  /\ BeginRestart(file)
  /\ UNCHANGED agentElse

FollowDefer ==
  /\ Asking /\ prompt = "defer"
  /\ prompt' = "none"
  /\ IF file.deferrals < MaxDeferrals
     THEN /\ file' = WithReport([file EXCEPT !.deferrals = @ + 1, !.wait = TRUE],
                                "deferred", boot)
          /\ gate' = "flush"
     ELSE file' = [file EXCEPT !.wait = TRUE] /\ UNCHANGED gate
  /\ UNCHANGED agentElse

FollowClosed ==
  /\ Asking /\ prompt = "closed"
  /\ prompt' = "none"
  /\ file' = [file EXCEPT !.wait = TRUE]
  /\ UNCHANGED <<gate, agentElse>>

\* The prompt has counted down and does not answer.
FollowSilent ==
  /\ Asking /\ prompt \in {"offer", "final"} /\ file.deadline = "over"
  /\ prompt' = "none"
  /\ BeginRestart(file)
  /\ UNCHANGED agentElse

\* SystemRestart.Initiate()
Initiate ==
  /\ gate = "initiate"
  /\ gate' = "free"
  /\ UNCHANGED <<file, prompt, agentElse>>

InitiateFails ==
  /\ gate = "initiate"
  /\ Fail([file EXCEPT !.restarting = Never])
  /\ UNCHANGED <<prompt, agentElse>>

-----------------------------------------------------------------------------
(* The world: the user, the machine, time.                                 *)

\* The form counts down from the start ("final") or from the deadline on.
UserAnswers(a) ==
  /\ prompt \in {"offer", "final"}
  /\ a = "defer"   => prompt = "offer"
  /\ a = "timeout" => prompt = "final" \/ file.deadline = "over"
  /\ prompt' = a
  /\ UNCHANGED <<file, gate, agentElse>>

WaitOver ==
  /\ file.job # NoJob /\ file.wait
  /\ file' = [file EXCEPT !.wait = FALSE]
  /\ UNCHANGED <<prompt, gate, agentElse>>

DeadlineOver ==
  /\ file.job # NoJob /\ file.deadline = "running"
  /\ file' = [file EXCEPT !.deadline = "over"]
  /\ UNCHANGED <<prompt, gate, agentElse>>

\* The service stops or is killed, without the machine: the prompt goes with
\* it, an answer under way too. What was saved stays.
ServiceRestarts ==
  /\ gate # "free" \/ prompt # "none" \/ checkin # Idle
  /\ prompt' = "none" /\ gate' = "free" /\ checkin' = Idle
  /\ UNCHANGED <<backendVars, file, worldVars, late, told>>

\* The machine restarts: by the shutdown under way or by its user. A boot
\* within a job's first five minutes is not after created_at + 5 minutes. A
\* report under way outlives the agent's 15 seconds but not the reboot.
Boot(Y) ==
  /\ boot < MaxBoots
  /\ boot' = boot + 1
  /\ since' = [j \in Jobs |-> IF j \in Y THEN since[j] + 1 ELSE since[j]]
  /\ young' = Y
  /\ rebooted' = [j \in Jobs |->
                   IF j \in Y \/ state[j] \notin Open THEN rebooted[j]
                   ELSE IF j \in marked /\ since[j] = boot THEN "restarting"
                   ELSE IF rebooted[j] = "nothing" THEN "open"
                   ELSE rebooted[j]]
  /\ prompt' = "none" /\ gate' = "free" /\ checkin' = Idle
  /\ late' = {}
  /\ UNCHANGED <<state, marked, lastBoot, file, server, told>>

Machine == \E Y \in SUBSET (young \ marked) : Boot(Y)

-----------------------------------------------------------------------------

BackendNext ==
  \/ \E j \in Jobs : Create(j) \/ Cancel(j)
  \/ List
  \/ \E r \in late : LateReport(r)

CheckinNext ==
  \/ Collect \/ Ingest \/ ClaimCleanup \/ ClaimDeliver \/ ClaimSelect \/ CheckinLost
  \/ Apply \/ ReportPending

AgentNext ==
  \/ TickClosed \/ PostDone \/ PostFails \/ FlushEnds
  \/ TickRestarting \/ TickServer \/ TickNobody \/ TickAbsent \/ TickShow \/ TickNotShown
  \/ FollowRestart \/ FollowDefer \/ FollowClosed \/ FollowSilent
  \/ Initiate \/ InitiateFails

WorldNext ==
  \/ \E a \in Answers : UserAnswers(a)
  \/ WaitOver \/ DeadlineOver
  \/ ServiceRestarts \/ Machine

Next == BackendNext \/ CheckinNext \/ AgentNext \/ WorldNext
Spec == Init /\ [][Next]_vars

-----------------------------------------------------------------------------

Reports == [job: Jobs, state: Open \cup {"failed"}, at: 0..MaxBoots]

TypeOK ==
  /\ state \in [Jobs -> {"absent"} \cup Open \cup Closed]
  /\ since \in [Jobs -> 0..MaxBoots]
  /\ marked \subseteq Jobs /\ young \subseteq Jobs
  /\ lastBoot \in 0..MaxBoots /\ boot \in 0..MaxBoots
  /\ checkin \in [pc: {"idle", "cleanup", "deliver", "select", "report"}]
                 \cup [pc: {"sent"}, boot: 0..MaxBoots]
                 \cup [pc: {"answer"}, job: Jobs \cup {NoJob}]
  /\ file = NoFile \/
     file \in [job: Jobs, restarting: 0..Never, closed: BOOLEAN, deferrals: 0..MaxDeferrals,
              deadline: {"none", "running", "over"}, wait: BOOLEAN, unreported: Seq(Reports)]
  /\ prompt \in {"none", "offer", "final"} \cup Answers
  /\ gate \in {"free", "flush", "report", "send", "initiate"}
  /\ server \in BOOLEAN
  /\ rebooted \in [Jobs -> {"nothing", "open", "restarting"}]
  /\ late \subseteq Reports
  /\ told \subseteq Jobs

\* A device has at most one open job, so claim() never has to choose.
OneOpenJob == Cardinality(OpenJobs) <= 1

\* A job the check-in withdrew - cancelled, expired, done - never comes back to
\* the agent: no late report reopens it, no later answer carries it.
WithdrawnStaysWithdrawn == file.job \notin told

\* A machine that restarted while the backend had this very restart on record is
\* not restarted for that job again, wherever the exchange broke off. A report that
\* comes in only after the machine is up again is no such record.
RecordedRestartIsLast == gate = "initiate" => rebooted[file.job] # "restarting"

\* The table keeps the promise of JobSlot, and more strictly than that of the install
\* jobs: a restart job that is over never occupies the device again.
Slot == INSTANCE JobSlot WITH
  Of   <- [j \in Jobs |-> "the device"],
  open <- {j \in Jobs : state[j] \in Open},
  over <- {j \in Jobs : state[j] \in Closed}

ImplementsSlot == Slot!FinalSpec

\* Refuted: "Startet der Benutzer vorher selbst neu, zaehlt die Anlage des Auftrags"
\* (restart-jobs.service.ts:32): a machine that restarted after the job's first
\* five minutes, by whomever, is not restarted for it again.
RestartedOnce == gate = "initiate" => rebooted[file.job] = "nothing"

-----------------------------------------------------------------------------
(* Liveness: the agent keeps checking in, the coordinator keeps ticking    *)
(* and gets the gate when it waits for it, and time passes.                *)

\* What the last conjunct names does the same to the variables at times.
Disturbed ==
  /\ ServiceRestarts \/ CheckinLost \/ PostFails \/ UserAnswers("closed")
  /\ ~(FlushEnds \/ Initiate \/ ReportPending)

Fairness ==
  /\ WF_vars(Collect \/ Ingest \/ ClaimCleanup \/ ClaimDeliver \/ ClaimSelect)
  /\ SF_vars(Apply) /\ SF_vars(ReportPending)
  /\ WF_vars(AgentNext)
  /\ WF_vars(WaitOver) /\ WF_vars(DeadlineOver) /\ WF_vars(UserAnswers("timeout"))

LiveSpec == Spec /\ Fairness

\* Once nobody disturbs the exchange any more ...
Undisturbed == <>[][~Disturbed]_vars

\* ... a job that is over in the backend is over on the agent too, prompt and all,
ClosedReachesAgent ==
  Undisturbed => \A j \in Jobs : (state[j] \in Closed ~> file.job # j)

\* ... and every job is closed: restarted, failed, expired or cancelled.
JobsEnd ==
  Undisturbed => \A j \in Jobs : (state[j] \in Open ~> state[j] \in Closed)
=============================================================================
