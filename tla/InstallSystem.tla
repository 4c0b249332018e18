--------------------------- MODULE InstallSystem ---------------------------
(***************************************************************************)
(* One device's agent (agent/src/WiUpMo.Agent: AgentCycle, InstallJobRunner,*)
(* InstallMarker) against the backend of InstallJobs: check-ins and result  *)
(* reports that fail, arrive without their answer or are handled late, and  *)
(* a service that is stopped at any moment and starts again.                *)
(*                                                                         *)
(* Abstractions.                                                           *)
(*  - The snapshot queue is what its newest snapshot says; a check-in sends *)
(*    the whole queue, and its newest snapshot decides what the backend     *)
(*    knows afterwards.                                                     *)
(*  - A report and its answer are one step, which may fail in three ways:   *)
(*    the request is lost, the answer is lost, or the agent stops waiting   *)
(*    and the request is handled later.                                     *)
(*  - The device stays active and enrolled, its files can be written.       *)
(***************************************************************************)
EXTENDS InstallJobs

CONSTANTS
  Self,        \* the device the agent runs on
  MaxCrashes,  \* bound: how often the service is stopped
  MaxRuns,     \* bound: how often one job is started
  MaxLate      \* bound: reports on their way that nobody waits for any more

ASSUME SelfAssumption == Self \in Devices
ASSUME BoundsAssumption == MaxCrashes \in Nat /\ MaxRuns \in Nat /\ MaxLate \in Nat

VARIABLES
  cycle,    \* where AgentCycle.RunAsync is
  run,      \* the background task: InstallJobRunner._current
  marker,   \* install.json: at most one record
  queue,    \* the snapshot queue: empty or its newest snapshot
  avail,    \* what Windows Update offers the device
  late,     \* reports nobody waits for any more, still to reach the backend
  crashes,  \* history: how often the service was stopped
  runs,     \* history: how often the agent started installing a job
  outcome,  \* history: how the last run of a job ended
  reopened  \* history: closed jobs a claim wrote over

agentVars == <<cycle, run, marker, queue, avail, late, crashes, runs, outcome>>
sysVars == <<vars, agentVars, reopened>>

-----------------------------------------------------------------------------

OwnJobs == {j \in Jobs : Device(j) = Self}

IdleCycle == [pc |-> "idle"]
NoRun     == [phase |-> "none"]
IsRunning == run # NoRun
Installing(j) == run = [phase |-> "installing", job |-> j]

MarkAppended(j, s) == marker \cup {[job |-> j, state |-> s]}

\* Writing install.json replaces what it held.
Mark(j, s) == {[job |-> j, state |-> s]}
Marked(j)  == \E m \in marker : m.job = j

SysInit ==
  /\ Init
  /\ cycle    = IdleCycle
  /\ run      = NoRun
  /\ marker   = {}
  /\ queue    = {}
  /\ avail    \in SUBSET Updates
  /\ late     = {}
  /\ crashes  = 0
  /\ runs     = [j \in Jobs |-> 0]
  /\ outcome  = [j \in Jobs |-> "none"]
  /\ reopened = {}

-----------------------------------------------------------------------------
(* What becomes of a report: accepted, refused with 404, or failed.        *)

Post(j, result, answer) ==
  CASE answer = "ok"    -> Report(j, result) /\ UNCHANGED late
    [] answer = "gone"  -> ~Reportable(j) /\ UNCHANGED <<vars, late>>
    [] answer = "error" -> \/ UNCHANGED <<vars, late>>
                           \/ Report(j, result) /\ UNCHANGED late
                           \/ /\ Cardinality(late) < MaxLate
                              /\ late' = late \cup {[job |-> j, state |-> result]}
                              /\ UNCHANGED vars

Answers == {"ok", "gone", "error"}

\* A report nobody waits for is taken without a look at the job.
LateReportAny(m) ==
  /\ m \in late
  /\ late' = late \ {m}
  /\ state' = [state EXCEPT ![m.job] = m.state]
  /\ UNCHANGED <<clock, age, seen, scope, offered, device, dialog, claim,
                 cycle, run, marker, queue, avail, crashes, runs, outcome>>

LateReport(m) ==
  /\ m \in late
  /\ late' = late \ {m}
  /\ \/ Report(m.job, m.state)
     \/ ~Reportable(m.job) /\ UNCHANGED vars
  /\ UNCHANGED <<cycle, run, marker, queue, avail, crashes, runs, outcome>>

-----------------------------------------------------------------------------
(* AgentCycle.                                                             *)

\* Collecting is skipped while an installation runs; it may also fail.
MayCollectAlways == TRUE

MayCollect == ~IsRunning

Snapshot == [updates |-> avail, late |-> StaleJobs(Self)]

CycleStart ==
  /\ cycle = IdleCycle
  /\ \/ MayCollect /\ queue' = {Snapshot}
     \/ UNCHANGED queue
  /\ cycle' = IF queue' = {} THEN [pc |-> "outcome", jobs |-> {}] ELSE [pc |-> "send"]
  /\ UNCHANGED <<vars, run, marker, avail, late, crashes, runs, outcome>>

\* POST checkin/batch: the request reaches the backend or does not.
Send(r) ==
  /\ cycle.pc = "send"
  /\ \E s \in queue : Ingest(r, Self, s.updates, s.late)
  /\ cycle' = [pc |-> "await", request |-> r]
  /\ UNCHANGED <<run, marker, queue, avail, late, crashes, runs, outcome>>

SendFails ==
  /\ cycle.pc = "send"
  /\ cycle' = IdleCycle
  /\ UNCHANGED <<vars, run, marker, queue, avail, late, crashes, runs, outcome>>

\* The answer settles the queue; what it asks for waits behind the outcome
\* of the previous job.
Receive ==
  /\ cycle.pc = "await"
  /\ claim[cycle.request].pc = "answer"
  /\ cycle' = [pc |-> "outcome", jobs |-> claim[cycle.request].jobs]
  /\ queue' = {}
  /\ Respond(cycle.request)
  /\ UNCHANGED <<run, marker, avail, late, crashes, runs, outcome>>

\* Timeout, connection lost or error status: the snapshots stay queued.
ReceiveFails ==
  /\ cycle.pc = "await"
  /\ cycle' = IdleCycle
  /\ UNCHANGED <<vars, run, marker, queue, avail, late, crashes, runs, outcome>>

\* What the backend sends to an agent that no longer waits.
Unheard(r) ==
  /\ cycle # [pc |-> "await", request |-> r]
  /\ Respond(r)
  /\ UNCHANGED agentVars

AfterOutcome ==
  IF cycle.jobs = {} THEN IdleCycle ELSE [pc |-> "accept", jobs |-> cycle.jobs]

-----------------------------------------------------------------------------
(* InstallJobRunner.                                                       *)

AfterReportAlways(answer) == {}
AfterReportOkOnly(answer) == IF answer = "ok" THEN {} ELSE marker

\* The marker goes once the backend has the result, or does not want it.
AfterReport(answer) == IF answer = "error" THEN marker ELSE {}

\* ReportPendingOutcomeAsync: a marker that says "running" with nothing
\* running means the service was stopped during the installation.
MarkInterrupted ==
  /\ cycle.pc = "outcome" /\ ~IsRunning
  /\ \E m \in marker : m.state = "running" /\ marker' = Mark(m.job, "failed")
  /\ UNCHANGED <<vars, cycle, run, queue, avail, late, crashes, runs, outcome>>

ReportOutcome(answer) ==
  /\ cycle.pc = "outcome" /\ ~IsRunning
  /\ \E m \in marker : m.state # "running" /\ Post(m.job, m.state, answer)
  /\ marker' = AfterReport(answer)
  /\ cycle' = AfterOutcome
  /\ UNCHANGED <<run, queue, avail, crashes, runs, outcome>>

NoOutcome ==
  /\ cycle.pc = "outcome"
  /\ IsRunning \/ marker = {}
  /\ cycle' = AfterOutcome
  /\ UNCHANGED <<vars, run, marker, queue, avail, late, crashes, runs, outcome>>

\* AcceptAsync: another job runs or waits to be reported, a self-update is
\* under way or Windows itself installs - then the job waits in the backend.
AcceptLater ==
  /\ cycle.pc = "accept"
  /\ cycle' = IdleCycle
  /\ UNCHANGED <<vars, run, marker, queue, avail, late, crashes, runs, outcome>>

MayAccept == ~IsRunning /\ marker = {}

\* Windows wants a reboot first: failed at once, and reported.
AcceptNeedsReboot ==
  /\ cycle.pc = "accept" /\ MayAccept
  /\ \E j \in cycle.jobs : marker' = Mark(j, "failed")
  /\ cycle' = [pc |-> "outcome", jobs |-> {}]
  /\ UNCHANGED <<vars, run, queue, avail, late, crashes, runs, outcome>>

\* The marker is on disk before the start is reported.
Accept ==
  /\ cycle.pc = "accept" /\ MayAccept
  /\ \E j \in cycle.jobs : /\ runs[j] < MaxRuns
                           /\ marker' = Mark(j, "running")
                           /\ cycle' = [pc |-> "start", job |-> j]
  /\ UNCHANGED <<vars, run, queue, avail, late, crashes, runs, outcome>>

\* Only a 404 keeps the installation from starting.
Start(answer) ==
  LET j == cycle.job IN
  /\ cycle.pc = "start"
  /\ Post(j, "running", answer)
  /\ IF answer = "gone"
     THEN marker' = {} /\ UNCHANGED <<run, runs, outcome>>
     ELSE /\ run' = [phase |-> "installing", job |-> j]
          /\ runs' = [runs EXCEPT ![j] = @ + 1]
          /\ outcome' = [outcome EXCEPT ![j] = "none"]
          /\ UNCHANGED marker
  /\ cycle' = IdleCycle
  /\ UNCHANGED <<queue, avail, crashes>>

\* RunAsync: everything that was offered is installed, or only some of it.
Install(result) ==
  LET wanted == avail \cap scope[run.job[1]] IN
  /\ run.phase = "installing"
  /\ \E X \in IF result = "done" THEN {wanted} ELSE SUBSET wanted :
       avail' = avail \ X
  /\ marker' = Mark(run.job, result)
  /\ outcome' = [outcome EXCEPT ![run.job] = result]
  /\ run' = [run EXCEPT !.phase = "reporting"]
  /\ UNCHANGED <<vars, cycle, queue, late, crashes, runs>>

\* The task reports by itself; what fails is left to the next cycle.
RunReport(answer) ==
  /\ run.phase = "reporting"
  /\ \E m \in marker : Post(m.job, m.state, answer)
  /\ marker' = AfterReport(answer)
  /\ run' = NoRun
  /\ UNCHANGED <<cycle, queue, avail, crashes, runs, outcome>>

\* The service is stopped - a shutdown, a swap, a crash - and starts again:
\* memory is gone, install.json and the queue stay.
Crash ==
  /\ crashes < MaxCrashes
  /\ crashes' = crashes + 1
  /\ run' = NoRun
  /\ cycle' = IdleCycle
  /\ IF run.phase = "installing"
     THEN /\ outcome' = [outcome EXCEPT ![run.job] = "interrupted"]
          /\ \E X \in SUBSET (avail \cap scope[run.job[1]]) : avail' = avail \ X
     ELSE UNCHANGED <<outcome, avail>>
  /\ UNCHANGED <<vars, marker, queue, late, runs>>

\* Windows Update offers something new.
Offer(u) ==
  /\ u \notin avail
  /\ avail' = avail \cup {u}
  /\ UNCHANGED <<vars, cycle, run, marker, queue, late, crashes, runs, outcome>>

-----------------------------------------------------------------------------

\* A claim has written over a job that was closed.
Reopening == reopened' = reopened \cup {j \in Jobs : state[j] \in Closed /\ state'[j] # state[j]}

Own(A) == A /\ Reopening
Server(A) == A /\ UNCHANGED agentVars /\ Reopening

Backend ==
  \/ \E a \in Admins, D \in SUBSET Devices, S \in SUBSET Updates : Server(CreateRead(a, D, S))
  \/ \E a \in Admins, i \in Installations, I \in SUBSET Devices : Server(CreateInsert(a, i, I))
  \/ \E j \in Jobs : Server(Cancel(j))
  \/ Server(List)
  \/ \E r \in Requests : Server(ClaimCleanup(r)) \/ Server(ClaimSelect(r))
  \/ \E r \in Requests : \/ Server(ClaimDeliver(r)) \/ Server(ClaimResolve(r))
                         \/ Server(ClaimClose(r))
  \/ \E j \in Jobs : \/ Server(BecomeDue(j)) \/ Server(PassDeadline(j))
                     \/ Server(BecomeStale(j))

Agent ==
  \/ Own(CycleStart)
  \/ \E r \in Requests : Own(Send(r))
  \/ Own(SendFails)
  \/ Own(Receive)
  \/ Own(ReceiveFails)
  \/ Own(MarkInterrupted)
  \/ \E answer \in Answers : Own(ReportOutcome(answer))
  \/ Own(NoOutcome)
  \/ Own(AcceptLater)
  \/ Own(AcceptNeedsReboot)
  \/ Own(Accept)
  \/ \E answer \in Answers : Own(Start(answer))
  \/ \E result \in {"done", "failed"} : Own(Install(result))
  \/ \E answer \in Answers : Own(RunReport(answer))
  \/ Own(Crash)

Outside ==
  \/ \E r \in Requests : Own(Unheard(r))
  \/ \E m \in late : Own(LateReport(m))
  \/ \E u \in Updates : Own(Offer(u))

SysNext == Backend \/ Agent \/ Outside

SysSpec == SysInit /\ [][SysNext]_sysVars

(* Fairness. The service's threads and the server's requests go on as long  *)
(* as they can; time passes; someone looks at the protocol now and then.    *)
(* A check-in and a report that are tried again and again get through at    *)
(* some time, with their answer: an unreachable backend is the normal case  *)
(* for a laptop, but not forever. Administrators owe nothing.               *)

Fairness ==
  /\ WF_sysVars(Own(CycleStart))
  /\ WF_sysVars(Own(SendFails))     \* sending ends, if not well, then badly
  /\ WF_sysVars(Own(ReceiveFails))
  /\ ([]<>(cycle.pc = "send")) => []<><<Own(Receive)>>_sysVars
  /\ WF_sysVars(Own(MarkInterrupted))
  /\ SF_sysVars(Own(ReportOutcome("ok") \/ ReportOutcome("gone")))
  /\ WF_sysVars(Own(NoOutcome))
  /\ WF_sysVars(Own(AcceptLater \/ AcceptNeedsReboot \/ Accept))
  /\ WF_sysVars(Own(\E answer \in Answers : Start(answer)))
  /\ WF_sysVars(Own(\E result \in {"done", "failed"} : Install(result)))
  /\ WF_sysVars(Own(\E answer \in Answers : RunReport(answer)))
  /\ \A r \in Requests :
       /\ WF_sysVars(Server(ClaimCleanup(r) \/ ClaimSelect(r) \/ ClaimDeliver(r)
                             \/ ClaimResolve(r) \/ ClaimClose(r)))
       /\ WF_sysVars(Own(Unheard(r)))
  /\ WF_sysVars(Server(List))
  /\ \A j \in Jobs : /\ WF_sysVars(Server(BecomeDue(j)))
                      /\ WF_sysVars(Server(PassDeadline(j)))
                      /\ WF_sysVars(Server(BecomeStale(j)))

FairSpec == SysSpec /\ Fairness

-----------------------------------------------------------------------------
(* Properties.                                                             *)

SysTypeOK ==
  /\ TypeOK
  /\ cycle \in {IdleCycle, [pc |-> "send"]}
             \cup [pc : {"await"}, request : Requests]
             \cup [pc : {"outcome", "accept"}, jobs : {{}} \cup {{j} : j \in Jobs}]
             \cup [pc : {"start"}, job : Jobs]
  /\ run \in {NoRun} \cup [phase : {"installing", "reporting"}, job : Jobs]
  /\ \A m \in marker : m \in [job : Jobs, state : {"running", "done", "failed"}]
  /\ \A m, n \in marker : m = n
  /\ \A s \in queue : s \in [updates : SUBSET Updates, late : SUBSET Jobs]
  /\ avail \in SUBSET Updates
  /\ \A m \in late : m \in [job : Jobs, state : {"running", "done", "failed"}]
  /\ runs \in [Jobs -> 0..MaxRuns]
  /\ outcome \in [Jobs -> {"none", "done", "failed", "interrupted"}]
  /\ reopened \subseteq Jobs

\* install.json is why no job is lost: as long as the backend has a job as
\* running, the agent still holds its marker and owes it a result - across
\* crashes, lost answers and late reports.
RunningIsBacked ==
  \A j \in OwnJobs \ reopened : state[j] = "running" => Marked(j)

\* The backend never takes a job for interrupted while the agent is in the
\* middle of it: it judges by when a snapshot was collected, and none is
\* collected during an installation.
InterruptedIsNotInstalling ==
  \A j \in OwnJobs \ reopened : Interrupted(j) => ~Installing(j)

\* The backend never records a second start of a job it did not reopen itself.
NoRecordedRerun ==
  [][\A j \in OwnJobs \ reopened' :
       runs[j] >= 1 /\ runs'[j] > runs[j] => state'[j] # "running"]_sysVars

\* A result on disk is delivered: the marker goes away, however often the report
\* fails and the service is stopped.
ResultsArrive == \A j \in OwnJobs : Marked(j) ~> ~Marked(j)

\* No job stays open for ever, so none keeps its device from getting a new one.
JobsEnd == \A j \in OwnJobs : state[j] \in Open ~> state[j] \in Closed

\* Whatever the agent does, the backend sees only steps it is made for: every
\* property of InstallJobs holds in the system too.
ImplementsBackend == Spec

\* Refuted: cleanup() fails a running job because the agent was restarted "mitten-
\* drin", in the middle of it. The agent may as well have finished it and have
\* been offline since: its check-in goes out before its result.
InterruptedWasCutShort ==
  [][\A j \in OwnJobs :
       Interrupted(j) /\ state'[j] = "failed" /\ UNCHANGED marker => outcome[j] # "done"]_sysVars

=============================================================================
