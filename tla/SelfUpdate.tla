----------------------------- MODULE SelfUpdate -----------------------------
(***************************************************************************)
(* The agent replaces itself by another version (agent/src/WiUpMo.Agent/   *)
(* Update): the service downloads it, the updater - a process of its own - *)
(* points the service at it and, if it does not confirm itself in time,    *)
(* back. The two share nothing but the marker file update.json, which each *)
(* loads, changes and saves without a lock.                                *)
(*                                                                         *)
(* Abstractions.                                                           *)
(*  - Only the versioned way (updater and service from 0.8.0 on): a        *)
(*    version is its directory, the service's binPath names a version.     *)
(*  - Time is two flags: the marker is older than StuckAfter (overdue),    *)
(*    and the verification deadline is ahead or has passed (deadline).     *)
(*  - The marker can be written and deleted; a directory that is to be     *)
(*    deleted is deleted.                                                  *)
(*  - Of the backend only the update jobs of this device are kept.         *)
(*  - The rest of the agent's cycle is left out, but for what ends it.     *)
(***************************************************************************)
EXTENDS Naturals, FiniteSets

CONSTANTS
  Versions,           \* versions of the agent
  Installed,          \* the version running at first
  Broken,             \* versions that start and never get through a cycle
  Dead,               \* versions that do not start
  Jobs,               \* agent_update_jobs of the device; their number is a bound
  MaxAttempts,        \* Updater.MaxAttempts, 6 in the code
  StuckObservations,  \* SelfUpdateService.StuckObservations, 6 in the code
  Refusable,          \* calls of the service manager that may fail: "stop", "config",
                      \* "start", and "undo" for those whose result is not looked at
  MaxFaults,          \* bound: how often they fail
  MaxCrashes          \* bound: how often a process is killed

ASSUME VersionsAssumption ==
  /\ Broken \subseteq Versions /\ Dead \subseteq Versions
  /\ Installed \in Versions \ (Broken \cup Dead)
ASSUME RefusableAssumption == Refusable \subseteq {"stop", "config", "start", "undo"}
ASSUME NumbersAssumption ==
  /\ MaxAttempts \in Nat \ {0} /\ StuckObservations \in Nat \ {0}
  /\ MaxFaults \in Nat /\ MaxCrashes \in Nat

VARIABLES
  bin,       \* binPath of the service
  exes,      \* versions that have their executable in place
  marker,    \* update.json: at most one record
  overdue,   \* StuckAfter has passed since the marker was created
  deadline,  \* "ahead" or "passed": the marker's VerifyDeadline against now
  svc,       \* the service process: stopped, or its version and where it is
  held,      \* the marker the service has loaded and not finished with
  seen,      \* _overdueJob and _overdueSeen of the service process
  upd,       \* the updater process and the marker it has loaded
  job,       \* job[j]: the row of agent_update_jobs
  raced,     \* history: the service wrote the marker while the updater worked on it
  astray,    \* history: what a roll-back has left elsewhere, "binPath" or the "service"
  faults,    \* history: refusals of the service manager
  crashes    \* history: processes killed

vars == <<bin, exes, marker, overdue, deadline, svc, held, seen, upd, job, raced, astray, faults, crashes>>

files == <<exes, marker, overdue, deadline, raced>>
memory == <<held, seen>>
history == <<astray, faults, crashes>>

-----------------------------------------------------------------------------

NoJob == [state |-> "none"]
OpenStates == {"pending", "delivered", "installing"}
ClosedStates == {"done", "failed"}
OpenJobs == {j \in Jobs : job[j].state \in OpenStates}

Stopped == [pc |-> "stopped"]
UpdaterIdle == [pc |-> "idle"]
UpdaterBusy == upd.pc \notin {"idle", "ensure"}
IsRunning == svc # Stopped
Works == IsRunning /\ svc.version \notin Broken

\* What starting the service brings about: the executable binPath names, if it
\* is there and comes up.
Started == IF bin \in exes \ Dead THEN [pc |-> "cycle", version |-> bin] ELSE Stopped

\* A new process remembers nothing of the old one.
NothingHeld == held' = {} /\ seen' = [job |-> {}, times |-> 0]

Init ==
  /\ bin = Installed
  /\ exes = {Installed}
  /\ marker = {}
  /\ overdue = FALSE
  /\ deadline = "ahead"
  /\ svc = [pc |-> "cycle", version |-> Installed]
  /\ held = {} /\ seen = [job |-> {}, times |-> 0]
  /\ upd = UpdaterIdle
  /\ job = [j \in Jobs |-> NoJob]
  /\ raced = FALSE /\ astray = {} /\ faults = 0 /\ crashes = 0

\* The service writes or deletes a marker that is not, or will not stay, the one
\* it has loaded.
Racing == raced' = (raced \/ UpdaterBusy \/ marker # held)

At(pc) == IsRunning /\ svc.pc = pc
Goto(pc) == svc' = [pc |-> pc, version |-> svc.version]
GotoWith(pc, jobs) == svc' = [pc |-> pc, version |-> svc.version, jobs |-> jobs]

-----------------------------------------------------------------------------
(* The backend: one open job per device at a time; reports are taken as    *)
(* they come, whatever state the job is in.                                *)

CreateJob(j, v) ==
  /\ job[j] = NoJob /\ OpenJobs = {}
  /\ job' = [job EXCEPT ![j] = [state |-> "pending", target |-> v]]
  /\ UNCHANGED <<bin, files, svc, memory, upd, history>>

\* Cancelled by hand, given up as stalled, or its release was removed.
CloseJob(j) ==
  /\ j \in OpenJobs
  /\ job' = [job EXCEPT ![j].state = "failed"]
  /\ UNCHANGED <<bin, files, svc, memory, upd, history>>

Deliver(J) == job' = [j \in Jobs |-> IF j \in J /\ job[j].state = "pending"
                                     THEN [job[j] EXCEPT !.state = "delivered"] ELSE job[j]]

\* A report gets through with its answer; otherwise it is lost, or its answer.
Reported(j, state) == job' = [job EXCEPT ![j].state = state]
ReportFails(j, state) == UNCHANGED job \/ Reported(j, state)

-----------------------------------------------------------------------------
(* The service: SelfUpdateService, in the order AgentCycle calls it.       *)

\* A cycle got through collecting: ConfirmSelf loads the marker ...
Collect ==
  /\ At("cycle") /\ svc.version \notin Broken
  /\ LET mine == {m \in marker : m.state = "verifying" /\ m.target = svc.version} IN
     /\ held' = mine
     /\ IF mine = {} THEN Goto("flush") ELSE Goto("confirm")
  /\ UNCHANGED <<bin, files, seen, upd, job, history>>

\* ... and saves it again.
ConfirmSelf ==
  /\ At("confirm")
  /\ marker' = {[m EXCEPT !.state = "verified"] : m \in held}
  /\ Racing
  /\ held' = {}
  /\ Goto("flush")
  /\ UNCHANGED <<bin, exes, overdue, deadline, seen, upd, job, history>>

\* The check-in, answered or not; the answer may carry a job.
Flush ==
  /\ At("flush")
  /\ \E J \in {{}} \cup {{j} : j \in {k \in Jobs : job[k].state \in {"pending", "delivered"}}} :
       Deliver(J) /\ GotoWith("outcome", J)
  /\ UNCHANGED <<bin, files, memory, upd, history>>

FlushFails ==
  /\ At("flush")
  /\ Goto("cycle")
  /\ UNCHANGED <<bin, files, memory, upd, job, history>>

\* ReportPendingOutcomeAsync and AbandonIfStaleAsync up to the report.
\* A bug to compare with: each observation counts as the first one.
SeenAnew(m) == 1
Seen(m) == IF seen.job = {m.job} THEN seen.times + 1 ELSE 1

Stuck(m) == overdue /\ Seen(m) >= StuckObservations

Outcome ==
  /\ At("outcome")
  /\ \/ /\ marker = {} /\ GotoWith("accept", svc.jobs)
        /\ UNCHANGED memory
     \/ \E m \in marker :
          IF m.state \in {"verified", "rolledBack"} \/ Stuck(m)
          THEN GotoWith("report", svc.jobs) /\ held' = {m} /\ UNCHANGED seen
          ELSE /\ GotoWith("accept", svc.jobs)
               /\ seen' = IF overdue THEN [job |-> {m.job}, times |-> Seen(m)] ELSE seen
               /\ UNCHANGED held
  /\ UNCHANGED <<bin, files, upd, job, history>>

ResultIfNotBack(m) == IF m.state = "rolledBack" THEN "failed" ELSE "done"
Result(m) == IF m.state = "verified" THEN "done" ELSE "failed"

Report ==
  /\ At("report")
  /\ \E m \in held : Reported(m.job, Result(m))
  /\ GotoWith("settle", svc.jobs)
  /\ UNCHANGED <<bin, files, memory, upd, history>>

ReportLost ==
  /\ At("report")
  /\ \E m \in held : ReportFails(m.job, Result(m))
  /\ held' = {}
  /\ Goto("cycle")
  /\ UNCHANGED <<bin, files, seen, upd, history>>

\* The marker goes once it is reported ...
Settle ==
  /\ At("settle")
  /\ marker' = {}
  /\ Racing
  /\ GotoWith("cleanup", svc.jobs)
  /\ UNCHANGED <<bin, exes, overdue, deadline, memory, upd, job, history>>

KeptNotTarget(m) == exes \ {m.target}

\* ... and then the versions nobody needs: after a success all but the running
\* and the previous one, otherwise the one that was to be installed.
Kept(m) == IF m.state = "verified" THEN {svc.version, m.from}
           ELSE (exes \ {m.target}) \cup {svc.version}

CleanUp ==
  /\ At("cleanup")
  /\ \E m \in held : exes' = exes \cap Kept(m)
  /\ held' = {}
  /\ GotoWith("accept", svc.jobs)
  /\ UNCHANGED <<bin, marker, raced, overdue, deadline, seen, upd, job, history>>

\* PrepareAsync: nothing to do, not now, already there, or a download.
AcceptNothing ==
  /\ At("accept")
  /\ svc.jobs = {} \/ (marker # {} /\ \A j \in svc.jobs : job[j].target # svc.version)
  /\ Goto("cycle")
  /\ UNCHANGED <<bin, files, memory, upd, job, history>>

AcceptCurrent ==
  /\ At("accept")
  /\ \E j \in svc.jobs : job[j].target = svc.version
                         /\ (Reported(j, "done") \/ ReportFails(j, "done"))
  /\ Goto("cycle")
  /\ UNCHANGED <<bin, files, memory, upd, history>>

MayPrepareSame(j) == marker = {}
MayPrepare(j) == job[j].target # svc.version /\ marker = {}

Stage ==
  /\ At("accept")
  /\ \E j \in svc.jobs :
       /\ MayPrepare(j)
       /\ exes' = exes \cup {job[j].target}
       /\ marker' = {[job |-> j, target |-> job[j].target, from |-> svc.version,
                      state |-> "pendingSwap", attempts |-> 0]}
  /\ overdue' = FALSE /\ deadline' = "ahead"
  /\ GotoWith("announce", svc.jobs)
  /\ UNCHANGED <<bin, raced, memory, upd, job, history>>

\* Download broken off or checksum wrong: what was staged is deleted.
Discarded(j) == exes' = exes \ {job[j].target}

StageFails ==
  /\ At("accept")
  /\ \E j \in svc.jobs : MayPrepare(j) /\ Discarded(j)
  /\ GotoWith("sorry", svc.jobs)
  /\ UNCHANGED <<bin, marker, raced, overdue, deadline, memory, upd, job, history>>

\* "installing" is reported; then the updater is started, which the scheduled
\* task may do at any time anyway.
Announce ==
  /\ At("announce")
  /\ \E j \in svc.jobs : Reported(j, "installing")
  /\ Goto("cycle")
  /\ UNCHANGED <<bin, files, memory, upd, history>>

\* The staged version is deleted, the marker is not.
AnnounceFails ==
  /\ At("announce")
  /\ \E j \in svc.jobs : ReportFails(j, "installing") /\ Discarded(j)
  /\ GotoWith("sorry", svc.jobs)
  /\ UNCHANGED <<bin, marker, raced, overdue, deadline, memory, upd, history>>

ReportNotPrepared ==
  /\ At("sorry")
  /\ \E j \in svc.jobs : Reported(j, "failed") \/ ReportFails(j, "failed")
  /\ Goto("cycle")
  /\ UNCHANGED <<bin, files, memory, upd, history>>

-----------------------------------------------------------------------------
(* The updater: Updater.Run, one at a time (a mutex).                      *)

Save(m) == marker' = {m} /\ UNCHANGED raced
Continue(pc, m) == upd' = [pc |-> pc, marker |-> m]

Refused(call) == /\ call \in Refusable /\ faults < MaxFaults
                 /\ faults' = faults + 1
NoFault == UNCHANGED faults

Expired(m) == m.state = "verifying" /\ deadline = "passed"

\* The scheduled task, or the service after staging. States the updater has
\* nothing to do in end the run at once.
UpdaterRun ==
  /\ upd = UpdaterIdle
  /\ \E m \in marker :
       \/ m.state = "pendingSwap" /\ Continue("swap", m)
       \/ Expired(m) /\ Continue("verify", m)
  /\ UNCHANGED <<bin, files, svc, memory, job, history>>

\* BeginAttempt: one more, or RollBack when there have been enough.
BeginAttempt(from, to) ==
  /\ upd.pc = from
  /\ IF upd.marker.attempts >= MaxAttempts
     THEN Continue("rollback", upd.marker) /\ UNCHANGED <<marker, raced>>
     ELSE LET m == [upd.marker EXCEPT !.attempts = @ + 1] IN Save(m) /\ Continue(to, m)
  /\ UNCHANGED <<bin, exes, overdue, deadline, svc, memory, job, history>>

SwapBegin == BeginAttempt("swap", "stop")
VerifyBegin == BeginAttempt("verify", "takeback")

StopService == svc' = Stopped /\ NothingHeld

\* Swap: without the service stopped nothing is switched.
SwapStop ==
  /\ upd.pc = "stop"
  /\ \/ StopService /\ NoFault /\ Continue("switch", upd.marker) /\ UNCHANGED <<marker, raced>>
     \/ Refused("stop") /\ Save(upd.marker) /\ Continue("ensure", upd.marker) /\ UNCHANGED <<svc, memory>>
  /\ UNCHANGED <<bin, exes, overdue, deadline, job, astray, crashes>>

\* SwitchVersion: "verifying" is on disk before the service is pointed at it.
Switch ==
  /\ upd.pc = "switch"
  /\ IF upd.marker.target \notin exes
     THEN Continue("rollback", upd.marker) /\ UNCHANGED <<marker, raced, deadline>>
     ELSE LET m == [upd.marker EXCEPT !.state = "verifying"] IN
          Save(m) /\ deadline' = "ahead" /\ Continue("point", m)
  /\ UNCHANGED <<bin, exes, overdue, svc, memory, job, history>>

\* SetBinPath(TargetPath).
Point ==
  /\ upd.pc = "point"
  /\ \/ bin' = upd.marker.target /\ NoFault /\ Continue("start", upd.marker)
     \/ Refused("config") /\ Continue("undo", upd.marker) /\ UNCHANGED bin
  /\ UNCHANGED <<files, svc, memory, job, astray, crashes>>

\* StartService: it runs, or does not come up; or only when the updater has stopped waiting.
Start ==
  /\ upd.pc = "start"
  /\ \/ Started # Stopped /\ svc' = Started /\ NoFault /\ Continue("ensure", upd.marker)
     \/ Started = Stopped /\ UNCHANGED svc /\ NoFault /\ Continue("undo", upd.marker)
     \/ Refused("start") /\ svc' \in {Stopped, Started} /\ Continue("undo", upd.marker)
  /\ UNCHANGED <<bin, files, memory, job, astray, crashes>>

PointedBackKept == bin
PointedBack == upd.marker.from

\* A service whose stop was refused goes on running what binPath no longer names.
LeftRunning == IF IsRunning /\ svc.version # upd.marker.from THEN {"service"} ELSE {}
LeftPointed == IF bin # upd.marker.from THEN {"binPath"} ELSE {}

\* It does not start: stopped again, whether that works or not.
Undo ==
  /\ upd.pc = "undo"
  /\ \/ StopService /\ NoFault
     \/ Refused("undo") /\ UNCHANGED <<svc, memory>>
  /\ Continue("unpoint", upd.marker)
  /\ UNCHANGED <<bin, files, job, astray, crashes>>

\* SetBinPath(FromPath), whether that works or not.
Unpoint ==
  /\ upd.pc = "unpoint"
  /\ \/ bin' = PointedBack /\ NoFault /\ astray' = astray \cup LeftRunning
     \/ Refused("undo") /\ UNCHANGED bin /\ astray' = astray \cup LeftPointed
  /\ Continue("rollback", upd.marker)
  /\ UNCHANGED <<files, svc, memory, job, crashes>>

\* Verify: the service is stopped, whether that works or not ...
TakeBack ==
  /\ upd.pc = "takeback"
  /\ \/ StopService /\ NoFault
     \/ Refused("undo") /\ UNCHANGED <<svc, memory>>
  /\ Continue("pointback", upd.marker)
  /\ UNCHANGED <<bin, files, job, astray, crashes>>

\* ... and pointed back; if that fails, the next run tries again.
PointBack ==
  /\ upd.pc = "pointback"
  /\ \/ /\ bin' = PointedBack /\ NoFault /\ astray' = astray \cup LeftRunning
        /\ Continue("rollback", upd.marker) /\ UNCHANGED <<marker, raced>>
     \/ /\ Refused("config") /\ UNCHANGED <<bin, astray>>
        /\ Save(upd.marker) /\ Continue("ensure", upd.marker)
  /\ UNCHANGED <<exes, overdue, deadline, svc, memory, job, crashes>>

RollBack ==
  /\ upd.pc = "rollback"
  /\ Save([upd.marker EXCEPT !.state = "rolledBack"])
  /\ Continue("ensure", upd.marker)
  /\ UNCHANGED <<bin, exes, overdue, deadline, svc, memory, job, history>>

\* EnsureServiceRunning, however the run has gone; then it ends.
Ensure ==
  /\ upd.pc = "ensure"
  /\ \/ IsRunning /\ UNCHANGED svc /\ NoFault
     \/ ~IsRunning /\ svc' = Started /\ NoFault
     \/ ~IsRunning /\ Refused("start") /\ UNCHANGED svc
  /\ upd' = UpdaterIdle
  /\ UNCHANGED <<bin, files, memory, job, astray, crashes>>

-----------------------------------------------------------------------------
(* Time, and processes that end.                                           *)

BecomeOverdue ==
  /\ marker # {} /\ ~overdue
  /\ overdue' = TRUE
  /\ UNCHANGED <<bin, exes, marker, raced, deadline, svc, memory, upd, job, history>>

PassDeadline ==
  /\ \E m \in marker : m.state = "verifying"
  /\ deadline = "ahead"
  /\ deadline' = "passed"
  /\ UNCHANGED <<bin, exes, marker, raced, overdue, svc, memory, upd, job, history>>

Crash == crashes < MaxCrashes /\ crashes' = crashes + 1

UpdaterDies ==
  /\ upd # UpdaterIdle /\ Crash
  /\ upd' = UpdaterIdle
  /\ UNCHANGED <<bin, files, svc, memory, job, astray, faults>>

\* The service dies and Windows starts it again, or the machine restarts.
ServiceDies ==
  /\ IsRunning /\ Crash
  /\ svc' = Started /\ NothingHeld
  /\ upd' \in {upd, UpdaterIdle}
  /\ UNCHANGED <<bin, files, job, astray, faults>>

\* A machine whose service is stopped, or gets nothing done, is restarted one
\* day like any other: the service starts with it.
Boot ==
  /\ upd = UpdaterIdle
  /\ ~Works
  /\ svc' = Started /\ NothingHeld
  /\ UNCHANGED <<bin, files, upd, job, history>>

-----------------------------------------------------------------------------

Backend ==
  \/ \E j \in Jobs, v \in Versions : CreateJob(j, v)
  \/ \E j \in Jobs : CloseJob(j)

Service ==
  \/ Collect \/ ConfirmSelf
  \/ Flush \/ FlushFails
  \/ Outcome \/ Report \/ ReportLost \/ Settle \/ CleanUp
  \/ AcceptNothing \/ AcceptCurrent \/ Stage \/ StageFails
  \/ Announce \/ AnnounceFails \/ ReportNotPrepared

UpdaterSteps ==
  \/ SwapBegin \/ SwapStop \/ Switch \/ Point \/ Start
  \/ Undo \/ Unpoint
  \/ VerifyBegin \/ TakeBack \/ PointBack
  \/ RollBack \/ Ensure

Next ==
  \/ Backend \/ Service \/ UpdaterRun \/ UpdaterSteps
  \/ BecomeOverdue \/ PassDeadline
  \/ UpdaterDies \/ ServiceDies \/ Boot

Spec == Init /\ [][Next]_vars

(* Fairness: both processes go on as long as they can, time passes, a      *)
(* machine whose service is stopped is restarted one day, and check-ins    *)
(* and reports tried again and again get through at some time. The         *)
(* scheduled task takes back a version whose time has run out; that it     *)
(* ever swaps one is not assumed, it may be missing or switched off.       *)

TakeBackRun == UpdaterRun /\ \E m \in marker : Expired(m)

Fairness ==
  /\ WF_vars(Service) /\ SF_vars(Flush) /\ SF_vars(Report)
  /\ WF_vars(TakeBackRun) /\ WF_vars(UpdaterSteps)
  /\ WF_vars(BecomeOverdue) /\ WF_vars(PassDeadline)
  /\ WF_vars(Boot)

FairSpec == Spec /\ Fairness

-----------------------------------------------------------------------------
(* Properties.                                                             *)

Markers == [job : Jobs, target : Versions, from : Versions, attempts : 0..MaxAttempts,
            state : {"pendingSwap", "verifying", "verified", "rolledBack"}]

TypeOK ==
  /\ bin \in Versions
  /\ exes \subseteq Versions
  /\ \A m \in marker \cup held : m \in Markers
  /\ \A m, n \in marker : m = n
  /\ \A m, n \in held : m = n
  /\ overdue \in BOOLEAN /\ deadline \in {"ahead", "passed"}
  /\ svc \in {Stopped}
       \cup [pc : {"cycle", "confirm", "flush"}, version : Versions]
       \cup [pc : {"outcome", "report", "settle", "cleanup", "accept", "announce", "sorry"},
             version : Versions, jobs : SUBSET Jobs]
  /\ seen.job \subseteq Jobs /\ seen.times \in 0..(StuckObservations - 1)
  /\ upd \in {UpdaterIdle}
       \cup [pc : {"swap", "stop", "switch", "point", "start", "undo", "unpoint", "verify",
                   "takeback", "pointback", "rollback", "ensure"}, marker : Markers]
  /\ job \in [Jobs -> {NoJob} \cup [state : OpenStates \cup ClosedStates, target : Versions]]
  /\ raced \in BOOLEAN /\ astray \subseteq {"binPath", "service"}
  /\ faults \in 0..MaxFaults /\ crashes \in 0..MaxCrashes

\* The executable the service points at is there: no clean-up, failed download or given-up
\* update deletes it. Excepted is what may follow when service and updater have written over
\* each other (raced, see VerifiedIsLeftAlone) or when a roll-back whose stop was refused has
\* left the new version running: it then stages and deletes the one binPath names.
OneVersion == ~raced /\ "service" \notin astray
ExeInPlace == OneVersion => bin \in exes

\* As long as an update may have to be taken back, the version to go back to is still there,
\* with the same exceptions.
WayBack == OneVersion => \A m \in marker : m.state \in {"pendingSwap", "verifying"} => m.from \in exes

\* Refuted: UpdateState.RolledBack says the updater has gone back, that the service points
\* at the old version again and, if it runs, it is the old one that runs and reports. When
\* all attempts are used up the updater says so without having gone back.
Back(m) == bin = m.from /\ (IsRunning => svc.version = m.from)
RolledBackMeansBack == \A m \in marker : m.state = "rolledBack" => Back(m)

\* The attempts may be used up: each refusal and each process killed can cost one, and the
\* swap and the roll-back need one each.
AttemptsLast == faults + crashes + 2 <= MaxAttempts

\* What RolledBackMeansBack leaves of the promise: "rolled back" is true while the attempts
\* last, whichever calls were refused and processes killed, if none of the calls whose
\* results the updater does not look at has left service or binPath elsewhere.
RolledBackUnraced == ~raced /\ astray = {} /\ AttemptsLast => RolledBackMeansBack

\* Refuted: from "verified" on the updater keeps its hands off, and such a marker stays as
\* it is until the service has reported it and removes it. The updater saves the copy it
\* loaded before the confirmation.
VerifiedIsLeftAlone ==
  [][\A m \in marker : m.state = "verified" => marker' \in {{m}, {}}]_vars

\* A job becomes done at the backend only while the device points at the version the job
\* names, with the exceptions of ExeInPlace.
DoneMeansInstalled ==
  [][OneVersion => \A j \in Jobs : job'[j].state = "done" /\ job[j].state # "done"
                                      => bin = job[j].target]_vars

\* No marker stays for good on a device whose service works, whatever the updater, the
\* calls to the service manager and the races of the two bring about, and though the
\* scheduled task may never swap a version: a marker blocks every further update of the
\* device (AbandonIfStaleAsync). That the task takes back an expired version is assumed.
MarkerGoes ==
  []<>Works => \A j \in Jobs : (\E m \in marker : m.job = j) ~> (\A m \in marker : m.job # j)

\* The device always comes back to a service that runs and gets through its cycles, also
\* after a version that does neither (Updater: first of its rules), however service and
\* updater race, unless such a version keeps the binPath: because the refusal of pointing it
\* back was not looked at, or because the attempts were used up before the roll-back.
ServiceWorks == []<>(Works \/ "binPath" \in astray \/ ~AttemptsLast)

=============================================================================
