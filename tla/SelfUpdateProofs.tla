-------------------------- MODULE SelfUpdateProofs --------------------------
(***************************************************************************)
(* Service and updater share one marker without a lock. As long as neither *)
(* has written over the other (~raced) and what runs is what the service   *)
(* points at (no "service" astray), no version somebody needs is deleted   *)
(* and what is reported as done is installed; while nothing is astray and  *)
(* the attempts last, rolled back means gone back - for every number of    *)
(* versions, jobs, faults and crashes, and whichever calls are refused.    *)
(***************************************************************************)
EXTENDS SelfUpdate, TLAPS

-----------------------------------------------------------------------------
(* What holds of either process, raced or not.                             *)

WithJobs == {"outcome", "report", "settle", "cleanup", "accept", "announce", "sorry"}

\* A marker's job has a row, which names the marker's target.
Known(m) == job[m.job] # NoJob /\ job[m.job].target = m.target

KnownJobs ==
  /\ \A m \in marker \cup held : Known(m)
  /\ upd # UpdaterIdle => Known(upd.marker)
  /\ svc.pc \in WithJobs => \A j \in svc.jobs : job[j] # NoJob

\* What runs is what binPath names, unless a refused stop has left it running, ...
RunsBin == "service" \notin astray /\ IsRunning => svc.version = bin

\* ... because it is pointed at a new version only while the service is stopped, ...
HaltPcs == {"switch", "point", "start"}
Halted == upd.pc \in HaltPcs => svc = Stopped

\* ... to a version that is there.
TargetThere == upd.pc = "point" => upd.marker.target \in exes

Swapping == {"swap", "stop", "switch"}
Turning  == {"point", "start", "undo", "unpoint", "verify", "takeback", "pointback"}

\* Which state the updater's copy has by where the updater is.
CopyStates ==
  /\ upd.pc \in Swapping => upd.marker.state = "pendingSwap"
  /\ upd.pc \in Turning => upd.marker.state = "verifying"
  /\ upd.pc = "rollback" => upd.marker.state \in {"pendingSwap", "verifying"}

\* What the service holds when it confirms is its own update under verification.
Confirming == svc.pc = "confirm" => \A m \in held : m.target = svc.version

\* An answer carries one job.
OneJob == svc.pc \in WithJobs => \A i, j \in svc.jobs : i = j

\* What is announced is another version than the one that runs.
Announcing == svc.pc = "announce" => \A j \in svc.jobs : job[j].target # svc.version

-----------------------------------------------------------------------------
(* What holds as long as the two have not raced and one version runs.      *)

\* The updater's copy is the marker.
Shared == UpdaterBusy => marker = {upd.marker}

\* Where the service points by the state of the marker.
Pointed == \A m \in marker : /\ m.state = "pendingSwap" => bin = m.from
                             /\ m.state = "verified" => bin = m.target

\* The way back from an announced update is the version that announces it.
AnnouncedFrom == svc.pc = "announce" => \A m \in marker : m.from = svc.version

\* A result is reported as the marker has it, and versions are deleted after the marker.
Reporting ==
  svc.pc = "report" => \A m \in held : m.state = "verified" => bin = m.target /\ marker = held
Cleaning  == svc.pc = "cleanup" => marker = {}

Way == \A m \in marker : m.state \in {"pendingSwap", "verifying"} => m.from \in exes
Fine == bin \in exes /\ Way /\ Shared /\ Pointed /\ AnnouncedFrom /\ Reporting /\ Cleaning

Sound == RunsBin /\ Halted /\ TargetThere /\ CopyStates /\ Confirming /\ OneJob /\ Announcing

IInv == TypeOK /\ KnownJobs /\ Sound /\ (OneVersion => Fine)

\* Every attempt but one of the swap and one of the way back ended in a fault or a crash.
Spent(m, n) == m.attempts <= faults + crashes + n

Counted ==
  /\ upd.pc = "swap" => Spent(upd.marker, 0)
  /\ upd.pc \in {"stop", "switch", "point", "start", "undo", "unpoint", "verify"} => Spent(upd.marker, 1)
  /\ upd.pc \in {"takeback", "pointback", "rollback"} => Spent(upd.marker, 2)
  /\ upd.pc = "rollback" /\ upd.marker.state = "pendingSwap" => Spent(upd.marker, 1)
  /\ ~UpdaterBusy => \A m \in marker : /\ m.state = "pendingSwap" => Spent(m, 0)
                                       /\ m.state = "verifying" => Spent(m, 1)

\* So the updater never says "rolled back" for want of attempts.
Returned ==
  /\ upd.pc = "rollback" => bin = upd.marker.from
  /\ \A m \in marker : m.state = "rolledBack" => bin = m.from

\* Nothing has disturbed the roll-back more than the code reckons with.
Calm == ~raced /\ astray = {} /\ AttemptsLast

BInv == Calm => Counted /\ Returned

-----------------------------------------------------------------------------
(* Types.                                                                  *)

SvcType ==
  {Stopped} \cup [pc : {"cycle", "confirm", "flush"}, version : Versions]
            \cup [pc : WithJobs, version : Versions, jobs : SUBSET Jobs]
UpdPcs == {"swap", "stop", "switch", "point", "start", "undo", "unpoint", "verify",
           "takeback", "pointback", "rollback", "ensure"}
UpdType == {UpdaterIdle} \cup [pc : UpdPcs, marker : Markers]
Rows == [state : OpenStates \cup ClosedStates, target : Versions]
JobType == [Jobs -> {NoJob} \cup Rows]

\* The marker, in the file and with the service: at most one, and well formed.
MarkersOK ==
  /\ \A m \in marker \cup held : m \in Markers
  /\ \A m, n \in marker : m = n
  /\ \A m, n \in held : m = n
NumbersOK ==
  /\ overdue \in BOOLEAN /\ deadline \in {"ahead", "passed"} /\ raced \in BOOLEAN
  /\ astray \subseteq {"binPath", "service"}
  /\ faults \in 0..MaxFaults /\ crashes \in 0..MaxCrashes
SeenOK == seen.job \subseteq Jobs /\ seen.times \in 0..(StuckObservations - 1)

\* TypeOK in parts, before and after a step.
TypePartsOK ==
  /\ bin \in Versions /\ exes \subseteq Versions
  /\ MarkersOK /\ NumbersOK /\ SeenOK
  /\ svc \in SvcType /\ upd \in UpdType /\ job \in JobType

LEMMA TypeParts == (TypeOK <=> TypePartsOK) /\ (TypeOK' <=> TypePartsOK')
BY DEF TypePartsOK, TypeOK, Rows, MarkersOK, NumbersOK, SeenOK, SvcType, WithJobs, UpdType, UpdPcs, JobType

\* What a running service's record is.
LEMMA SvcShape ==
  ASSUME svc \in SvcType, IsRunning
  PROVE  /\ svc.version \in Versions /\ svc.pc # "stopped"
         /\ svc.pc \in WithJobs => svc.jobs \subseteq Jobs
BY DEF SvcType, WithJobs, IsRunning, Stopped

\* What a stopped service's record is.
LEMMA SvcStopped ==
  ASSUME svc \in SvcType
  PROVE  svc = Stopped <=> svc.pc = "stopped"
BY DEF SvcType, WithJobs, Stopped

LEMMA UpdShape ==
  ASSUME upd \in UpdType
  PROVE  /\ upd = UpdaterIdle <=> upd.pc = "idle"
         /\ upd.pc # "idle" => upd.marker \in Markers /\ upd = [pc |-> upd.pc, marker |-> upd.marker]
BY DEF UpdType, UpdPcs, UpdaterIdle

\* Where the service goes next has its type.
LEMMA GotoType ==
  ASSUME svc \in SvcType, IsRunning
  PROVE  /\ \A pc \in {"cycle", "confirm", "flush"} : Goto(pc) => svc' \in SvcType
         /\ \A pc \in WithJobs, J \in SUBSET Jobs : GotoWith(pc, J) => svc' \in SvcType
<1>1. svc.version \in Versions
  BY SvcShape
<1> QED
  BY <1>1 DEF SvcType, Goto, GotoWith

LEMMA StartedType ==
  ASSUME bin \in Versions
  PROVE  Started \in SvcType
BY DEF Started, SvcType, Stopped

\* A report keeps the rows well formed, and their targets, when it is about one that exists.
LEMMA ReportedType ==
  ASSUME job \in JobType, NEW k \in Jobs, job[k] # NoJob,
         NEW s \in OpenStates \cup ClosedStates, ReportFails(k, s) \/ Reported(k, s)
  PROVE  /\ job' \in JobType
         /\ \A j \in Jobs : /\ job[j] = NoJob <=> job'[j] = NoJob
                            /\ job[j] # NoJob => job'[j].target = job[j].target
                            /\ job'[j] # job[j] => j = k /\ job'[k].state = s
<1>1. job[k] \in Rows
  BY DEF JobType
<1>2. [job[k] EXCEPT !.state = s] \in Rows /\ [job[k] EXCEPT !.state = s].target = job[k].target
      /\ [job[k] EXCEPT !.state = s].state = s
  BY <1>1 DEF Rows
<1>3. job' = job \/ job' = [job EXCEPT ![k] = [job[k] EXCEPT !.state = s]]
  BY DEF ReportFails, Reported
<1>4. \A r \in Rows : r # NoJob
  BY DEF Rows, NoJob
<1> HIDE DEF Rows
<1>5. CASE job' = [job EXCEPT ![k] = [job[k] EXCEPT !.state = s]]
  BY <1>1, <1>2, <1>4, <1>5 DEF JobType
<1> QED
  BY <1>3, <1>5

LEMMA TypeInit == Init => TypeOK
<1> SUFFICES ASSUME Init PROVE TypeOK
  OBVIOUS
<1>1. bin \in Versions /\ exes \subseteq Versions /\ MarkersOK /\ SeenOK
  BY VersionsAssumption, NumbersAssumption DEF Init, MarkersOK, SeenOK
<1>2. NumbersOK
  <2>1. faults \in 0..MaxFaults /\ crashes \in 0..MaxCrashes
    BY NumbersAssumption DEF Init
  <2> QED
    BY <2>1 DEF Init, NumbersOK
<1>3. svc \in SvcType /\ upd \in UpdType /\ job \in JobType
  BY VersionsAssumption DEF Init, SvcType, UpdType, JobType
<1> QED
  BY <1>1, <1>2, <1>3, TypeParts DEF TypePartsOK

\* A step that keeps the rows that exist and their targets, and works with jobs that
\* are known already, keeps KnownJobs.
RowsKept == \A j \in Jobs : job[j] # NoJob => job'[j] # NoJob /\ job'[j].target = job[j].target

\* m is, but for its state and attempts, a marker one of the processes has.
Derived(m) == \/ \E n \in marker \cup held : m.job = n.job /\ m.target = n.target
              \/ upd # UpdaterIdle /\ m.job = upd.marker.job /\ m.target = upd.marker.target

LEMMA KnownKept ==
  ASSUME TypeOK, TypeOK', KnownJobs, RowsKept,
         \A m \in marker' \cup held' : Derived(m),
         upd' # UpdaterIdle => Derived(upd'.marker),
         svc'.pc \in WithJobs => \A j \in svc'.jobs : job[j] # NoJob
  PROVE  KnownJobs'
<1>1. \A m \in Markers : Derived(m) => Known(m)' /\ job[m.job] # NoJob
  <2> SUFFICES ASSUME NEW m \in Markers, Derived(m) PROVE Known(m)' /\ job[m.job] # NoJob
    OBVIOUS
  <2>1. m.job \in Jobs
    BY DEF Markers
  <2>2. Known(m)
    BY DEF Derived, KnownJobs, Known
  <2> QED
    BY <2>1, <2>2 DEF Known, RowsKept
<1>2. \A m \in marker' \cup held' : m \in Markers
  BY TypeParts DEF TypePartsOK, MarkersOK
<1>3. upd' # UpdaterIdle => upd'.marker \in Markers
  BY DEF TypeOK, UpdaterIdle
<1>4. svc'.pc \in WithJobs => \A j \in svc'.jobs : j \in Jobs
  BY DEF TypeOK, Stopped, WithJobs
<1> QED
  BY <1>1, <1>2, <1>3, <1>4 DEF KnownJobs, RowsKept, Known

\* A check-in hands out jobs that have a row.
LEMMA FlushTypes ==
  ASSUME TypeOK, Flush
  PROVE  job' \in JobType /\ svc' \in SvcType /\ RowsKept
         /\ (\A j \in svc'.jobs : job[j] # NoJob) /\ svc'.pc = "outcome"
<1> USE TypeParts DEF TypePartsOK
<1>1. PICK J \in {{}} \cup {{j} : j \in {k \in Jobs : job[k].state \in {"pending", "delivered"}}} :
        Deliver(J) /\ GotoWith("outcome", J)
  BY DEF Flush
<1>2. J \in SUBSET Jobs /\ \A j \in J : job[j].state \in {"pending", "delivered"}
  BY <1>1
<1>3. \A j \in J : job[j] # NoJob
  BY <1>2 DEF NoJob
<1>4. svc' \in SvcType /\ svc'.jobs = J /\ svc'.pc = "outcome"
  BY <1>1, <1>2, GotoType DEF GotoWith, Flush, At, WithJobs
<1>5. \A j \in Jobs : job[j] # NoJob =>
        /\ [job[j] EXCEPT !.state = "delivered"] \in Rows
        /\ [job[j] EXCEPT !.state = "delivered"] # NoJob
        /\ [job[j] EXCEPT !.state = "delivered"].target = job[j].target
  <2> SUFFICES ASSUME NEW j \in Jobs, job[j] # NoJob
               PROVE  /\ [job[j] EXCEPT !.state = "delivered"] \in Rows
                      /\ [job[j] EXCEPT !.state = "delivered"] # NoJob
                      /\ [job[j] EXCEPT !.state = "delivered"].target = job[j].target
    OBVIOUS
  <2>1. job[j] \in Rows
    BY DEF JobType
  <2> QED
    BY <2>1 DEF Rows, OpenStates, NoJob
<1>6. job' \in JobType /\ RowsKept
  BY <1>1, <1>3, <1>5 DEF Deliver, JobType, RowsKept
<1> QED
  BY <1>3, <1>4, <1>6

LEMMA ServiceTypes ==
  ASSUME TypeOK, KnownJobs, Service
  PROVE  TypeOK' /\ KnownJobs' /\ RowsKept
<1> USE TypeParts DEF TypePartsOK
<1>0. svc.pc \in WithJobs => svc.jobs \in SUBSET Jobs
  BY SvcShape, SvcStopped DEF IsRunning, Stopped, WithJobs
<1>1. CASE Collect
  <2>1. svc' \in SvcType /\ svc'.pc \notin WithJobs
    BY <1>1, GotoType DEF Collect, At, Goto, WithJobs
  <2>2. TypeOK' /\ RowsKept
    BY <1>1, <2>1 DEF Collect, MarkersOK, SeenOK, NumbersOK, files, memory, history, RowsKept
  <2> QED
    BY <1>1, <2>1, <2>2, KnownKept DEF Collect, files, Derived
<1>2. CASE ConfirmSelf
  <2>1. svc' \in SvcType /\ svc'.pc \notin WithJobs
    BY <1>2, GotoType DEF ConfirmSelf, At, Goto, WithJobs
  <2>2. \A m \in held : /\ [m EXCEPT !.state = "verified"] \in Markers
                        /\ [m EXCEPT !.state = "verified"].job = m.job
                        /\ [m EXCEPT !.state = "verified"].target = m.target
    BY DEF MarkersOK, Markers
  <2>3. MarkersOK'
    BY <1>2, <2>2 DEF ConfirmSelf, MarkersOK
  <2>4. TypeOK' /\ RowsKept
    BY <1>2, <2>1, <2>3 DEF ConfirmSelf, SeenOK, NumbersOK, Racing, history, RowsKept
  <2>5. \A m \in marker' \cup held' : Derived(m)
    <3> SUFFICES ASSUME NEW n \in marker' \cup held' PROVE Derived(n)
      OBVIOUS
    <3>1. PICK m \in held : n = [m EXCEPT !.state = "verified"]
      BY <1>2 DEF ConfirmSelf
    <3> QED
      BY <2>2, <3>1 DEF Derived
  <2>6. upd' # UpdaterIdle => Derived(upd'.marker)
    BY <1>2 DEF ConfirmSelf, Derived
  <2> QED
    BY <2>1, <2>4, <2>5, <2>6, KnownKept
<1>3. CASE Flush
  <2>1. TypeOK'
    BY <1>3, FlushTypes DEF Flush, MarkersOK, SeenOK, NumbersOK, files, memory, history
  <2> QED
    BY <1>3, <2>1, FlushTypes, KnownKept DEF Flush, files, memory, Derived
<1>4. CASE FlushFails
  <2>1. svc' \in SvcType /\ svc'.pc \notin WithJobs
    BY <1>4, GotoType DEF FlushFails, At, Goto, WithJobs
  <2>2. TypeOK' /\ RowsKept
    BY <1>4, <2>1 DEF FlushFails, MarkersOK, SeenOK, NumbersOK, files, memory, history, RowsKept
  <2> QED
    BY <1>4, <2>1, <2>2, KnownKept DEF FlushFails, files, memory, Derived
<1>5. CASE Outcome
  <2>1. svc' \in SvcType /\ svc'.pc \in WithJobs /\ svc'.jobs = svc.jobs
    BY <1>0, <1>5, GotoType DEF Outcome, At, GotoWith, WithJobs
  <2>2. MarkersOK'
    BY <1>5 DEF Outcome, MarkersOK, files, memory
  <2>3. SeenOK'
    BY <1>5, NumbersAssumption DEF Outcome, SeenOK, Seen, Stuck, MarkersOK, memory, Markers
  <2>4. TypeOK' /\ RowsKept
    BY <1>5, <2>1, <2>2, <2>3 DEF Outcome, NumbersOK, files, history, RowsKept
  <2> QED
    BY <1>5, <2>1, <2>4, KnownKept DEF Outcome, KnownJobs, files, memory, Derived, At, WithJobs
<1>6. CASE Report \/ ReportLost
  <2>1. PICK m \in held : ReportFails(m.job, Result(m)) \/ Reported(m.job, Result(m))
    BY <1>6 DEF Report, ReportLost
  <2>2. m.job \in Jobs /\ job[m.job] # NoJob /\ Result(m) \in OpenStates \cup ClosedStates
    BY DEF MarkersOK, Markers, KnownJobs, Known, Result, ClosedStates
  <2>3. job' \in JobType /\ RowsKept
    BY <2>1, <2>2, ReportedType DEF RowsKept
  <2>4. svc' \in SvcType /\ (svc'.pc \in WithJobs => svc'.jobs = svc.jobs)
    BY <1>0, <1>6, GotoType DEF Report, ReportLost, At, Goto, GotoWith, WithJobs
  <2>5. TypeOK'
    BY <1>6, <2>3, <2>4 DEF Report, ReportLost, MarkersOK, SeenOK, NumbersOK, files, memory, history
  <2> QED
    BY <1>6, <2>3, <2>4, <2>5, KnownKept
       DEF Report, ReportLost, KnownJobs, files, memory, Derived, At, WithJobs
<1>7. CASE Settle \/ CleanUp
  <2>1. svc' \in SvcType /\ svc'.jobs = svc.jobs
    BY <1>0, <1>7, GotoType DEF Settle, CleanUp, At, GotoWith, WithJobs
  <2>2. TypeOK' /\ RowsKept
    BY <1>7, <2>1 DEF Settle, CleanUp, MarkersOK, SeenOK, NumbersOK, Racing, memory, history, RowsKept
  <2> QED
    BY <1>7, <2>1, <2>2, KnownKept DEF Settle, CleanUp, KnownJobs, memory, Derived, At, WithJobs
<1>8. CASE AcceptNothing
  <2>1. svc' \in SvcType /\ svc'.pc \notin WithJobs
    BY <1>8, GotoType DEF AcceptNothing, At, Goto, WithJobs
  <2>2. TypeOK' /\ RowsKept
    BY <1>8, <2>1 DEF AcceptNothing, MarkersOK, SeenOK, NumbersOK, files, memory, history, RowsKept
  <2> QED
    BY <1>8, <2>1, <2>2, KnownKept DEF AcceptNothing, files, memory, Derived
<1>9. CASE AcceptCurrent \/ Announce \/ AnnounceFails \/ ReportNotPrepared
  <2>1. PICK j \in svc.jobs, s \in {"done", "installing", "failed"} :
          ReportFails(j, s) \/ Reported(j, s)
    BY <1>9 DEF AcceptCurrent, Announce, AnnounceFails, ReportNotPrepared
  <2>2. svc.pc \in WithJobs
    BY <1>9 DEF AcceptCurrent, Announce, AnnounceFails, ReportNotPrepared, At, WithJobs
  <2>3. j \in Jobs /\ job[j] # NoJob
    BY <1>0, <2>2 DEF KnownJobs
  <2>4. job' \in JobType /\ RowsKept
    BY <2>1, <2>3, ReportedType DEF RowsKept, OpenStates, ClosedStates
  <2>5. svc' \in SvcType /\ (svc'.pc \in WithJobs => svc'.jobs = svc.jobs)
    BY <1>0, <1>9, <2>2, GotoType
       DEF AcceptCurrent, Announce, AnnounceFails, ReportNotPrepared, At, Goto, GotoWith, WithJobs
  <2>6. exes' \subseteq exes /\ UNCHANGED <<bin, marker, raced, overdue, deadline, memory, upd, history>>
    BY <1>9 DEF AcceptCurrent, Announce, AnnounceFails, ReportNotPrepared, files, Discarded
  <2>7. TypeOK'
    BY <2>4, <2>5, <2>6 DEF MarkersOK, SeenOK, NumbersOK, memory, history
  <2> QED
    BY <2>2, <2>4, <2>5, <2>6, <2>7, KnownKept DEF KnownJobs, memory, Derived
<1>10. CASE Stage
  <2>1. PICK j \in svc.jobs :
          /\ exes' = exes \cup {job[j].target}
          /\ marker' = {[job |-> j, target |-> job[j].target, from |-> svc.version,
                         state |-> "pendingSwap", attempts |-> 0]}
    BY <1>10 DEF Stage
  <2>2. j \in Jobs /\ job[j] \in Rows
    BY <1>0, <1>10 DEF Stage, At, WithJobs, KnownJobs, JobType
  <2>3. svc.version \in Versions /\ svc' \in SvcType /\ svc'.jobs = svc.jobs
    BY <1>0, <1>10, SvcShape, GotoType DEF Stage, At, GotoWith, WithJobs
  <2>4. 0 \in 0..MaxAttempts
    BY NumbersAssumption
  <2>5. MarkersOK' /\ exes' \subseteq Versions
    BY <1>10, <2>1, <2>2, <2>3, <2>4 DEF Stage, MarkersOK, Markers, Rows, memory
  <2>6. TypeOK' /\ RowsKept
    BY <1>10, <2>3, <2>5 DEF Stage, SeenOK, NumbersOK, memory, history, RowsKept
  <2> QED
    BY <1>10, <2>1, <2>2, <2>3, <2>6 DEF Stage, KnownJobs, Known, memory, At, WithJobs, Rows, NoJob
<1>11. CASE StageFails
  <2>1. svc' \in SvcType /\ svc'.jobs = svc.jobs
    BY <1>0, <1>11, GotoType DEF StageFails, At, GotoWith, WithJobs
  <2>2. TypeOK' /\ RowsKept
    BY <1>11, <2>1 DEF StageFails, Discarded, MarkersOK, SeenOK, NumbersOK, memory, history, RowsKept
  <2> QED
    BY <1>11, <2>1, <2>2, KnownKept DEF StageFails, KnownJobs, memory, Derived, At, WithJobs
<1> QED
  BY <1>1, <1>2, <1>3, <1>4, <1>5, <1>6, <1>7, <1>8, <1>9, <1>10, <1>11 DEF Service

\* m is the updater's copy but for its state and its attempts.
Copy(m) == m \in Markers /\ m.job = upd.marker.job /\ m.target = upd.marker.target

\* What a step of the updater may do: save m, go on with n, touch binPath and service.
Moves(m, n) ==
  /\ upd.pc # "idle" /\ Copy(m) /\ Copy(n)
  /\ upd' = UpdaterIdle \/ \E pc \in UpdPcs : Continue(pc, n)
  /\ marker' \in {marker, {m}} /\ bin' \in Versions /\ deadline' \in {"ahead", "passed"}
  /\ svc' \in {svc, Stopped, Started} /\ (UNCHANGED memory \/ NothingHeld)
  /\ faults' = faults \/ (faults' = faults + 1 /\ faults < MaxFaults)
  /\ astray' \subseteq {"binPath", "service"}
  /\ UNCHANGED <<exes, overdue, raced, job, crashes>>

\* Whatever it does, it leaves the types alone.
LEMMA UpdaterStep ==
  ASSUME TypeOK, KnownJobs, NEW m, NEW n, Moves(m, n)
  PROVE  TypeOK' /\ KnownJobs' /\ RowsKept
<1> USE DEF Moves
<1> USE TypeParts DEF TypePartsOK
<1>1. upd' \in UpdType /\ (upd' # UpdaterIdle => upd'.marker = n)
  BY DEF Continue, UpdType, UpdaterIdle, Copy
<1>2. held' \subseteq held /\ SeenOK'
  BY NumbersAssumption DEF memory, NothingHeld, SeenOK
<1>3. MarkersOK'
  BY <1>2 DEF MarkersOK, Copy
<1>4. svc' \in SvcType /\ (svc'.pc \in WithJobs => svc' = svc)
  BY StartedType DEF SvcType, Stopped, Started, WithJobs
<1>5. faults' \in 0..MaxFaults
  BY NumbersAssumption DEF NumbersOK
<1>6. TypeOK' /\ RowsKept
  BY <1>1, <1>2, <1>3, <1>4, <1>5 DEF NumbersOK, RowsKept
<1>7. upd # UpdaterIdle
  BY UpdShape
<1> QED
  BY <1>1, <1>2, <1>4, <1>6, <1>7, KnownKept DEF Derived, Copy, KnownJobs

LEMMA UpdaterTypes ==
  ASSUME TypeOK, KnownJobs, UpdaterRun \/ UpdaterSteps
  PROVE  TypeOK' /\ KnownJobs' /\ RowsKept
<1> USE TypeParts DEF TypePartsOK
<1>0. upd.pc # "idle" => /\ Copy(upd.marker)
                         /\ \A s \in {"pendingSwap", "verifying", "verified", "rolledBack"} :
                              Copy([upd.marker EXCEPT !.state = s])
                         /\ upd.marker.attempts < MaxAttempts =>
                              Copy([upd.marker EXCEPT !.attempts = @ + 1])
                         /\ upd.marker.attempts \in 0..MaxAttempts
  BY UpdShape, NumbersAssumption DEF Copy, Markers
<1>1. CASE UpdaterRun
  <2>1. PICK m \in marker : Continue("swap", m) \/ Continue("verify", m)
    BY <1>1 DEF UpdaterRun
  <2>2. upd' \in UpdType /\ upd'.marker = m
    BY <2>1 DEF Continue, UpdType, UpdPcs, MarkersOK
  <2>3. TypeOK' /\ RowsKept
    BY <1>1, <2>2 DEF UpdaterRun, MarkersOK, SeenOK, NumbersOK, files, memory, history, RowsKept
  <2> QED
    BY <1>1, <2>2, <2>3, KnownKept DEF UpdaterRun, KnownJobs, files, memory, Derived
<1>2. CASE SwapBegin \/ VerifyBegin
  <2>0. upd.pc \in {"swap", "verify"} /\ UNCHANGED <<bin, exes, overdue, deadline, svc, memory, job, history>>
    BY <1>2 DEF SwapBegin, VerifyBegin, BeginAttempt
  <2>1. CASE upd.marker.attempts >= MaxAttempts
    <3>1. Continue("rollback", upd.marker) /\ UNCHANGED <<marker, raced>>
      BY <1>2, <2>1 DEF SwapBegin, VerifyBegin, BeginAttempt
    <3>2. Moves(upd.marker, upd.marker)
      BY <1>0, <2>0, <3>1 DEF Moves, UpdPcs, history, NumbersOK
    <3> QED
      BY <3>2, UpdaterStep
  <2>2. CASE ~(upd.marker.attempts >= MaxAttempts)
    <3> DEFINE m == [upd.marker EXCEPT !.attempts = @ + 1]
    <3>1. Copy(m)
      BY <1>0, <2>0, <2>2, NumbersAssumption
    <3>2. Save(m) /\ (Continue("stop", m) \/ Continue("takeback", m))
      BY <1>2, <2>2 DEF SwapBegin, VerifyBegin, BeginAttempt
    <3> HIDE DEF m
    <3>3. Moves(m, m)
      BY <2>0, <3>1, <3>2 DEF Moves, UpdPcs, Save, history, NumbersOK
    <3> QED
      BY <3>3, UpdaterStep
  <2> QED
    BY <2>1, <2>2
<1> USE <1>0 DEF Moves, UpdPcs, NumbersOK, Save, NoFault, Refused, LeftRunning, LeftPointed, files, history
<1> DEFINE Simple == Moves(upd.marker, upd.marker)
<1>3. CASE SwapStop
  <2>1. Simple
    BY <1>3 DEF SwapStop, StopService
  <2> QED
    BY <2>1, UpdaterStep
<1>4. CASE Switch
  <2>1. CASE upd.marker.target \notin exes
    <3>1. Simple
      BY <1>4, <2>1 DEF Switch
    <3> QED
      BY <3>1, UpdaterStep
  <2>2. CASE upd.marker.target \in exes
    <3> DEFINE m == [upd.marker EXCEPT !.state = "verifying"]
    <3>1. Copy(m)
      BY <1>4 DEF Switch
    <3>2. Save(m) /\ Continue("point", m) /\ deadline' = "ahead"
      BY <1>4, <2>2 DEF Switch
    <3> HIDE DEF m
    <3>3. Moves(m, m)
      BY <1>4, <3>1, <3>2 DEF Switch
    <3> QED
      BY <3>3, UpdaterStep
  <2> QED
    BY <2>1, <2>2
<1>5. CASE Point
  <2>1. upd.marker.target \in Versions
    BY <1>5 DEF Point, Copy, Markers
  <2>2. Simple
    BY <1>5, <2>1 DEF Point
  <2> QED
    BY <2>2, UpdaterStep
<1>6. CASE Start
  <2>1. Simple
    BY <1>6 DEF Start
  <2> QED
    BY <2>1, UpdaterStep
<1>7. CASE Undo \/ TakeBack
  <2>1. Simple
    BY <1>7 DEF Undo, TakeBack, StopService
  <2> QED
    BY <2>1, UpdaterStep
<1>8. CASE Unpoint \/ PointBack
  <2>1. upd.marker.from \in Versions
    BY <1>8 DEF Unpoint, PointBack, Copy, Markers
  <2>2. Simple
    BY <1>8, <2>1 DEF Unpoint, PointBack, PointedBack
  <2> QED
    BY <2>2, UpdaterStep
<1>9. CASE RollBack
  <2> DEFINE m == [upd.marker EXCEPT !.state = "rolledBack"]
  <2>1. Copy(m)
    BY <1>9 DEF RollBack
  <2>2. Save(m) /\ Continue("ensure", upd.marker)
    BY <1>9 DEF RollBack
  <2> HIDE DEF m
  <2>3. Moves(m, upd.marker)
    BY <1>9, <2>1, <2>2 DEF RollBack
  <2> QED
    BY <2>3, UpdaterStep
<1>10. CASE Ensure
  <2>1. Simple
    BY <1>10 DEF Ensure
  <2> QED
    BY <2>1, UpdaterStep
<1> QED
  BY <1>1, <1>2, <1>3, <1>4, <1>5, <1>6, <1>7, <1>8, <1>9, <1>10 DEF UpdaterSteps

\* The backend's own steps, time, and processes that end.
LEMMA OtherTypes ==
  ASSUME TypeOK, KnownJobs,
         Backend \/ BecomeOverdue \/ PassDeadline \/ UpdaterDies \/ ServiceDies \/ Boot
  PROVE  TypeOK' /\ KnownJobs' /\ RowsKept
<1> USE TypeParts DEF TypePartsOK
<1>1. CASE Backend
  <2>1. UNCHANGED <<bin, files, svc, memory, upd, history>>
    BY <1>1 DEF Backend, CreateJob, CloseJob
  <2>2. job' \in JobType /\ RowsKept
    <3>1. ASSUME NEW j \in Jobs, NEW v \in Versions, CreateJob(j, v) PROVE job' \in JobType /\ RowsKept
      <4>1. [state |-> "pending", target |-> v] \in Rows
        BY DEF Rows, OpenStates
      <4> QED
        BY <3>1, <4>1 DEF CreateJob, JobType, RowsKept
    <3>2. ASSUME NEW j \in Jobs, CloseJob(j) PROVE job' \in JobType /\ RowsKept
      <4>1. Reported(j, "failed") /\ job[j] # NoJob
        BY <3>2 DEF CloseJob, Reported, OpenJobs, OpenStates, NoJob
      <4> QED
        BY <4>1, ReportedType DEF ClosedStates, RowsKept
    <3> QED
      BY <1>1, <3>1, <3>2 DEF Backend
  <2>3. TypeOK'
    BY <2>1, <2>2 DEF MarkersOK, SeenOK, NumbersOK, files, memory, history
  <2> QED
    BY <2>1, <2>2, <2>3, KnownKept DEF KnownJobs, files, memory, Derived
<1>2. CASE BecomeOverdue \/ PassDeadline
  <2>1. TypeOK' /\ RowsKept
    BY <1>2 DEF BecomeOverdue, PassDeadline, MarkersOK, SeenOK, NumbersOK, memory, history, RowsKept
  <2> QED
    BY <1>2, <2>1, KnownKept DEF BecomeOverdue, PassDeadline, KnownJobs, memory, Derived
<1>3. CASE UpdaterDies \/ ServiceDies \/ Boot
  <2>1. svc' \in SvcType /\ (svc'.pc \in WithJobs => svc' = svc)
    BY <1>3, StartedType DEF UpdaterDies, ServiceDies, Boot, Started, Stopped, WithJobs
  <2>2. held' \subseteq held /\ SeenOK'
    BY <1>3, NumbersAssumption DEF UpdaterDies, ServiceDies, Boot, memory, NothingHeld, SeenOK
  <2>3. upd' \in UpdType /\ (upd' # UpdaterIdle => upd' = upd)
    BY <1>3 DEF UpdaterDies, ServiceDies, Boot, UpdType
  <2>4. UNCHANGED <<bin, files, job, astray, faults>> /\ crashes' \in 0..MaxCrashes
    BY <1>3, NumbersAssumption DEF UpdaterDies, ServiceDies, Boot, Crash, NumbersOK, history
  <2>5. TypeOK' /\ RowsKept
    BY <2>1, <2>2, <2>3, <2>4 DEF MarkersOK, NumbersOK, files, RowsKept
  <2> QED
    BY <2>1, <2>2, <2>3, <2>4, <2>5, KnownKept DEF KnownJobs, files, Derived
<1> QED
  BY <1>1, <1>2, <1>3

LEMMA TypeNext == TypeOK /\ KnownJobs /\ [Next]_vars => TypeOK' /\ KnownJobs' /\ RowsKept
<1> SUFFICES ASSUME TypeOK, KnownJobs, [Next]_vars PROVE TypeOK' /\ KnownJobs' /\ RowsKept
  OBVIOUS
<1>1. CASE UNCHANGED vars
  BY <1>1 DEF vars, TypeOK, KnownJobs, Known, RowsKept
<1>2. CASE Next
  BY <1>2, ServiceTypes, UpdaterTypes, OtherTypes DEF Next
<1> QED
  BY <1>1, <1>2

\* The service and the updater keep their types, and every marker is about a job the
\* backend has a row of, with the target it names (SelfUpdateService.cs, Updater.cs).
THEOREM TypeCorrect == Spec => []TypeOK
<1>1. Init => TypeOK /\ KnownJobs
  BY TypeInit DEF Init, KnownJobs, UpdaterIdle, WithJobs
<1> QED
  BY <1>1, TypeNext, PTL DEF Spec

-----------------------------------------------------------------------------
(* What holds of either process, raced or not, is kept.                    *)

\* A step of the service: it runs before and after, on the same version, and the updater
\* is not where the service must be stopped.
LEMMA ServiceFrame ==
  ASSUME TypeOK, Halted, Service
  PROVE  /\ IsRunning /\ IsRunning' /\ svc'.version = svc.version
         /\ upd.pc \notin HaltPcs /\ UNCHANGED <<bin, upd, astray, faults, crashes>>
<1> USE TypeParts DEF TypePartsOK
<1>1. IsRunning /\ UNCHANGED <<bin, upd, astray, faults, crashes>>
  BY DEF Service, Collect, ConfirmSelf, Flush, FlushFails, Outcome, Report, ReportLost, Settle,
         CleanUp, AcceptNothing, AcceptCurrent, Stage, StageFails, Announce, AnnounceFails,
         ReportNotPrepared, At, history
<1>2. \E pc : Goto(pc) \/ \E J : GotoWith(pc, J)
  BY DEF Service, Collect, ConfirmSelf, Flush, FlushFails, Outcome, Report, ReportLost, Settle,
         CleanUp, AcceptNothing, AcceptCurrent, Stage, StageFails, Announce, AnnounceFails,
         ReportNotPrepared
<1>3. svc'.version = svc.version /\ IsRunning'
  BY <1>2 DEF Goto, GotoWith, IsRunning, Stopped
<1> QED
  BY <1>1, <1>3 DEF Halted, IsRunning

LEMMA ServiceSound ==
  ASSUME TypeOK, KnownJobs, RowsKept, Sound, Service
  PROVE  Sound'
<1> USE TypeParts, ServiceFrame DEF TypePartsOK, Sound
<1>1. RunsBin' /\ Halted' /\ TargetThere' /\ CopyStates'
  BY DEF RunsBin, Halted, TargetThere, HaltPcs, CopyStates
<1>2. Confirming'
  BY DEF Confirming, Service, Collect, ConfirmSelf, Flush, FlushFails, Outcome, Report, ReportLost,
         Settle, CleanUp, AcceptNothing, AcceptCurrent, Stage, StageFails, Announce, AnnounceFails,
         ReportNotPrepared, Goto, GotoWith
<1>3. OneJob'
  BY DEF OneJob, Service, Collect, ConfirmSelf, Flush, FlushFails, Outcome, Report, ReportLost,
         Settle, CleanUp, AcceptNothing, AcceptCurrent, Stage, StageFails, Announce, AnnounceFails,
         ReportNotPrepared, Goto, GotoWith, At, WithJobs
<1>4. Announcing'
  <2>1. CASE Stage
    BY <2>1 DEF Stage, MayPrepare, GotoWith, Announcing, OneJob, At, WithJobs
  <2>2. CASE ~Stage
    BY <2>2 DEF Announcing, Service, Collect, ConfirmSelf, Flush, FlushFails, Outcome, Report,
         ReportLost, Settle, CleanUp, AcceptNothing, AcceptCurrent, StageFails, Announce,
         AnnounceFails, ReportNotPrepared, Goto, GotoWith
  <2> QED
    BY <2>1, <2>2
<1> QED
  BY <1>1, <1>2, <1>3, <1>4

\* What a step of the updater does to the service and its memory.
LEMMA UpdaterFrame ==
  ASSUME UpdaterRun \/ UpdaterSteps
  PROVE  /\ svc' \in {svc, Stopped, Started} /\ (held' = held \/ held' = {})
         /\ UNCHANGED <<exes, job, crashes, raced, overdue>> /\ astray \subseteq astray'
BY DEF UpdaterRun, UpdaterSteps, SwapBegin, VerifyBegin, BeginAttempt, SwapStop, Switch, Point,
       Start, Undo, Unpoint, TakeBack, PointBack, RollBack, Ensure, StopService, NothingHeld,
       Save, files, memory, history

LEMMA UpdaterSound ==
  ASSUME TypeOK, KnownJobs, Sound, UpdaterRun \/ UpdaterSteps
  PROVE  Sound'
<1> USE TypeParts DEF TypePartsOK, Sound
<1>0. upd.pc # "idle" => upd.marker \in Markers
  BY UpdShape
<1>1. Confirming' /\ OneJob' /\ Announcing'
  BY UpdaterFrame DEF Confirming, OneJob, Announcing, Started, Stopped, WithJobs
<1>2. CASE UpdaterRun
  <2>1. RunsBin' /\ Halted' /\ TargetThere' /\ CopyStates'
    BY <1>2, UpdaterFrame DEF UpdaterRun, Expired, Continue, RunsBin, IsRunning, Halted, TargetThere, HaltPcs,
                CopyStates, Swapping, Turning
  <2> QED
    BY <1>1, <2>1
<1>3. CASE SwapBegin \/ VerifyBegin
  <2> DEFINE m == [upd.marker EXCEPT !.attempts = @ + 1]
  <2>1. m.state = upd.marker.state
    BY <1>0, <1>3 DEF SwapBegin, VerifyBegin, BeginAttempt, Markers
  <2>2. /\ UNCHANGED <<bin, svc>>
        /\ \/ upd.pc \in {"swap", "verify"} /\ Continue("rollback", upd.marker)
           \/ upd.pc = "swap" /\ Continue("stop", m)
           \/ upd.pc = "verify" /\ Continue("takeback", m)
    BY <1>3 DEF SwapBegin, VerifyBegin, BeginAttempt
  <2> HIDE DEF m
  <2>3. \/ /\ upd.pc \in {"swap", "verify"} /\ upd'.pc = "rollback"
           /\ upd'.marker.state = upd.marker.state
        \/ upd.pc = "swap" /\ upd'.pc = "stop" /\ upd'.marker.state = upd.marker.state
        \/ upd.pc = "verify" /\ upd'.pc = "takeback" /\ upd'.marker.state = upd.marker.state
    BY <2>1, <2>2 DEF Continue
  <2>4. RunsBin' /\ Halted' /\ TargetThere' /\ CopyStates'
    BY <2>2, <2>3, UpdaterFrame
       DEF RunsBin, IsRunning, Halted, TargetThere, HaltPcs, CopyStates, Swapping, Turning
  <2> QED
    BY <1>1, <2>4
<1>4. CASE SwapStop \/ Switch
  <2> DEFINE m == [upd.marker EXCEPT !.state = "verifying"]
  <2>1. m.state = "verifying" /\ m.target = upd.marker.target
    BY <1>0, <1>4 DEF SwapStop, Switch, Markers
  <2>2. /\ UNCHANGED <<bin, exes>>
        /\ \/ svc' = Stopped /\ upd.pc = "stop" /\ Continue("switch", upd.marker)
           \/ svc' = svc /\ Continue("ensure", upd.marker)
           \/ svc' = svc /\ upd.pc = "switch" /\ Continue("rollback", upd.marker)
           \/ svc' = svc /\ upd.pc = "switch" /\ upd.marker.target \in exes /\ Continue("point", m)
    BY <1>4 DEF SwapStop, Switch, StopService
  <2> HIDE DEF m
  <2>3. \/ svc' = Stopped /\ upd.pc = "stop" /\ upd'.pc = "switch" /\ upd'.marker = upd.marker
        \/ svc' = svc /\ upd'.pc = "ensure"
        \/ svc' = svc /\ upd.pc = "switch" /\ upd'.pc = "rollback" /\ upd'.marker = upd.marker
        \/ /\ svc' = svc /\ upd.pc = "switch" /\ upd'.pc = "point" /\ upd.marker.target \in exes
           /\ upd'.marker.state = "verifying" /\ upd'.marker.target = upd.marker.target
    BY <2>1, <2>2 DEF Continue
  <2>4. RunsBin' /\ Halted' /\ TargetThere' /\ CopyStates'
    BY <2>2, <2>3, UpdaterFrame
       DEF RunsBin, IsRunning, Halted, TargetThere, HaltPcs, CopyStates, Swapping, Turning
  <2> QED
    BY <1>1, <2>4
<1>5. CASE Point \/ Start
  <2>1. RunsBin' /\ Halted' /\ TargetThere' /\ CopyStates'
    BY <1>5 DEF Point, Start, Started, Continue, RunsBin, IsRunning, Halted,
                TargetThere, HaltPcs, CopyStates, Swapping, Turning
  <2> QED
    BY <1>1, <2>1
<1>6. CASE Undo \/ TakeBack
  <2>1. (StopService \/ svc' = svc) /\ UNCHANGED <<bin, astray>>
    BY <1>6 DEF Undo, TakeBack
  <2>2. RunsBin' /\ Halted' /\ TargetThere' /\ CopyStates'
    BY <1>6, <2>1 DEF Undo, TakeBack, StopService, Continue, RunsBin, IsRunning, Halted,
                TargetThere, HaltPcs, CopyStates, Swapping, Turning
  <2> QED
    BY <1>1, <2>2
<1>7. CASE Unpoint \/ PointBack
  <2>1. /\ UNCHANGED svc
        /\ \/ bin' = bin /\ astray \subseteq astray'
           \/ bin' = upd.marker.from /\ astray' = astray \cup LeftRunning
    BY <1>7 DEF Unpoint, PointBack, PointedBack
  <2>2. RunsBin'
    BY <2>1 DEF RunsBin, IsRunning, LeftRunning
  <2>3. Halted' /\ TargetThere' /\ CopyStates'
    BY <1>7, <2>1 DEF Unpoint, PointBack, Continue, Halted, TargetThere, HaltPcs, CopyStates,
                      Swapping, Turning
  <2> QED
    BY <1>1, <2>2, <2>3
<1>8. CASE RollBack \/ Ensure
  <2>1. RunsBin' /\ Halted' /\ TargetThere' /\ CopyStates'
    BY <1>8, UpdaterFrame DEF RollBack, Ensure, Started, Stopped, UpdaterIdle, Continue, RunsBin, IsRunning, Halted,
                TargetThere, HaltPcs, CopyStates, Swapping, Turning
  <2> QED
    BY <1>1, <2>1
<1> QED
  BY <1>2, <1>3, <1>4, <1>5, <1>6, <1>7, <1>8 DEF UpdaterSteps

LEMMA OtherSound ==
  ASSUME TypeOK, KnownJobs, RowsKept, Sound,
         Backend \/ BecomeOverdue \/ PassDeadline \/ UpdaterDies \/ ServiceDies \/ Boot
  PROVE  Sound'
<1> USE TypeParts DEF TypePartsOK, Sound
<1>1. CASE Backend \/ BecomeOverdue \/ PassDeadline
  <2>1. UNCHANGED <<bin, exes, svc, held, upd, astray>>
    BY <1>1 DEF Backend, CreateJob, CloseJob, BecomeOverdue, PassDeadline, files, memory, history
  <2>2. svc.pc = "announce" => svc.jobs \subseteq Jobs
    BY DEF SvcType, Stopped, WithJobs
  <2> QED
    BY <2>1, <2>2 DEF RunsBin, IsRunning, Halted, TargetThere, CopyStates, Confirming, OneJob,
                 Announcing, KnownJobs, RowsKept, WithJobs
<1>2. CASE UpdaterDies \/ ServiceDies \/ Boot
  <2>1. /\ UNCHANGED <<bin, exes, job, astray>> /\ upd' \in {upd, UpdaterIdle}
        /\ (svc' = svc /\ held' = held) \/ (svc' = Started /\ held' = {})
    BY <1>2 DEF UpdaterDies, ServiceDies, Boot, files, memory, history, NothingHeld
  <2>2. upd' # UpdaterIdle /\ upd.pc \in HaltPcs => svc' = svc
    BY <1>2 DEF UpdaterDies, ServiceDies, Boot, Halted, IsRunning, HaltPcs, UpdaterIdle
  <2> QED
    BY <2>1, <2>2 DEF RunsBin, IsRunning, Halted, TargetThere, CopyStates, Confirming, OneJob,
                 Announcing, Started, Stopped, UpdaterIdle, HaltPcs, Swapping, Turning, WithJobs
<1> QED
  BY <1>1, <1>2

-----------------------------------------------------------------------------
(* What holds as long as they have not raced is kept.                      *)

LEMMA ServiceFine ==
  ASSUME IInv, Service, OneVersion'
  PROVE  OneVersion /\ Fine'
<1>a. Racing \/ raced' = raced
  BY DEF Service, Collect, ConfirmSelf, Flush, FlushFails, Outcome, Report, ReportLost, Settle,
         CleanUp, AcceptNothing, AcceptCurrent, Stage, StageFails, Announce, AnnounceFails,
         ReportNotPrepared, files
<1>b. ~raced
  BY <1>a, Zenon DEF Racing, OneVersion
<1> USE TypeParts, ServiceFrame DEF TypePartsOK, IInv, Sound
<1>0. OneVersion /\ ~raced /\ "service" \notin astray /\ Fine
  BY <1>b DEF OneVersion
<1>c. ~raced'
  BY DEF OneVersion
<1> USE <1>0, <1>c DEF Fine
<1>1. CASE Collect \/ Flush \/ FlushFails \/ Report \/ ReportLost \/ AcceptNothing
           \/ AcceptCurrent \/ Announce \/ ReportNotPrepared
  <2>1. UNCHANGED <<exes, marker>> /\ svc'.pc \notin {"announce", "report", "cleanup"}
    BY <1>1 DEF Collect, Flush, FlushFails, Report, ReportLost, AcceptNothing, AcceptCurrent,
                Announce, ReportNotPrepared, files, Goto, GotoWith
  <2> QED
    BY <2>1 DEF Way, Shared, UpdaterBusy, Pointed, AnnouncedFrom, Reporting, Cleaning
<1>2. CASE ConfirmSelf
  <2>1. marker = held /\ ~UpdaterBusy /\ svc'.pc = "flush"
    BY <1>2 DEF ConfirmSelf, Racing, Goto
  <2>2. \A m \in held : /\ [m EXCEPT !.state = "verified"].state = "verified"
                        /\ [m EXCEPT !.state = "verified"].target = m.target
    BY DEF MarkersOK, Markers
  <2>3. \A n \in marker' : n.state = "verified" /\ n.target = bin
    <3> SUFFICES ASSUME NEW n \in marker' PROVE n.state = "verified" /\ n.target = bin
      OBVIOUS
    <3>1. PICK m \in held : n = [m EXCEPT !.state = "verified"]
      BY <1>2 DEF ConfirmSelf
    <3> QED
      BY <1>2, <2>2, <3>1 DEF ConfirmSelf, At, Confirming, RunsBin
  <2> QED
    BY <1>2, <2>1, <2>3 DEF ConfirmSelf, Way, Shared, UpdaterBusy, Pointed, AnnouncedFrom, Reporting, Cleaning
<1>3. CASE Outcome
  BY <1>3 DEF Outcome, GotoWith, MarkersOK, files, memory, Way, Shared, UpdaterBusy, Pointed,
              AnnouncedFrom, Reporting, Cleaning
<1>4. CASE Settle
  BY <1>4 DEF Settle, Racing, GotoWith, Way, Shared, UpdaterBusy, Pointed, AnnouncedFrom,
              Reporting, Cleaning
<1>5. CASE CleanUp
  BY <1>5 DEF CleanUp, At, Kept, GotoWith, RunsBin, Way, Shared, UpdaterBusy, Pointed, AnnouncedFrom,
              Reporting, Cleaning
<1>6. CASE Stage
  BY <1>6 DEF Stage, MayPrepare, GotoWith, RunsBin, Way, Shared, UpdaterBusy, Pointed, AnnouncedFrom,
              Reporting, Cleaning
<1>7. CASE StageFails
  BY <1>7 DEF StageFails, MayPrepare, Discarded, GotoWith, RunsBin, Way, Shared, UpdaterBusy, Pointed,
              AnnouncedFrom, Reporting, Cleaning
<1>8. CASE AnnounceFails
  BY <1>8 DEF AnnounceFails, Announcing, Discarded, At, GotoWith, RunsBin, Way, Shared, UpdaterBusy,
              Pointed, AnnouncedFrom, Reporting, Cleaning
<1> QED
  BY <1>1, <1>2, <1>3, <1>4, <1>5, <1>6, <1>7, <1>8 DEF Service

\* What the updater has in hand is not confirmed.
LEMMA Unconfirmed ==
  ASSUME TypeOK, CopyStates, UpdaterBusy
  PROVE  upd.marker.state # "verified"
<1>1. upd \in UpdType /\ upd # UpdaterIdle
  BY TypeParts DEF TypePartsOK, UpdaterBusy, UpdaterIdle
<1>2. upd.pc \in Swapping \cup Turning \cup {"rollback"}
  BY <1>1 DEF UpdType, UpdPcs, UpdaterBusy, Swapping, Turning
<1> QED
  BY <1>2 DEF CopyStates

\* The updater saves its copy, counted up or in the same state, over the marker it is.
LEMMA SavedCopy ==
  ASSUME Fine, UpdaterBusy, upd.marker.state # "verified", NEW m, m.from = upd.marker.from, m.target = upd.marker.target,
         m.state = upd.marker.state, marker' \in {marker, {m}}, upd'.marker = m, marker' = {m} \/ m = upd.marker,
         svc' \in {svc, Stopped}, held' = held \/ held' = {}, UNCHANGED <<bin, exes>>
  PROVE  Fine'
<1>1. marker = {upd.marker}
  BY DEF Fine, Shared
<1>2. marker' = {m}
  BY <1>1
<1> QED
  BY <1>1, <1>2 DEF Fine, Way, Shared, Pointed, AnnouncedFrom, Reporting, Cleaning, Stopped

LEMMA UpdaterFine ==
  ASSUME IInv, UpdaterRun \/ UpdaterSteps, OneVersion'
  PROVE  OneVersion /\ Fine'
<1> USE TypeParts DEF TypePartsOK, IInv, Sound
<1>0. OneVersion /\ ~raced /\ Fine
  BY UpdaterFrame DEF OneVersion
<1>a. upd.pc # "idle" => upd.marker \in Markers
  BY UpdShape
<1> USE <1>0
<1>1. CASE UpdaterRun
  <2>1. PICK m \in marker : upd' = [pc |-> "swap", marker |-> m] \/ upd' = [pc |-> "verify", marker |-> m]
    BY <1>1 DEF UpdaterRun, Continue
  <2>2. marker = {m} /\ upd'.marker = m /\ UNCHANGED <<bin, marker, exes, svc, held>>
    BY <1>1, <2>1 DEF MarkersOK, UpdaterRun, files, memory
  <2> QED
    BY <2>2 DEF Fine, Way, Shared, Pointed, AnnouncedFrom, Reporting, Cleaning
<1>2. CASE SwapBegin \/ VerifyBegin
  <2> DEFINE m == [upd.marker EXCEPT !.attempts = @ + 1]
  <2>0. UpdaterBusy /\ UNCHANGED <<bin, exes, svc, held>>
    BY <1>2 DEF SwapBegin, VerifyBegin, BeginAttempt, UpdaterBusy, memory
  <2>1. m.state = upd.marker.state /\ m.from = upd.marker.from /\ m.target = upd.marker.target
    BY <1>a, <2>0 DEF UpdaterBusy, Markers
  <2>2. \/ upd'.marker = upd.marker /\ UNCHANGED marker
        \/ upd'.marker = m /\ marker' = {m}
    BY <1>2 DEF SwapBegin, VerifyBegin, BeginAttempt, Continue, Save
  <2> HIDE DEF m
  <2> QED
    BY <2>0, <2>1, <2>2, SavedCopy, Unconfirmed
<1>3. CASE SwapStop
  <2>1. /\ UpdaterBusy /\ UNCHANGED <<bin, exes>> /\ upd'.marker = upd.marker
        /\ marker' \in {marker, {upd.marker}} /\ svc' \in {svc, Stopped} /\ (held' = held \/ held' = {})
    BY <1>3 DEF SwapStop, StopService, NothingHeld, UpdaterBusy, Continue, Save, memory
  <2> QED
    BY <2>1, SavedCopy, Unconfirmed
<1>4. CASE Switch
  <2> DEFINE m == [upd.marker EXCEPT !.state = "verifying"]
  <2>0. UpdaterBusy /\ UNCHANGED <<bin, exes, svc, held>> /\ svc = Stopped
    BY <1>4 DEF Switch, UpdaterBusy, memory, Halted, HaltPcs
  <2>1. m.state = "verifying" /\ m.from = upd.marker.from
    BY <1>a, <2>0 DEF UpdaterBusy, Markers
  <2>2. \/ upd'.marker = upd.marker /\ UNCHANGED marker
        \/ upd'.marker = m /\ marker' = {m}
    BY <1>4 DEF Switch, Continue, Save
  <2>3. marker = {upd.marker} /\ upd.marker.state = "pendingSwap"
    BY <1>4, <2>0 DEF Fine, Shared, Switch, CopyStates, Swapping
  <2> HIDE DEF m
  <2> QED
    BY <2>0, <2>1, <2>2, <2>3
       DEF Fine, Way, Shared, Pointed, AnnouncedFrom, Reporting, Cleaning, Stopped
<1>5. CASE Point \/ Unpoint \/ PointBack
  <2>0. UpdaterBusy /\ UNCHANGED <<exes, svc, held>> /\ upd'.marker = upd.marker
    BY <1>5 DEF Point, Unpoint, PointBack, UpdaterBusy, Continue, memory, files
  <2>1. marker = {upd.marker} /\ upd.marker.state = "verifying"
    BY <1>5, <2>0 DEF Fine, Shared, Point, Unpoint, PointBack, CopyStates, Turning
  <2>2. marker' = marker
    BY <1>5, <2>1 DEF Point, Unpoint, PointBack, Save, files
  <2>3. bin' \in {bin, upd.marker.from, upd.marker.target}
        /\ (bin' = bin \/ bin' = upd.marker.from \/ upd.pc = "point")
    BY <1>5 DEF Point, Unpoint, PointBack, PointedBack
  <2>4. bin' \in exes
    BY <2>1, <2>3 DEF Fine, Way, TargetThere
  <2>5. Reporting'
    BY <2>0, <2>1, <2>2 DEF Fine, Reporting
  <2> QED
    BY <2>0, <2>1, <2>2, <2>4, <2>5 DEF Fine, Way, Shared, Pointed, AnnouncedFrom, Cleaning
<1>6. CASE Start \/ Undo \/ TakeBack
  <2>1. UpdaterBusy /\ UNCHANGED <<bin, exes, marker>> /\ upd'.marker = upd.marker
    BY <1>6 DEF Start, Undo, TakeBack, UpdaterBusy, Continue, files
  <2> QED
    BY <2>1, UpdaterFrame
       DEF Fine, Way, Shared, Pointed, AnnouncedFrom, Reporting, Cleaning, Stopped, Started
<1>7. CASE RollBack
  <2> DEFINE m == [upd.marker EXCEPT !.state = "rolledBack"]
  <2>0. UpdaterBusy /\ UNCHANGED <<bin, exes, svc, held>> /\ ~UpdaterBusy' /\ marker' = {m}
    BY <1>7 DEF RollBack, UpdaterBusy, Continue, Save, memory
  <2>1. m.state = "rolledBack" /\ m.from = upd.marker.from /\ marker = {upd.marker}
    BY <1>a, <2>0 DEF UpdaterBusy, Markers, Fine, Shared
  <2> HIDE DEF m
  <2> QED
    BY <2>0, <2>1, Unconfirmed DEF Fine, Way, Shared, Pointed, AnnouncedFrom, Reporting, Cleaning
<1>8. CASE Ensure
  <2>1. UNCHANGED <<bin, exes, marker, held>> /\ ~UpdaterBusy'
    BY <1>8 DEF Ensure, UpdaterBusy, UpdaterIdle, files, memory
  <2> QED
    BY <2>1, UpdaterFrame
       DEF Fine, Way, Shared, Pointed, AnnouncedFrom, Reporting, Cleaning, Stopped, Started
<1> QED
  BY <1>1, <1>2, <1>3, <1>4, <1>5, <1>6, <1>7, <1>8 DEF UpdaterSteps

LEMMA OtherFine ==
  ASSUME IInv, Backend \/ BecomeOverdue \/ PassDeadline \/ UpdaterDies \/ ServiceDies \/ Boot,
         OneVersion'
  PROVE  OneVersion /\ Fine'
<1>1. /\ UNCHANGED <<bin, exes, marker, raced, astray>> /\ upd' \in {upd, UpdaterIdle}
      /\ (svc' = svc /\ held' = held) \/ svc' = Started
  BY DEF Backend, CreateJob, CloseJob, BecomeOverdue, PassDeadline, UpdaterDies, ServiceDies, Boot,
         files, memory, history
<1> QED
  BY <1>1 DEF IInv, OneVersion, Fine, Way, Shared, UpdaterBusy, UpdaterIdle, Pointed, AnnouncedFrom, Reporting,
              Cleaning, Started, Stopped

LEMMA InvInit == Init => IInv
<1> SUFFICES ASSUME Init PROVE IInv
  OBVIOUS
<1>1. TypeOK /\ KnownJobs
  BY TypeInit DEF Init, KnownJobs, UpdaterIdle, WithJobs
<1>2. Sound
  BY DEF Init, Sound, RunsBin, Halted, TargetThere, HaltPcs, CopyStates, Swapping, Turning,
         Confirming, OneJob, Announcing, UpdaterIdle, WithJobs
<1>3. Fine
  BY DEF Init, Fine, Way, Shared, UpdaterBusy, UpdaterIdle, Pointed, AnnouncedFrom, Reporting, Cleaning
<1> QED
  BY <1>1, <1>2, <1>3 DEF IInv

LEMMA InvNext ==
  ASSUME IInv, [Next]_vars
  PROVE  IInv' /\ (OneVersion' => OneVersion)
<1>1. TypeOK' /\ KnownJobs' /\ RowsKept
  BY TypeNext DEF IInv
<1>2. CASE UNCHANGED vars
  <2>1. Sound' /\ (Fine => Fine') /\ UNCHANGED <<raced, astray>>
    BY <1>2 DEF vars, IInv, Sound, RunsBin, IsRunning, Halted, TargetThere, HaltPcs, CopyStates,
         Confirming, OneJob, Announcing, Fine, Way, Shared, UpdaterBusy, Pointed, AnnouncedFrom,
         Reporting, Cleaning
  <2> QED
    BY <1>1, <2>1 DEF IInv, OneVersion
<1>3. CASE Next
  <2>1. Sound'
    BY <1>1, <1>3, ServiceSound, UpdaterSound, OtherSound DEF IInv, Next
  <2>2. OneVersion' => OneVersion /\ Fine'
    BY <1>3, ServiceFine, UpdaterFine, OtherFine DEF Next
  <2> QED
    BY <1>1, <2>1, <2>2 DEF IInv
<1> QED
  BY <1>2, <1>3

\* The executable the service points at is never deleted by a clean-up, a failed download
\* or a given-up update (SelfUpdateService.CleanUp, PrepareAsync).
THEOREM ExeStays == Spec => []ExeInPlace
<1>1. IInv => ExeInPlace
  BY DEF IInv, Fine, ExeInPlace
<1>2. Init => IInv
  BY InvInit
<1>3. IInv /\ [Next]_vars => IInv'
  BY InvNext
<1> QED
  BY <1>1, <1>2, <1>3, PTL DEF Spec

\* The version to go back to is there as long as the update may have to be taken back.
THEOREM WayStays == Spec => []WayBack
<1>1. IInv => WayBack
  BY DEF IInv, Fine, Way, WayBack
<1>2. Init => IInv
  BY InvInit
<1>3. IInv /\ [Next]_vars => IInv'
  BY InvNext
<1> QED
  BY <1>1, <1>2, <1>3, PTL DEF Spec

\* No step but a report of what is installed makes a job done.
LEMMA DoneStep ==
  ASSUME IInv, OneVersion, Next, NEW j \in Jobs, job'[j].state = "done", job[j].state # "done"
  PROVE  bin = job[j].target
<1> USE TypeParts DEF TypePartsOK, IInv, Sound, OneVersion
<1>1. CASE Backend
  <2>1. ASSUME NEW k \in Jobs, NEW v \in Versions, CreateJob(k, v) PROVE FALSE
    BY <2>1 DEF CreateJob, JobType
  <2>2. ASSUME NEW k \in Jobs, CloseJob(k) PROVE FALSE
    <3>1. job[k] \in Rows
      BY <2>2 DEF CloseJob, OpenJobs, JobType, NoJob, OpenStates
    <3>2. [job[k] EXCEPT !.state = "failed"].state = "failed"
      BY <3>1 DEF Rows
    <3> HIDE DEF Rows
    <3> QED
      BY <2>2, <3>2 DEF CloseJob, JobType
  <2> QED
    BY <1>1, <2>1, <2>2 DEF Backend
<1>2. CASE Flush
  <2>1. PICK J : Deliver(J)
    BY <1>2 DEF Flush
  <2>2. job[j].state = "pending" => [job[j] EXCEPT !.state = "delivered"].state = "delivered"
    BY DEF JobType, NoJob, Rows
  <2> QED
    BY <2>1, <2>2 DEF Deliver
<1>3. CASE Report \/ ReportLost
  <2>1. PICK m \in held : ReportFails(m.job, Result(m)) \/ Reported(m.job, Result(m))
    BY <1>3 DEF Report, ReportLost
  <2>2. m.job \in Jobs /\ Known(m) /\ Result(m) \in OpenStates \cup ClosedStates
    BY DEF MarkersOK, Markers, KnownJobs, Result, ClosedStates
  <2>3. j = m.job /\ Result(m) = "done"
    BY <2>1, <2>2, ReportedType DEF Known
  <2>4. m.state = "verified" /\ svc.pc = "report"
    BY <1>3, <2>3 DEF Result, Report, ReportLost, At
  <2> QED
    BY <2>2, <2>3, <2>4 DEF Fine, Reporting, Known
<1>4. CASE AcceptCurrent
  <2>1. PICK k \in svc.jobs : job[k].target = svc.version /\ (Reported(k, "done") \/ ReportFails(k, "done"))
    BY <1>4 DEF AcceptCurrent
  <2>2. IsRunning /\ svc.pc \in WithJobs
    BY <1>4 DEF AcceptCurrent, At, WithJobs
  <2>3. k \in Jobs /\ job[k] # NoJob
    BY <2>2, SvcShape DEF KnownJobs
  <2>4. j = k
    BY <2>1, <2>3, ReportedType DEF ClosedStates
  <2> QED
    BY <2>1, <2>2, <2>4 DEF RunsBin
<1>5. CASE Announce \/ AnnounceFails \/ ReportNotPrepared
  <2>1. PICK k \in svc.jobs, s \in {"installing", "failed"} : Reported(k, s) \/ ReportFails(k, s)
    BY <1>5 DEF Announce, AnnounceFails, ReportNotPrepared
  <2>2. IsRunning /\ svc.pc \in WithJobs
    BY <1>5 DEF Announce, AnnounceFails, ReportNotPrepared, At, WithJobs
  <2>3. k \in Jobs /\ job[k] # NoJob
    BY <2>2, SvcShape DEF KnownJobs
  <2> QED
    BY <2>1, <2>3, ReportedType DEF ClosedStates, OpenStates
<1>6. CASE job' = job
  BY <1>6
<1>7. Backend \/ Flush \/ Report \/ ReportLost \/ AcceptCurrent \/ Announce \/ AnnounceFails
      \/ ReportNotPrepared \/ job' = job
  BY UpdaterFrame DEF Next, Service, Collect, ConfirmSelf, FlushFails, Outcome, Settle, CleanUp,
     AcceptNothing, Stage, StageFails, BecomeOverdue, PassDeadline, UpdaterDies, ServiceDies, Boot
<1> QED
  BY <1>1, <1>2, <1>3, <1>4, <1>5, <1>6, <1>7

\* A job becomes done only while the device points at the version the job names
\* (SelfUpdateService.ReportPendingOutcomeAsync, PrepareAsync).
THEOREM DoneIsInstalled == Spec => DoneMeansInstalled
<1> DEFINE Step == OneVersion => \A j \in Jobs : job'[j].state = "done" /\ job[j].state # "done"
                                                  => bin = job[j].target
<1>1. IInv /\ [Next]_vars => [Step]_vars
  BY DoneStep
<1>2. Init => IInv
  BY InvInit
<1>3. IInv /\ [Next]_vars => IInv'
  BY InvNext
<1> QED
  BY <1>1, <1>2, <1>3, PTL DEF Spec, DoneMeansInstalled

-----------------------------------------------------------------------------
(* Rolled back means gone back, while the attempts last.                   *)

\* What the arithmetic of Spent needs.
LEMMA Numbers ==
  ASSUME AttemptsLast, TypeOK, NEW m \in Markers
  PROVE  /\ \A n \in 0..1 : Spent(m, n) => m.attempts < MaxAttempts /\ Spent(m, n + 1)
         /\ m.attempts \in Nat /\ faults \in Nat /\ crashes \in Nat
<1>1. m.attempts \in Nat /\ faults \in 0..MaxFaults /\ crashes \in 0..MaxCrashes
  BY NumbersAssumption DEF Markers, TypeOK
<1> QED
  BY <1>1, NumbersAssumption DEF AttemptsLast, Spent

\* A marker the service writes is confirmed, or a new one without an attempt.
LEMMA ServiceBack ==
  ASSUME IInv, BInv, Service, Calm'
  PROVE  Counted' /\ Returned'
<1> USE TypeParts DEF TypePartsOK, IInv, Sound
<1>0. ~raced /\ Fine /\ Counted /\ Returned /\ UNCHANGED <<bin, upd, faults, crashes>>
  BY ServiceFine, ServiceFrame DEF BInv, Calm, OneVersion, AttemptsLast
<1>d. ~raced'
  BY DEF Calm
<1>1. CASE UNCHANGED marker
  BY <1>0, <1>1 DEF Counted, Returned, Spent, UpdaterBusy
<1>2. CASE ConfirmSelf \/ Settle
  <2>1. ~UpdaterBusy
    BY <1>0, <1>2, <1>d, Zenon DEF ConfirmSelf, Settle, Racing
  <2>2. \A m \in held : [m EXCEPT !.state = "verified"].state = "verified"
    BY DEF MarkersOK, Markers
  <2>3. \A n \in marker' : n.state = "verified"
    <3> SUFFICES ASSUME NEW n \in marker' PROVE n.state = "verified"
      OBVIOUS
    <3>1. \E m \in held : n = [m EXCEPT !.state = "verified"]
      BY <1>2 DEF ConfirmSelf, Settle
    <3> QED
      BY <2>2, <3>1
  <2> QED
    BY <1>0, <2>1, <2>3 DEF Counted, Returned, UpdaterBusy
<1>3. CASE Stage
  <2>1. marker = {} /\ \A m \in marker' : m.state = "pendingSwap" /\ m.attempts = 0
    BY <1>3 DEF Stage, MayPrepare
  <2>2. ~UpdaterBusy
    BY <1>0, <2>1 DEF Fine, Shared
  <2>3. faults \in Nat /\ crashes \in Nat
    BY NumbersAssumption DEF NumbersOK
  <2> QED
    BY <1>0, <2>1, <2>2, <2>3 DEF Counted, Returned, Spent, UpdaterBusy
<1> QED
  BY <1>1, <1>2, <1>3
     DEF Service, Collect, Flush, FlushFails, Outcome, Report, ReportLost, CleanUp, AcceptNothing,
         AcceptCurrent, StageFails, Announce, AnnounceFails, ReportNotPrepared, files

\* Attempts that last after a fault have lasted before.
LEMMA AttemptsLasted ==
  ASSUME faults \in Nat, crashes \in Nat, faults' \in {faults, faults + 1}, crashes' = crashes,
         AttemptsLast'
  PROVE  AttemptsLast
<1>1. faults' \in Nat /\ crashes' \in Nat /\ MaxAttempts \in Nat
  BY NumbersAssumption
<1>2. faults' + crashes' + 2 <= MaxAttempts
  BY DEF AttemptsLast
<1>3. CASE faults' = faults
  BY <1>1, <1>2, <1>3 DEF AttemptsLast
<1>4. CASE faults' = faults + 1
  BY <1>1, <1>2, <1>4 DEF AttemptsLast
<1> QED
  BY <1>3, <1>4

LEMMA UpdaterBack ==
  ASSUME IInv, BInv, UpdaterRun \/ UpdaterSteps, Calm'
  PROVE  Counted' /\ Returned'
<1> USE TypeParts DEF TypePartsOK, IInv, Sound
<1>b. faults \in Nat /\ crashes \in Nat
  BY NumbersAssumption DEF NumbersOK
<1>0. ~raced /\ Fine /\ Calm /\ Counted /\ Returned /\ crashes' = crashes
  <2>1. faults' \in {faults, faults + 1} /\ crashes' = crashes
    BY UpdaterFrame DEF UpdaterRun, UpdaterSteps, SwapBegin, VerifyBegin, BeginAttempt, SwapStop,
       Switch, Point, Start, Undo, Unpoint, TakeBack, PointBack, RollBack, Ensure, Refused, NoFault,
       history
  <2>2. AttemptsLast'
    BY DEF Calm
  <2>3. AttemptsLast
    BY <1>b, <2>1, <2>2, AttemptsLasted
  <2> QED
    BY <2>1, <2>3, UpdaterFine, UpdaterFrame DEF BInv, Calm, OneVersion
<1>a. upd.pc # "idle" => upd.marker \in Markers
  BY UpdShape
<1>c. UpdaterBusy => marker = {upd.marker}
  BY <1>0 DEF Fine, Shared
<1>1. CASE UpdaterRun
  <2>1. PICK m \in marker : \/ m.state = "pendingSwap" /\ upd' = [pc |-> "swap", marker |-> m]
                            \/ m.state = "verifying" /\ upd' = [pc |-> "verify", marker |-> m]
    BY <1>1 DEF UpdaterRun, Continue, Expired
  <2>2. UNCHANGED <<bin, marker, faults>> /\ ~UpdaterBusy /\ UpdaterBusy'
    BY <1>1, <2>1 DEF UpdaterRun, UpdaterBusy, UpdaterIdle, files, history
  <2> QED
    BY <1>0, <2>1, <2>2 DEF Counted, Returned, Spent
<1>2. CASE SwapBegin \/ VerifyBegin
  <2> DEFINE m == [upd.marker EXCEPT !.attempts = @ + 1]
  <2>0. UpdaterBusy /\ upd.pc \in {"swap", "verify"} /\ UNCHANGED <<bin, faults>>
    BY <1>2 DEF SwapBegin, VerifyBegin, BeginAttempt, UpdaterBusy, history
  <2>1. m.state = upd.marker.state /\ m.from = upd.marker.from /\ m.attempts = upd.marker.attempts + 1
        /\ upd.marker.attempts \in Nat /\ upd.marker.attempts < MaxAttempts
    <3>1. Spent(upd.marker, 1)
      BY <1>0, <1>a, <2>0, Numbers DEF Counted, Calm, UpdaterBusy
    <3> QED
      BY <1>0, <1>a, <2>0, <3>1, Numbers DEF Calm, UpdaterBusy, Markers
  <2>2. /\ marker' = {m}
        /\ \/ upd.pc = "swap" /\ upd' = [pc |-> "stop", marker |-> m]
           \/ upd.pc = "verify" /\ upd' = [pc |-> "takeback", marker |-> m]
    BY <1>2, <2>1, NumbersAssumption DEF SwapBegin, VerifyBegin, BeginAttempt, Save, Continue
  <2>3. upd.marker.state # "rolledBack"
    BY <2>0 DEF CopyStates, Swapping, Turning
  <2> HIDE DEF m
  <2> QED
    BY <1>0, <1>b, <2>0, <2>1, <2>2, <2>3 DEF Counted, Returned, Spent, UpdaterBusy
<1>3. CASE SwapStop
  <2>1. /\ UpdaterBusy /\ upd.pc = "stop" /\ marker' = marker /\ bin' = bin
        /\ \/ upd' = [pc |-> "switch", marker |-> upd.marker] /\ faults' = faults
           \/ upd' = [pc |-> "ensure", marker |-> upd.marker] /\ faults' = faults + 1
    BY <1>3, <1>c DEF SwapStop, Save, Continue, Refused, NoFault, UpdaterBusy
  <2>2. upd.marker.state = "pendingSwap" /\ upd.marker.attempts \in Nat
    BY <1>a, <2>1, NumbersAssumption DEF CopyStates, Swapping, Markers
  <2> QED
    BY <1>0, <1>b, <1>c, <2>1, <2>2 DEF Counted, Returned, Spent, UpdaterBusy
<1>4. CASE Switch
  <2> DEFINE m == [upd.marker EXCEPT !.state = "verifying"]
  <2>0. UpdaterBusy /\ upd.pc = "switch" /\ UNCHANGED <<bin, faults>>
    BY <1>4 DEF Switch, UpdaterBusy, history
  <2>1. m.state = "verifying" /\ m.from = upd.marker.from /\ m.attempts = upd.marker.attempts
        /\ upd.marker.attempts \in Nat
    BY <1>a, <2>0, NumbersAssumption DEF UpdaterBusy, Markers
  <2>2. \/ upd' = [pc |-> "rollback", marker |-> upd.marker] /\ marker' = marker
        \/ upd' = [pc |-> "point", marker |-> m] /\ marker' = {m}
    BY <1>4 DEF Switch, Continue, Save
  <2>3. upd.marker.state = "pendingSwap" /\ bin = upd.marker.from
    BY <1>0, <1>c, <2>0 DEF CopyStates, Swapping, Fine, Pointed
  <2> HIDE DEF m
  <2> QED
    BY <1>0, <1>b, <1>c, <2>0, <2>1, <2>2, <2>3 DEF Counted, Returned, Spent, UpdaterBusy
<1>5. CASE Point \/ Start \/ Undo \/ Unpoint \/ TakeBack
  <2>1. /\ UpdaterBusy /\ marker' = marker /\ upd'.marker = upd.marker /\ UpdaterBusy'
        /\ faults' \in {faults, faults + 1}
        /\ \/ upd.pc \in {"point", "start", "undo"} /\ upd'.pc \in {"start", "undo", "unpoint", "ensure"}
           \/ upd.pc = "unpoint" /\ upd'.pc = "rollback" /\ bin' = upd.marker.from
           \/ upd.pc = "takeback" /\ upd'.pc = "pointback"
        \/ /\ UpdaterBusy /\ marker' = marker /\ upd.pc = "start" /\ upd'.pc = "ensure" /\ faults' = faults
    BY <1>5 DEF Point, Start, Undo, Unpoint, TakeBack, Continue, Refused, NoFault, Calm, LeftPointed,
                PointedBack, UpdaterBusy, files
  <2>2. upd.marker.state = "verifying" /\ upd.marker.attempts \in Nat
    BY <1>5, <1>a, NumbersAssumption
       DEF Point, Start, Undo, Unpoint, TakeBack, CopyStates, Turning, Markers
  <2> QED
    BY <1>0, <1>b, <1>c, <2>1, <2>2 DEF Counted, Returned, Spent, UpdaterBusy
<1>6. CASE PointBack
  <2>1. /\ UpdaterBusy /\ upd.pc = "pointback" /\ marker' = marker
        /\ \/ upd' = [pc |-> "rollback", marker |-> upd.marker] /\ faults' = faults /\ bin' = upd.marker.from
           \/ upd' = [pc |-> "ensure", marker |-> upd.marker] /\ faults' = faults + 1 /\ bin' = bin
    BY <1>6, <1>c DEF PointBack, Save, Continue, Refused, NoFault, PointedBack, UpdaterBusy
  <2>2. upd.marker.state = "verifying" /\ upd.marker.attempts \in Nat
    BY <1>a, <2>1, NumbersAssumption DEF CopyStates, Turning, Markers
  <2> QED
    BY <1>0, <1>b, <1>c, <2>1, <2>2 DEF Counted, Returned, Spent, UpdaterBusy
<1>7. CASE RollBack
  <2> DEFINE m == [upd.marker EXCEPT !.state = "rolledBack"]
  <2>0. upd.pc = "rollback" /\ bin' = bin /\ upd'.pc = "ensure" /\ marker' = {m}
    BY <1>7 DEF RollBack, Continue, Save
  <2>1. m.state = "rolledBack" /\ m.from = upd.marker.from
    BY <1>a, <2>0 DEF Markers
  <2> HIDE DEF m
  <2> QED
    BY <1>0, <2>0, <2>1 DEF Counted, Returned, UpdaterBusy
<1>8. CASE Ensure
  <2>1. UNCHANGED <<bin, marker>> /\ upd.pc = "ensure" /\ upd'.pc = "idle" /\ faults' \in {faults, faults + 1}
    BY <1>8 DEF Ensure, UpdaterIdle, Refused, NoFault, files
  <2>2. \A m \in marker : m.attempts \in Nat
    BY NumbersAssumption DEF MarkersOK, Markers
  <2> QED
    BY <1>0, <1>b, <2>1, <2>2 DEF Counted, Returned, Spent, UpdaterBusy
<1> QED
  BY <1>1, <1>2, <1>3, <1>4, <1>5, <1>6, <1>7, <1>8 DEF UpdaterSteps

\* A crash is an attempt's excuse.
LEMMA OtherBack ==
  ASSUME IInv, BInv, Calm',
         Backend \/ BecomeOverdue \/ PassDeadline \/ UpdaterDies \/ ServiceDies \/ Boot
  PROVE  Counted' /\ Returned'
<1> USE TypeParts DEF TypePartsOK, IInv, Sound
<1>1. /\ UNCHANGED <<bin, marker, raced, astray, faults>>
      /\ \/ upd' = upd /\ crashes' \in {crashes, crashes + 1}
         \/ upd' = UpdaterIdle /\ crashes' = crashes + 1
  BY DEF Backend, CreateJob, CloseJob, BecomeOverdue, PassDeadline, UpdaterDies, ServiceDies, Boot,
         Crash, files, history
<1>2. faults \in Nat /\ crashes \in Nat /\ \A m \in marker : m.attempts \in Nat
  BY NumbersAssumption DEF NumbersOK, MarkersOK, Markers
<1>0. ~raced /\ Fine /\ Counted /\ Returned
  BY <1>1, <1>2, OtherFine, NumbersAssumption DEF BInv, Calm, AttemptsLast, OneVersion
<1>3. upd.pc # "idle" => upd.marker \in Markers /\ upd.marker.attempts \in Nat
  BY UpdShape, NumbersAssumption DEF Markers
<1>4. UpdaterBusy => marker = {upd.marker}
  BY <1>0 DEF Fine, Shared
<1>5. CASE upd' = upd
  BY <1>0, <1>1, <1>2, <1>3, <1>5 DEF Counted, Returned, Spent, UpdaterBusy
<1>6. CASE upd' = UpdaterIdle /\ crashes' = crashes + 1
  <2>1. upd'.pc = "idle"
    BY <1>6 DEF UpdaterIdle
  <2>2. Returned'
    BY <1>0, <1>1, <2>1 DEF Returned
  <2>3. CASE UpdaterBusy
    <3>1. /\ upd.marker.state = "pendingSwap" => Spent(upd.marker, 1)
          /\ upd.marker.state = "verifying" => Spent(upd.marker, 2)
      BY <1>0, <1>2, <1>3, <2>3, UpdShape
         DEF UpdaterBusy, UpdType, UpdPcs, Counted, Spent, CopyStates, Swapping, Turning
    <3> QED
      BY <1>1, <1>2, <1>3, <1>4, <1>6, <2>1, <2>2, <2>3, <3>1 DEF Counted, Spent, UpdaterBusy
  <2>4. CASE ~UpdaterBusy
    BY <1>0, <1>1, <1>2, <1>6, <2>1, <2>2, <2>4 DEF Counted, Spent, UpdaterBusy
  <2> QED
    BY <2>3, <2>4
<1> QED
  BY <1>1, <1>5, <1>6

LEMMA BackNext ==
  ASSUME IInv, BInv, [Next]_vars
  PROVE  BInv'
<1>1. CASE UNCHANGED vars
  BY <1>1 DEF vars, BInv, Calm, AttemptsLast, Counted, Returned, Spent, UpdaterBusy
<1>2. CASE Next
  BY <1>2, ServiceBack, UpdaterBack, OtherBack DEF Next, BInv
<1> QED
  BY <1>1, <1>2

\* Rolled back means gone back: the service points at the old version, and what runs is it
\* (Updater.Verify, UpdateState.RolledBack).
THEOREM RolledBackIsBack == Spec => []RolledBackUnraced
<1>1. Init => IInv /\ BInv
  BY InvInit DEF Init, BInv, Counted, Returned, UpdaterIdle
<1>2. IInv /\ BInv /\ [Next]_vars => IInv' /\ BInv'
  BY InvNext, BackNext
<1>3. IInv /\ BInv => RolledBackUnraced
  BY DEF IInv, BInv, Calm, Sound, RunsBin, Returned, RolledBackUnraced, RolledBackMeansBack, Back
<1> QED
  BY <1>1, <1>2, <1>3, PTL DEF Spec
=============================================================================
