---------------------------- MODULE AdSchedule ----------------------------
(***************************************************************************)
(* The directory's settings and the synchronisation they drive: saving the *)
(* section "ad" (SettingsService.updateAd), the timer that follows it      *)
(* (AdSchedulerService) and the runs (AdSyncService.sync with `running`    *)
(* and `rerunRequested`). All of it is one Node process: code runs without *)
(* interruption up to an await, and every await lets the others in.        *)
(*                                                                         *)
(* Abstractions.                                                           *)
(*  - Of the section there is the scope that is read (server, search bases *)
(*    and filter; None while server or base is missing) and the interval.  *)
(*  - A run takes what it read to the device table as a whole (Directory   *)
(*    has the merging); `table` is the scope the table was last matched    *)
(*    with.                                                                *)
(*  - onModuleInit is one step: no request is served before it ends.       *)
(*  - A getAd() that fails is left out: the call of sync() or updateAd()   *)
(*    ends without effect, and in reschedule() it ends the process (Crash).*)
(***************************************************************************)
EXTENDS Naturals

CONSTANTS
  Scopes, Minutes,
  Patches,    \* what a request may send
  Seeds,      \* the row a start finds (seedAdFromEnvironment)
  None,       \* no scope: not configured; no timer, no run
  Unsent,     \* a field the request leaves out
  Savers,     \* requests that save at the same time
  Syncs,      \* calls of sync() under way at the same time
  MaxSaves,   \* bound: saves
  MaxCrashes, \* bound: ends of the process from outside
  MaxFaults   \* bound: runs whose row in ad_sync_runs cannot be inserted

ASSUME AdScheduleAssumption ==
  /\ None \notin Scopes /\ None \notin Minutes
  /\ Patches \subseteq [scope : Scopes \cup {None, Unsent}, minutes : Minutes \cup {Unsent}]
  /\ Seeds \subseteq [scope : Scopes \cup {None}, minutes : Minutes]

VARIABLES
  stored,     \* the row "ad" of app_settings
  table,      \* the scope the devices were last matched with
  up,         \* the process runs
  save,       \* save[s]: where an updateAd is, what it was sent, what it read
  timer,      \* the registered interval, in minutes
  startup,    \* the startup timeout is pending
  lastScope,  \* AdSchedulerService.lastScope
  reschedule, \* reschedule[s]: the reschedule() the save of s has called
  sync,       \* sync[y]: a call of sync()
  running, rerun,  \* AdSyncService.running, rerunRequested
  stuck,      \* a call has ended and left `running` behind
  count       \* saves, crashes and faults so far

vars == <<stored, table, up, save, timer, startup, lastScope, reschedule, sync,
          running, rerun, stuck, count>>

Config == [scope : Scopes \cup {None}, minutes : Minutes]
Configured(c) == c.scope # None
Idle == [at |-> "idle", config |-> None]
Asleep == [at |-> "idle", scope |-> None]
NoSave == [at |-> "idle", patch |-> None, config |-> None]

Init ==
  /\ stored \in Seeds /\ table = None
  /\ up = FALSE
  /\ save = [s \in Savers |-> NoSave]
  /\ timer = None /\ startup = FALSE /\ lastScope = None
  /\ reschedule = [s \in Savers |-> Idle]
  /\ sync = [y \in Syncs |-> Asleep]
  /\ running = FALSE /\ rerun = FALSE /\ stuck = FALSE
  /\ count = [saves |-> 0, crashes |-> 0, faults |-> 0]

-----------------------------------------------------------------------------
(* The process.                                                            *)

\* The startup run is planned and the interval set; no scope counts as changed.
Boot ==
  /\ ~up
  /\ up' = TRUE
  /\ startup' = Configured(stored)
  /\ timer' = IF Configured(stored) THEN stored.minutes ELSE None
  /\ lastScope' = stored.scope
  /\ UNCHANGED <<stored, table, save, reschedule, sync, running, rerun, stuck, count>>

Exit ==
  /\ up' = FALSE
  /\ timer' = None /\ startup' = FALSE /\ lastScope' = None
  /\ save' = [s \in Savers |-> NoSave]
  /\ reschedule' = [s \in Savers |-> Idle]
  /\ sync' = [y \in Syncs |-> Asleep]
  /\ running' = FALSE /\ rerun' = FALSE /\ stuck' = FALSE

Crash ==
  /\ up /\ count.crashes < MaxCrashes
  /\ count' = [count EXCEPT !.crashes = @ + 1]
  /\ Exit
  /\ UNCHANGED <<stored, table>>

-----------------------------------------------------------------------------
(* Runs.                                                                   *)

\* The call of sync(), up to its first await.
Called(calls, y) == [calls EXCEPT ![y] = [at |-> "getAd", scope |-> None]]

\* syncScheduled(): a run that is under way is asked to be followed by another.
Scheduled ==
  IF running
  THEN rerun' = TRUE /\ UNCHANGED sync
  ELSE /\ \E y \in Syncs : sync[y].at = "idle" /\ sync' = Called(sync, y)
       /\ UNCHANGED rerun

Tick ==
  /\ timer # None /\ Scheduled
  /\ UNCHANGED <<stored, table, up, save, timer, startup, lastScope, reschedule,
                 running, stuck, count>>

StartupRun ==
  /\ startup /\ startup' = FALSE
  /\ Scheduled
  /\ UNCHANGED <<stored, table, up, save, timer, lastScope, reschedule, running, stuck, count>>

\* POST /ad/sync does not ask first.
Manual(y) ==
  /\ up /\ sync[y].at = "idle"
  /\ sync' = Called(sync, y)
  /\ UNCHANGED <<stored, table, up, save, timer, startup, lastScope, reschedule,
                 running, rerun, stuck, count>>

ReadForRun(y) ==
  /\ sync[y].at = "getAd"
  /\ sync' = [sync EXCEPT ![y] = [at |-> "read", scope |-> stored.scope]]
  /\ UNCHANGED <<stored, table, up, save, timer, startup, lastScope, reschedule,
                 running, rerun, stuck, count>>

\* A bug to compare with: `running` is asked before the await only.
BeginUnasked(y) ==
  /\ sync[y].at = "read"
  /\ IF sync[y].scope # None
     THEN sync' = [sync EXCEPT ![y].at = "run"] /\ running' = TRUE
     ELSE sync' = [sync EXCEPT ![y] = Asleep] /\ UNCHANGED running
  /\ UNCHANGED <<stored, table, up, save, timer, startup, lastScope, reschedule, rerun,
                 stuck, count>>

\* After the await: both refusals are a ConflictException, which the scheduler only logs.
Begin(y) ==
  /\ sync[y].at = "read"
  /\ IF sync[y].scope # None /\ ~running
     THEN sync' = [sync EXCEPT ![y].at = "run"] /\ running' = TRUE
     ELSE sync' = [sync EXCEPT ![y] = Asleep] /\ UNCHANGED running
  /\ UNCHANGED <<stored, table, up, save, timer, startup, lastScope, reschedule, rerun,
                 stuck, count>>

\* startRun() fails after `running` has been set and before the `try` whose `finally` takes
\* it back: every later call is refused until the process ends.
StartRunFails(y) ==
  /\ sync[y].at = "run"
  /\ count.faults < MaxFaults /\ count' = [count EXCEPT !.faults = @ + 1]
  /\ sync' = [sync EXCEPT ![y] = Asleep] /\ stuck' = TRUE
  /\ UNCHANGED <<stored, table, up, save, timer, startup, lastScope, reschedule, running, rerun>>

\* A bug to compare with: a failure does not pass the `finally`.
EndOnSuccess(y, ok) ==
  /\ sync[y].at = "run"
  /\ table' = IF ok THEN sync[y].scope ELSE table
  /\ running' = ~ok
  /\ rerun' = FALSE
  /\ sync' = IF rerun THEN Called(sync, y) ELSE [sync EXCEPT ![y] = Asleep]
  /\ UNCHANGED <<stored, up, save, timer, startup, lastScope, reschedule, stuck, count>>

\* The transaction commits or the run fails (directory unreachable, no computer found);
\* either way `running` ends and a run that was asked for is called at once.
End(y, ok) ==
  /\ sync[y].at = "run"
  /\ table' = IF ok THEN sync[y].scope ELSE table
  /\ running' = FALSE
  /\ rerun' = FALSE
  /\ sync' = IF rerun THEN Called(sync, y) ELSE [sync EXCEPT ![y] = Asleep]
  /\ UNCHANGED <<stored, up, save, timer, startup, lastScope, reschedule, stuck, count>>

-----------------------------------------------------------------------------
(* Saving and rescheduling.                                                *)

Save(s, patch) ==
  /\ up /\ save[s].at = "idle" /\ reschedule[s].at = "idle"
  /\ count.saves < MaxSaves /\ count' = [count EXCEPT !.saves = @ + 1]
  /\ save' = [save EXCEPT ![s] = [at |-> "getAd", patch |-> patch, config |-> None]]
  /\ UNCHANGED <<stored, table, up, timer, startup, lastScope, reschedule,
                 sync, running, rerun, stuck>>

Merged(config, patch) ==
  [f \in {"scope", "minutes"} |-> IF patch[f] = Unsent THEN config[f] ELSE patch[f]]

ReadForSave(s) ==
  /\ save[s].at = "getAd"
  /\ save' = [save EXCEPT ![s].at = "read", ![s].config = stored]
  /\ UNCHANGED <<stored, table, up, timer, startup, lastScope, reschedule,
                 sync, running, rerun, stuck, count>>

\* The row is written whole, from what was read.
Write(s) ==
  /\ save[s].at = "read"
  /\ stored' = Merged(save[s].config, save[s].patch)
  /\ save' = [save EXCEPT ![s] = [at |-> "written", patch |-> None, config |-> None]]
  /\ UNCHANGED <<table, up, timer, startup, lastScope, reschedule,
                 sync, running, rerun, stuck, count>>

\* notify() calls reschedule(), which takes the timer away before its first await.
Notify(s) ==
  /\ save[s].at = "written"
  /\ save' = [save EXCEPT ![s] = NoSave]
  /\ timer' = None
  /\ reschedule' = [reschedule EXCEPT ![s] = [at |-> "getAd", config |-> None]]
  /\ UNCHANGED <<stored, table, up, startup, lastScope, sync, running, rerun, stuck, count>>

ReadForTimer(s) ==
  /\ reschedule[s].at = "getAd"
  /\ reschedule' = [reschedule EXCEPT ![s] = [at |-> "read", config |-> stored]]
  /\ UNCHANGED <<stored, table, up, save, timer, startup, lastScope,
                 sync, running, rerun, stuck, count>>

\* Not configured: no timer, and whatever comes next counts as a change.
StayOut(s) ==
  /\ reschedule[s].at = "read" /\ ~Configured(reschedule[s].config)
  /\ lastScope' = None
  /\ reschedule' = [reschedule EXCEPT ![s] = Idle]
  /\ UNCHANGED <<stored, table, up, save, timer, startup, sync, running, rerun, stuck, count>>

RunIfChanged(config) ==
  IF lastScope # config.scope THEN Scheduled ELSE UNCHANGED <<sync, rerun>>

\* A bug to compare with: nothing is left to do when the scope is the same.
SetTimerIfChanged(s) ==
  /\ reschedule[s].at = "read" /\ Configured(reschedule[s].config) /\ timer = None
  /\ lastScope' = reschedule[s].config.scope
  /\ RunIfChanged(reschedule[s].config)
  /\ timer' = IF lastScope # lastScope' THEN reschedule[s].config.minutes ELSE None
  /\ reschedule' = [reschedule EXCEPT ![s] = Idle]
  /\ UNCHANGED <<stored, table, up, save, startup, running, stuck, count>>

\* A changed scope is run at once; then the interval is registered.
SetTimer(s) ==
  /\ reschedule[s].at = "read" /\ Configured(reschedule[s].config) /\ timer = None
  /\ lastScope' = reschedule[s].config.scope
  /\ RunIfChanged(reschedule[s].config)
  /\ timer' = reschedule[s].config.minutes
  /\ reschedule' = [reschedule EXCEPT ![s] = Idle]
  /\ UNCHANGED <<stored, table, up, save, startup, running, stuck, count>>

\* addInterval refuses a name it has. Nobody awaits the reschedule(): the rejection is
\* unhandled and Node ends the process.
Trip(s) ==
  /\ reschedule[s].at = "read" /\ Configured(reschedule[s].config) /\ timer # None
  /\ Exit
  /\ UNCHANGED <<stored, table, count>>

Next ==
  \/ Boot \/ Crash \/ Tick \/ StartupRun
  \/ \E y \in Syncs : Manual(y) \/ ReadForRun(y) \/ Begin(y) \/ StartRunFails(y)
                    \/ \E ok \in BOOLEAN : End(y, ok)
  \/ \E s \in Savers :
       \/ \E patch \in Patches : Save(s, patch)
       \/ ReadForSave(s) \/ Write(s) \/ Notify(s)
       \/ ReadForTimer(s) \/ StayOut(s) \/ SetTimer(s) \/ Trip(s)

\* The container is started again; the event loop takes every answer; timers fire; the
\* directory does not fail for ever.
Fairness ==
  /\ WF_vars(Boot) /\ WF_vars(Tick)
  /\ \A y \in Syncs : WF_vars(ReadForRun(y)) /\ WF_vars(Begin(y))
                      /\ WF_vars(End(y, FALSE) \/ End(y, TRUE)) /\ SF_vars(End(y, TRUE))
  /\ \A s \in Savers : WF_vars(ReadForSave(s) \/ Write(s) \/ Notify(s)
                               \/ ReadForTimer(s) \/ StayOut(s) \/ SetTimer(s) \/ Trip(s))

Spec == Init /\ [][Next]_vars /\ Fairness

-----------------------------------------------------------------------------
\* Where a save, a reschedule and a run can be, with what they have read by then.
Saves == [at : {"idle", "written"}, patch : {None}, config : {None}]
  \cup [at : {"getAd"}, patch : Patches, config : {None}]
  \cup [at : {"read"}, patch : Patches, config : Config]
Reschedules == [at : {"idle", "getAd"}, config : {None}] \cup [at : {"read"}, config : Config]
Calls == [at : {"idle", "getAd"}, scope : {None}]
  \cup [at : {"read"}, scope : Scopes \cup {None}] \cup [at : {"run"}, scope : Scopes]

\* The type invariant: every variable has its type, and what is at work has read what it
\* goes on with.
TypeOK ==
  /\ stored \in Config /\ table \in Scopes \cup {None} /\ up \in BOOLEAN
  /\ save \in [Savers -> Saves]
  /\ timer \in Minutes \cup {None} /\ startup \in BOOLEAN
  /\ lastScope \in Scopes \cup {None}
  /\ reschedule \in [Savers -> Reschedules]
  /\ sync \in [Syncs -> Calls]
  /\ running \in BOOLEAN /\ rerun \in BOOLEAN /\ stuck \in BOOLEAN
  /\ count \in [saves : Nat, crashes : Nat, faults : Nat]

\* Never do two runs go on at once, though every caller asks before an await and acts after
\* it; and `running` is set without one only after a startRun() that failed
\* (ad-sync.service.ts:96-101).
OneRun ==
  /\ running <=> stuck \/ \E y \in Syncs : sync[y].at = "run"
  /\ \A y, z \in Syncs : sync[y].at = "run" /\ sync[z].at = "run" => y = z /\ ~stuck

\* Once no save has anything left to do, the timer runs with the stored interval, in
\* whatever order the saves, reads and continuations of several requests came
\* (AdSchedulerService.reschedule).
SettledTimer ==
  (/\ up /\ Configured(stored)
   /\ \A s \in Savers : save[s].at # "written" /\ reschedule[s].at = "idle")
  => timer = stored.minutes

\* When the settings stay, the device table finally stays matched with the scope they
\* name, also after a crash, a refused call or a failed run (ad-scheduler.service.ts:100-110);
\* unless a startRun() has failed since the process started, for then no run comes any more.
TableFollowsScope ==
  \A c \in Scopes : <>[](stored.scope = c) => <>[](table = c) \/ <>[]stuck

\* Refuted: a run that fails, wherever it does, costs that run only. After a failing startRun()
\* every later one is refused until the process ends (ad-sync.service.ts:100-103).
FailureCostsOneRun == \A c \in Scopes : <>[](stored.scope = c) => <>[](table = c)

\* Refuted: a run never ends the process. Two saves whose reschedule() overlap do
\* (Trip); the next start puts the timer right.
NeverTrips == [][\A s \in Savers : ~Trip(s)]_vars

=============================================================================
