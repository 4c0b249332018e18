# WiUpMo in TLA+

A verification development of WiUpMo, the Windows Update monitoring in this
repository: TLA+ modules of its concurrent and distributed parts, TLC
configurations that check them on small instances, and TLAPS proofs of what
matters most for every instance. Paths are relative to the repository. The lines
every definition stands for are in `PROJECT.json` under `map`, the hazards the
properties are about under `hazards`.

## 1. The system

A Windows service (the **agent**, `agent/src/WiUpMo.Agent`, C#) on every device
reports the device's updates to a **backend** (`backend/src`, NestJS on
PostgreSQL). An administrator looks at the results in a **console** (`frontend`,
Vue) and gives three kinds of jobs, which an agent receives with the answer to
its check-in: install updates, restart, replace itself by a newer version. The
backend never calls an agent. Everything an agent learns it learns from the
answer to a request of its own, and laptops are out of reach for days.

| Component | State it keeps | Operations | Interacts by |
|---|---|---|---|
| Install jobs, `backend/src/install-jobs` | `update_installations`, `update_install_jobs` | create, cancel (one, all of an installation), list, claim, report, clean up | check-in answer (claim), agent's POST (report) |
| Check-in, `backend/src/agent-api/checkin.*` | `devices.last_seen_at` etc., `device_update_states`, `device_update_events`, `device_checkins`, the catalogue | ingest a batch, snapshot by snapshot, then claim one job of each kind | agent's POST |
| Restart jobs, `backend/src/restart-jobs` | `restart_requests`, `restart_jobs` with an event list | create, cancel, claim, report, clean up | as install jobs |
| Releases and update jobs, `backend/src/releases` | `agent_releases`, files of the store, `agent_rollouts`, `agent_update_jobs` | store and remove a release, mark current, roll out, cancel, claim, report, give up | as install jobs |
| Enrolment and device token, `backend/src/agent-api/enrollment.service.ts`, `device-auth.guard.ts` | `device_secrets`, `devices.enrolled_at` | enrol, authenticate | agent's POST |
| Devices, `backend/src/devices` | `devices` | archive, restore, remove, lists, tree of units, export | administrators, directory |
| AD synchronisation, `backend/src/ad` | `devices.ad_*`, `ad_sync_runs`; in memory `running`, `rerunRequested`, timers, `lastScope` | sync (by timer, by hand, on a changed scope) | LDAP, timers, settings' callback |
| Settings, `backend/src/settings` | one row per section | read, merge and write, notify | console, scheduler |
| Retention, `backend/src/retention` | – | delete old check-ins and events | timer |
| Reports, updates, `backend/src/reports`, `updates` | – | figures, reports, the curve of open updates, the catalogue | console |
| Sign-in and preferences, `backend/src/auth`, `preferences` | `users`, a signed cookie, `user_preferences` | set up, sign in, sign out, guard | console |
| Agent cycle, `AgentCycle.cs`, `Worker.cs`, `CheckinSchedule.cs`, `CheckinTrigger.cs` | when the next cycle starts | collect, confirm a self-update, send the queue, report outcomes, accept jobs | everything on the agent |
| Snapshot queue and collector | SQLite queue, history cursor, fingerprint of the installed list | enqueue, peek, remove, prune | cycle |
| Install job runner, `Installation/` | `install.json`, a background task | accept, run, report | cycle, Windows Update, backend |
| Self-update, `Update/SelfUpdateService.cs` | `update.json`, version directories, counters in memory | prepare, confirm, report, give up, clean up | cycle, backend, updater |
| Updater, `Update/Updater.cs`, a process of its own | `update.json`, the service's `binPath` | swap, verify, roll back | service manager, self-update |
| Restart coordinator, `Restart/` | `restart.json`, the prompt's process | apply, tick, prompt, restart, report | cycle, the signed-in user, backend |
| Console, `frontend/src` | what a tab has loaded, what it believes of the session | views, polling, filters in links | REST, cookie |

`PROJECT.json` lists every component with its sources and says which are
modelled, partly modelled or left out, and why.

### What is hard

* **Nobody waits.** A check-in that timed out at the agent may still be running
  in the backend when the next arrives; a report may arrive after the agent has
  given it up. Both sides act on the rows as they find them.
* **SQL at READ COMMITTED.** `create()` reads who is eligible, then inserts.
  `claim()` is one UPDATE with a subselect, then a SELECT, then perhaps another
  UPDATE. What holds between them is up to an index and the WHERE clauses; where
  there is none (update jobs, the catalogue) to nothing.
* **An await lets the others in.** The backend is one thread, but settings,
  scheduler and synchronisation ask before an await and act after it; so do the
  views of the console.
* **The service stops in the middle.** Shutdown, crash, or the updater replacing
  it. What was going on is known only from a marker file, written before the
  network is used.
* **Two processes share a file.** Service and updater both load, change and
  save `update.json` with no lock.
* **Judging from afar.** The backend concludes from `last_seen_at` that an
  installation was interrupted or an update job has stalled, from the boot time
  that a restart has happened, from a missing account that a device is gone.
* **Everything has to end.** An open job blocks every further one for its
  device, a marker that stays blocks every further update.
* **The same number many times.** A dozen queries each say again what is open,
  silent or active; numbers link to lists that are other queries.

### What makes each component correct

* Job tables: at most one open job per device; nothing goes out before its time;
  closed jobs stay closed; every job ends; no job is done twice or lost.
* Check-in: a state follows from the newest report and the last attempt, however
  snapshots are delayed, repeated or interleaved; nothing counts twice.
* Restart: a device restarts at most once for a job, and not for one the agent
  has heard is closed.
* Self-update: the service's executable always exists; what is reported is what
  runs; a version that runs is not rolled back; every update ends.
* Releases: what is handed out is what was uploaded under that version.
* Queue: whatever was collected is sent or accounted for by the limits.
* Directory: no history known of is dissolved; enrolment and synchronisation agree in the
  end; one run at a time; the table follows the stored scope.
* Figures: a number is the length of the list behind it; the same thing is
  counted alike everywhere.
* Console: what is shown belongs to what is chosen; what is over is finally
  shown as over; an expired session loses nobody's place.

## 2. The modules

| Module | Models | Extends |
|---|---|---|
| `JobSlot` | abstract: a device has one place for a job | – |
| `InstallJobs` | the install job table, its administrators and requests; implements `JobSlot` | – |
| `InstallSystem` | one device's agent against that table; implements `InstallJobs` | `InstallJobs` |
| `Restart` | restart jobs, the agent's coordinator, user and machine; implements `JobSlot` | – |
| `SelfUpdate` | service and updater on one marker file | – |
| `UpdateJobs` | the store of releases and the update jobs | – |
| `Reporting` | snapshots from Windows through the queue into states and events | – |
| `Catalog` | the rows of the catalogue several devices write | – |
| `Trend` | the curve of open updates reckoned from `Reporting`'s tables | `Reporting` |
| `Directory` | the records of one computer under synchronisation, enrolment, hands | – |
| `AdSchedule` | settings of the directory, scheduler, overlapping synchronisations | – |
| `Figures` | figures, reports, lists, links, catalogue, tree | – |
| `Session`, `Dashboard`, `JobList` | sign-in of a tab; the dashboard; a list of requests with jobs | – |
| `Console` | one tab: the three composed | those three |
| `MC...` | instances for TLC | their module |
| `InstallProofs`, `RestartProofs`, `ReportingProofs`, `FiguresProofs`, `SelfUpdateProofs`, `UpdateJobsProofs`, `ConsoleProofs`, `AdProofs` | theorems | their module; `AdProofs` both `AdSchedule` and `Directory` |

### JobSlot

What every job table promises: a job takes the place of its device only while
it is vacant (`Take`, for many devices at once), gives it up (`Release`), and
may take it back while it is vacant (`Retake`). `FinalSpec` is without `Retake`.
`InstallJobs` implements `Spec` (a claim can write over a closed job),
`Restart` implements `FinalSpec`. `UpdateJobs` implements neither: no unique
index keeps the device from having two open jobs, and a late report reopens one.

### InstallJobs

A job is the pair of its installation and its device. A row is spread over four
functions: `state` (the column), `clock` (now against `not_before` and
`expires_at`), `age` and `seen` (now, and `last_seen_at`, against `started_at`
plus six hours). The statements compare times and do nothing else with them, so
these comparisons are all that is kept of time; `BecomeDue`, `PassDeadline` and
`BecomeStale` let it pass.

A request that consists of several statements keeps what it has read between
them. `dialog[a]` is `create()` of administrator `a`: `CreateRead` (who is
eligible), `CreateInsert` (the transaction with ON CONFLICT DO NOTHING).
`claim[r]` is check-in `r`: `Ingest` (the snapshot has been processed),
`ClaimCleanup`, `ClaimSelect`, `ClaimDeliver`, `ClaimResolve`, `ClaimClose`,
`Respond`. `Cancel`, `CancelInstallation`, `List` and `Report` are one statement.

`claim()` delivers with `UPDATE ... WHERE id = (SELECT ...)`. The service never
changes the isolation level, so this runs at READ COMMITTED: the subselect is
evaluated once, and an UPDATE that had to wait for another writer re-checks the
outer condition on the new row version, which is the id alone. Selecting and
writing are therefore two steps. `Restart` and `UpdateJobs` treat their claims the same
way. The two statements of `cleanup()` concern disjoint rows and are one step.

### InstallSystem

The agent's cycle is a program counter (`cycle`): collect, send, await the
answer, report the outcome of the previous job, accept the next. The background
task that installs is `run`; `marker` is `install.json`. The backend's actions
are those of `InstallJobs`, with the inputs supplied by the agent: `Ingest` by
`Send`, `Respond` by `Receive` or, when nobody waits any more, `Unheard`, and
`Report` by `Post`. A report may be lost, lose its answer, or be handled after
the agent has given it up (`late`). `Crash` stops the service at any moment;
`marker` and `queue` survive it, `run` and `cycle` do not.

`runs`, `outcome` and `reopened` are history: no action reads them, but for the
bound `MaxRuns`. `reopened` holds the jobs a claim has written over after they
were closed; the properties say what holds of all others.

### Restart

The backend's rows are `state`, `since` (what a boot time is compared with),
`marked` and `young`; the agent's file, its gate and its prompt are `file`,
`gate`, `prompt`. Every branch of `TickAsync` is an action (`TickClosed`,
`TickServer`, `TickNobody`, `TickAbsent`, `TickShow`, `TickNotShown`, ...), so are the
answers of the prompt (`FollowRestart`, `FollowDefer`, `FollowClosed`,
`FollowSilent`) and each POST (`PostDone`, `PostFails`). Times are counts of
boots, because only boots order the moments the code compares. The machine may
restart by itself at any time. A cycle waits for the reports of its own end (gate
`"report"`), not for those of a tick.

### SelfUpdate

The service (`svc`) goes through its cycle in the order `AgentCycle` calls
`SelfUpdateService`; the updater (`upd`) goes through `Updater.Run`. Whoever
loads `update.json` works on that copy until it saves it: `held` is the
service's copy, `upd.marker` the updater's. `bin` is the service's `binPath`,
`exes` the versions that have their executable. Every call of the service
manager is a step that can be refused (`Refusable`, `MaxFaults`), also those of the
undo, whose results the code does not look at; either process can be killed
(`MaxCrashes`). A version of `Broken` starts and never gets through a cycle, one of
`Dead` does not start.

| Code | Actions |
|---|---|
| `ConfirmSelf` | `Collect` (load), `ConfirmSelf` (save) |
| `ReportPendingOutcomeAsync`, `AbandonIfStaleAsync` | `Outcome`, `Report` or `ReportLost`, `Settle` (delete the marker), `CleanUp` (delete versions) |
| `PrepareAsync` | `AcceptNothing`, `AcceptCurrent`, `Stage` or `StageFails`, `Announce` or `AnnounceFails`, `ReportNotPrepared` |
| `Updater.Swap`, `SwitchVersion` | `SwapBegin`, `SwapStop`, `Switch`, `Point`, `Start`, on failure `Undo`, `Unpoint`, `RollBack`, at the end `Ensure` |
| `Updater.Verify` | `VerifyBegin`, `TakeBack`, `PointBack`, `RollBack`, `Ensure` |

Time is two flags: the marker is older than `StuckAfter` (`overdue`), and its
verification deadline has passed (`deadline`). `raced` is history: it becomes
true when the service writes or deletes the marker while the updater works on
its own copy. That race is real (section 6), and after it little can be
promised; the safety properties are about all behaviours up to it. `astray` is
history as well: what a refused call of an undo has left elsewhere than the undo
assumes, the new version still running (`"service"`) or still in the `binPath`. The
properties name the one of the two that breaks them.

### UpdateJobs

`row`, `file` and `current` are the store: the table of releases, the binaries on
disk, the flag. `upload[u]`, `remover` and `creator[c]` are the requests of
administrators between their statements (`PublishCheck`, the file, the row;
`remove()`'s check, row, file; `createJobs()`'s read and insert), `checkin` is the
device's check-in with `abandonStalled`, `claimJob` and its answer. Reports of the
agent are under way in `net` and arrive in any order, or never.

### Reporting, Catalog, Trend

`Reporting` follows a snapshot: Windows offers, withdraws and installs
(`offered`, `history`); `Collect`, `Search`, `ReadHistory`, `Enqueue` are the
agent's collection with the history cursor `marker`; `Peek`, `Send`, `Settle`,
`Forbidden`, `Unreachable`, `GiveUp` its sending; `Begin`, `Commit`, `Reject` are one
transaction of the backend per snapshot, on `Conns` requests at once, with the
waiting PostgreSQL imposes (`MustWait`). The queue and what a request has to do are
sets of snapshots, read in the order of `collected_at` (`Earliest`). `Target` and `NewEvents` are
`computeTransitions`. `Catalog` keeps only the order in which a transaction locks
the catalogue's rows, for several devices. `Trend` reads the tables of
`Reporting` as `ReportsService.trend` does.

### Directory and AdSchedule

`Directory` has the accounts of one computer name (`account`), the records with
that name as they are committed (`row`), and the agent's identity. Several
enrolments are under way at once (`enroll`), of which the agent waits for one
(`waiting`): `EnrollRead`, `EnrollCompare` (what `save()` finds when it reads again) and
`EnrollCommit` or `EnrollFails`. A synchronisation fetches (`Fetch`), looks up what it
did not find (`Lookup`) and then works statement by statement at READ COMMITTED:
`Select` is the question of `upsert()` which records are to be merged, `Upsert` its DELETE
by id with the INSERT or UPDATE, `Archive` and `Commit` the end. Its own
versions of the records are in `mine`, those it has written are `locked`, and who
wants to write one of them waits (`MustWait`). What others commit between `Select` and
`Upsert` it does not look for again, as in the code; `blind` is history, the records
whose first report came in just there.

`AdSchedule` leaves the records aside and has what starts such a run: a save of the settings between
its read, its write and its notification, `reschedule()` between its clearing and
its setting of the timer, `sync()` between asking for the settings and asking
whether a run is under way, the failed run, the process that ends. `running` is set before
`startRun()`, which no `finally` covers: `StartRunFails` leaves it set, and `stuck` records
that. `Directory` has one synchronisation at a time, which is what `AdSchedule` shows (`OneRun`).

### Figures

The tables change as the other components change them (`Known`, `Enrol`,
`CheckIn`, `AgentUpdated`, `SetArchived`, `Delete`, `Retention`, `Day`); every query is an
operator over them with the condition it has in SQL (`Summary`, `Compliance`,
`Distribution`, `AgentVersions`, `BuildWhere`, `Catalogue`, `PageRows`, ...). Every link of the
dashboard is a number and a page of the device list (`Tiles`, `Coverage`, `SourceRing`,
`VersionRing`); `Opened` is what `DevicesView` makes of no link at all, `FilterParams`
what it asks the backend for, field by field. `Export` and `ExportSelected` are the two
ways to a file, `ExportCsv` the backend's side with its limit of rows.

### Session, Dashboard, JobList, Console

`Session` is a tab's cookie, what `auth.ts` believes of it, the route, and the
401s on their way; the login page reloaded keeps its `?weiter=`. `Dashboard` has the choice of range and interval, the stored
preference and the requests under way for either. `JobList` stands for the three
lists of requests: heads, expanded rows, the poll every half minute, requests that
fail, answers that overtake each other; a rollout also cancels what runs. `Console` composes them: entering a view mounts it, leaving it drops
it with its requests, a 401 takes it away; a request sent without a session is
going to be refused.

## 3. What is checked

| Run | Instance | Shows |
|---|---|---|
| `install_jobs` | 1 device, 2 installations, 2 administrators, 2 overlapping check-ins (1,070,775 states) | `OneOpenJobPerDevice`, `NothingBeforeItsTime`, `ClosedChangesOnlyByClaim`, and that the table implements `JobSlot` |
| `install_system` | 1 job, 1 check-in, 1 late report, 1 stop of the service (184,086) | `RunningIsBacked`, `InterruptedIsNotInstalling`, that agent and backend together implement `InstallJobs`, under fairness `ResultsArrive` and `JobsEnd` |
| `restart` | 1 job, 1 check-in at a time that may be lost at every step, 1 late report, 1 restart of the machine, 1 deferral (267,673) | `WithdrawnStaysWithdrawn`, `RecordedRestartIsLast`, `JobSlot` without re-entry, under fairness `ClosedReachesAgent` and `JobsEnd` |
| `self_update` | 1 job, 4 versions (the installed one, a good one, one broken, one dead), 2 refused calls, those of the undo among them, 1 killed process (166,205) | `ExeInPlace`, `WayBack`, `RolledBackUnraced`, `DoneMeansInstalled`, under fairness `MarkerGoes` and `ServiceWorks` |
| `update_jobs` | 1 version, 2 uploads, 1 removal, 1 order, 1 check-in (417,167) | `ReleaseMatches`, `ClosedChangesOnlyByReport`, under fairness `JobsEnd` |
| `reporting` | 1 update, 2 overlapping requests, a queue of 2, 3 moments, 1 late request, 1 rejection, one 403 (441,529) | `NothingLost`, `NewestWins`, `SupersededWasWithdrawn`, `TimelineAlternates`, under fairness `QueueDrains` |
| `directory` | 5 records, 2 accounts, 2 enrolments under way, 2 upsets: moves, interventions by hand, lost identities, requests given up, failures (236,386) | `HistoryStays`, `EnrollmentObeys`, under fairness `Converges` and `ComesToRest` |
| `ad_schedule` | 2 saves at once, 2 calls of `sync()` at once, 1 end of the process, 1 failing `startRun()` (536,059) | `OneRun`, `SettledTimer`, under fairness `TableFollowsScope` |
| `figures` | 2 devices in nested units, 2 updates of which one is a security update, up to 2 days old, an export of 1 row (146,689) | `NumbersMatchLists`, `CountsAgree` |
| `console` | 1 tab, 3 views, 2 ranges, 4 stored preferences, 2 loads of the list at once, 2 refusals under way (41,166) | `DashboardSettles`, `ComesBack`, under fairness `HeadsSettle` |
| `catalog_deadlock` | 2 devices, 2 updates | counterexample, section 6 |
| `trend` | `reporting` with one request and no fault | counterexample, section 6 |

Deadlock is checked where the system can always go on. `reporting`, `restart`,
`update_jobs`, `directory`, `trend` and `catalog_deadlock` switch it off, because
their bounds (moments, boots, moves, one order) let the system come to rest.

**Why the bounds are enough.** The rules of a job table are per device, and
their conflicts are between two rows of a device or two requests for one row. Two
installations give two rows for one device, two administrators two stale reads,
two check-ins two claims of the same row; a third of either adds no new pair.
Where one job's fate is in question (`install_system`, `restart`, `update_jobs`)
one job is enough; the interplay of several is what `JobSlot` and the theorems
are for. With two starts and two check-ins `InstallSystem` has 1.8 million
states and with `MaxTime` 4 `Reporting` 4.2 million: both were checked once without
a new case, as were the invariants of `Restart` with two restarts of the machine
(918,572 states; 3,709,637 with two late reports). In `SelfUpdate` three disturbances need up to five attempts, and
`MaxAttempts` is 4 (6 in the code): the run has behaviours in which the attempts last and
some in which they do not. Five records and two accounts
are enough in `Directory` for a new, a known, an archived and a merged record beside
each other, with one that a second enrolment makes at the same time; the invariants
and action properties were checked once with three upsets, too (2,124,460 states). Two
devices and two updates give each query of `Figures` a row that must be counted and
one that must not, and two rows are one more than the export lets through. Two loads are enough for one to overtake the other.
Interchangeable model values are symmetric only in `install_jobs`, the one run of
that size that checks no liveness.

Types are not part of the runs. `TypeOK` (`SysTypeOK`) of every module was checked
when the module was written, and is proved where section 5 says so.

**Three remarks on the properties.** An installation *can* be carried out twice
by the agent: if the reports of its start fail twice, the backend has the job as
delivered and hands it out again. `NoRecordedRerun`, proved, says that the backend
never records that. The properties of `SelfUpdate` name their exceptions by what has happened, not
by what cannot: `raced`, `astray` and `AttemptsLast` are reached in the run, and section 6
says what comes then. `MarkerGoes` holds whatever has happened. `JobSlot` speaks of `open` and `done` only; that the tables map to it is
checked as `ImplementsSlot`, with the refinement in `InstallJobs` and `Restart`.

## 4. Fairness

* `InstallSystem!FairSpec`: the agent's thread and the background task go on while
  they can; a request in the backend runs to its end; time passes; somebody opens
  the list of installations now and then (`List` cleans up). A check-in sent again
  and again is answered at some time, and so is a report: strong fairness, because
  an agent out of the office meets an unreachable backend any number of times
  before. Nothing is asked of administrators, nothing of the search succeeding.
* `SelfUpdate!FairSpec`: service and updater go on while they can, time passes,
  check-ins and reports get through at some time, and a machine whose service is
  stopped or gets nothing done is restarted one day (the service starts with
  Windows). The scheduled task takes back a version whose time has run out. That
  it ever *swaps* is not assumed: on notebooks it once did not
  (`agent/README.md`), and `AbandonIfStaleAsync` is the code's answer, which
  `MarkerGoes` therefore relies on.
* `Restart!LiveSpec`: the agent's cycle and the backend's requests go on, a
  check-in and a report tried for ever get through, waits and deadlines run out, and the
  prompt closes itself when nobody answers. The liveness properties are about
  behaviours in which, from some point on, nothing disturbs the exchange any more
  (`Undisturbed`): the service stays up, no check-in and no report is lost, and the
  user does not close the prompt again.
* `UpdateJobs!LiveSpec`, `Reporting!LiveSpec`, `Directory!LiveSpec`: the same for the check-ins
  of one device, a cycle with its connections, enrolment and synchronisation. Uploads,
  removals, orders and hands owe nothing.
* `AdSchedule!Spec`: the container is restarted, the event loop takes every answer
  of the database, timers fire, and the directory does not fail for ever.
* `Console!Spec`: a 401 under way arrives; the interval goes off while the tab is
  looked at; of the lists asked for again and again some are answered. Nothing is
  asked of the user.

## 5. What is proved

For every number of devices, jobs, requests, versions and calls, TLAPS proves:

| Module | Theorem | States |
|---|---|---|
| `InstallProofs` | `SlotIsExclusive` | `JobSlot`: two open jobs never share a device |
| | `TypeCorrect` | `Spec => []TypeOK` |
| | `OneOpenJob` | `Spec => []OneOpenJobPerDevice` |
| | `NotBeforeItsTime` | `Spec => []NothingBeforeItsTime` |
| | `ClosedStays` | `Spec => ClosedChangesOnlyByClaim` |
| | `TableIsSlot` | `Spec => ImplementsSlot`, the refinement of `JobSlot` |
| | `SystemTypes` | `SysSpec => []SysTypeOK` |
| | `Backed` | `SysSpec => []RunningIsBacked` |
| | `NotInterrupted` | `SysSpec => []InterruptedIsNotInstalling` |
| | `NoRerun` | `SysSpec => []NoRecordedRerun` |
| | `SystemIsBackend` | `SysSpec => ImplementsBackend`, the refinement of `InstallJobs` |
| | `SystemKeepsSlot` | the same system refines `JobSlot`, and inherits the two invariants |
| `RestartProofs` | `TypeCorrect` | `Spec => []TypeOK` |
| | `TableIsSlot` | `Spec => ImplementsSlot`, `JobSlot` without re-entry |
| | `Withdrawn` | `Spec => []WithdrawnStaysWithdrawn` |
| | `RestartIsLast` | `Spec => []RecordedRestartIsLast` |
| | `NothingToChoose` | `Spec => []OneOpenJob` |
| | `ClosedForGood` | a closed job keeps exactly the state it was closed with |
| `ReportingProofs` | `TypeCorrect` | `Spec => []TypeOK` |
| | `NothingIsLost` | `Spec => []NothingLost` |
| | `NewestDecides` | `Spec => []NewestWins` |
| | `TimelineIsPlausible` | `Spec => []TimelineAlternates` |
| | `SupersededIsWithdrawn` | `Spec => []SupersededWasWithdrawn` |
| `SelfUpdateProofs` | `TypeCorrect` | `Spec => []TypeOK` |
| | `ExeStays` | `Spec => []ExeInPlace` |
| | `WayStays` | `Spec => []WayBack` |
| | `DoneIsInstalled` | `Spec => DoneMeansInstalled` |
| | `RolledBackIsBack` | `Spec => []RolledBackUnraced` |
| `UpdateJobsProofs` | `TypeCorrect` | `Spec => []TypeOK` |
| | `StoreKeepsChecksum` | `Spec => []ReleaseMatches` |
| | `ClosedJobsStay` | `Spec => ClosedChangesOnlyByReport` |
| `ConsoleProofs` | `TrendsMatch` | `Spec => []DashboardSettles` |
| | `SignInComesBack` | `Spec => ComesBack` |
| `FiguresProofs` | `TypeCorrect` | `Spec => []TypeOK` |
| | `NumbersMatch` | `Spec => []NumbersMatchLists` |
| | `CountsAreOne` | `Spec => []CountsAgree` |
| `AdProofs` | `TypeCorrect` | `AdSchedule`: `Spec => []TypeOK` |
| | `NoOverlap` | `Spec => []OneRun` |
| | `TimerSettles` | `Spec => []SettledTimer` |
| | `RecordsCorrect` | `Directory`: `DirectorySpec => []DirectoryTypes` |
| | `HistoryIsKept` | `DirectorySpec => HistoryStays` |
| | `EnrolmentObeysDirectory` | `DirectorySpec => EnrollmentObeys` |

The assumptions are those the modules name, and TLC evaluates them in every run:
there is an update, the queue and a batch hold one snapshot at least, the agent's device is a device, the bounds are numbers, `NoJob`
is no job, the image's version is a version, the default of the dashboard is a choice it offers, devices, updates, reports and records are finitely many, units and host names are sequences and strings, `Null` is no value, `None` is no scope and no interval, `Nothing` no record, no account and no request, the refusable calls are those of the service manager, patches and seeds have their types.

**The install job table.** The inductive invariant is

    IInv == TypeOK /\ OneOpenJobPerDevice /\ NothingBeforeItsTime /\ ClaimsAreDue

`OneOpenJobPerDevice` needs only the types. The two statements that can open a
job look at the rows they write: the insert by the unique index, and the write
of a claim by the same index, because a claim that would reopen a closed job
while the device has a new one fails on it. `NothingBeforeItsTime` is not
inductive: `ClaimDeliver` and `ClaimClose` write the selected row without looking
at `not_before` again. `ClaimsAreDue` closes the gap: a request past its
selection holds a row that exists and is due, and a row that was due once stays
due. `ClosedStays` follows from the types of the claims alone. In `TableIsSlot`
every statement that changes `state` is a `Take`, a `Release` or a `Retake`; the
last is exactly the write of a claim over a job closed meanwhile.

**Agent and backend.** `RunningIsBacked` relates a row of the database to a file on
a device that may be a network away, and nothing keeps the two in step but the order in
which either side does things. `SInv` says that order: a job in a check-in's answer
was delivered and not yet reported on (`ClaimsAreOut`), what is in the queue and
on the wire was collected by this agent with the marker it had then
(`SnapshotsAreOurs`, `SeenStarted`, `BusyUnseen`), the marker agrees with the program
counters of cycle and background task (`AgentKnows`, `Phases`), a report that may still
arrive late is one whose result is owed (`Owed`), a job handed out but not
started has no report in flight (`Fresh`, `StartIsFirst`). Only together are these
preserved: each action disturbs several and needs several.

**Restart.** `IInv` adds to the types that the moment from which a young job's
restart is counted does not lie ahead (`YoungSince`), and that the gate is held for
a shutdown only while the restart is on disk for an open job (`GateHeld`); without them the types are not
inductive. `TableIsSlot` then shows that no statement
of the restart service ever writes a closed job open.

`Withdrawn` and `RestartIsLast` are about two parties that lose each other's messages, and
hold only together with what each may conclude from what it sees. `RInv` says it: an answer with a
job means that all others are over, one without that the job the agent still asks about is over
or on record as restarting (`AnswerTells`); a file is closed with a report that closes the job
(`ClosedTells`); a restart of the present boot that is on record, waiting or under way for an
open job is on the agent's file (`Begun`, with `Quiet` and `Stamped`). So when the machine
comes up, or the answer withdraws the job, every restart of it that may still be reported lies before
the boot, and the check-in that might hand the job out again has the later boot in hand
(`ThisBoot`) and closes it first (`Spent`). The steps of the coordinator enter these proofs
only by what they come to - it waits, tells, begins, fails or forgets (`CoordinatorDoes`) - and
those of the backend by `Kinds`.

**Reporting.** A snapshot exists in copies: in the queue, in the request the agent waits
for, in requests it has given up, in transactions. `BInv` holds whatever becomes of
them: copies agree (`Agree`), the marker lies behind every stored snapshot and before the one being
collected (`Marked`), which has every attempt in between (`Complete`), what the
agent hears of a request is true (`Heard`), and an attempt the backend does not know yet is in
the first snapshot after it, not in some later one (`First`, with `Spans`).
`NothingLost` follows, and needs no order at all.

The other three are about order. Requests the agent has given up go on, so that two may be at
work on the same snapshots; what keeps a late one from writing over a newer one is
that each handles a stretch of the queue that leaves out nothing (`InTurn`), that
the same snapshot is not taken twice and two transactions never overlap (`OneAtATime`), hence each
reads what the last one wrote (`ReadsLast`). `OInv` says so, up to the moment
`disordered` is set: when a snapshot was rejected and the agent did not hear of it, or another request was
still at work, a snapshot may come after a newer one, and then nothing of the
three is promised. Its centre is `Ahead`: what is queued and not taken is newer than
everything taken. `NewestWins` is then a matter of one transaction,
`TimelineAlternates` of `Line` and `Gone` - the time line lies behind what is still to come, and
what appeared is open or has its event. `SupersededWasWithdrawn` also follows an
update Windows installed through snapshots that no longer list it (`Explained`).

**The self-update.** The theorems assume nothing of what may be refused or killed, or
of the number of attempts. `IInv` has a part that holds always (`Sound`: what runs is
what `binPath` names, because it changes only while the service is stopped, unless a refused
stop has left it running; the state of the updater's copy follows from where the
updater is) and one that holds while service and updater have not written over each
other and one version runs (`Fine`: the copy is the marker, the service points at `from` before the swap
and at `target` once confirmed, the announced marker leads back to the version that
announces it, versions are deleted only after the marker). `BInv` counts: each attempt but one on either
way ended in a fault or a crash, so as long as `AttemptsLast` the limit is reached on neither.
The exceptions are needed: when a refused stop leaves the new version running
while `binPath` names the old one, its next job installs that one, fails
to download and deletes it.

**The releases.** A release is a row and a file, written one after the other by uploads,
removals and starts. `Consistent` says for a version no two uploads of which
have overlapped that one upload is under way at most (`Alone`), that there is no row
until it inserts one (`Vacant`), and that the file is its own from the moment it is stored
(`Stored`); then file and row agree. A removal only ever empties
either. `ClosedJobsStay` goes through every statement that writes a job: the clean-up, the
cancellation, the removal and the claim find only open ones, the claim because its
CASE looks at the state of the row it writes, whatever its subselect saw; what
remains is the report, which asks for nothing.

**The figures.** The properties of `Figures` compare queries in one state, and most of the proof is about
counting: `SumIs` characterises the community modules' sum over a finite set, `SumOfGroups`
says that what is counted group by group is counted once, `SumOfRows` that a relation is
counted alike from either side. Induction is by a smallest counterexample, among subsets of a
finite set or numbers, because the library's induction theorems take an operator. Then it
remains to show that two queries select the same rows, which needs two facts about the tables: only a device
with an agent has check-ins and states of updates and an agent version (`Reported`; it is why the piece of a
source or version, counted over agents, has the same devices as the list, which is not restricted to them),
and an update that is open has `first_available_at` (`OpenSince`; otherwise a device would fall
out of the buckets of patch age). An export asks for the filters of the page, or for the ids
the page's list was read as; the list under either is the same set, of which the limit
leaves a part (`ExportHolds`).

**The console.** `DashboardSettles` is about the end of a sequence of answers; `Settling`
is what each of them keeps: once the first answers are there and none has failed, the trends of the
choice are shown or asked for. The first answers may change the choice, but then
`loadTrends` follows (`ContinuedAsks`). `ComesBack` needs `Kept`: the login page
remembers the view that was taken away, whatever else is refused there and though it is
loaded anew.

**The scheduler.** `TimerOwed` says why the timer is right in the end although
nobody awaits `reschedule()`: when no save is still to notify and no reschedule still to
read, but the registered interval is not the stored one, a reschedule that has read the stored one
is about to register it. `SettledTimer` is the case in which none is. `OneRun` is inductive because it
says when `running` is true: while one call is between its question and its end, or for good
once a call has failed in `startRun()`, and then none runs.

**The records of a computer.** `DirectoryTypes` is inductive: besides the types it says that the
columns of a record agree and that no two records have the same account, of the committed
table and of the one a synchronisation sees (`Seen`), and that the agent speaks for a record that is
there. The hard step is `Upsert`: it writes what `Select` chose on a
table others have changed since. That no account has two records then is not the code's
doing but the unique index's (`Taken`), and that a commit keeps it that
everybody else waits for what is written (`MustWait`). `HistoryIsKept` needs `Looked`: whatever is about
to be dissolved, in the plan or already in `mine`, had no report when it was looked at,
and has none still unless the report came in between (`blind`). Others cannot report
to it later, because they wait. `EnrolmentObeysDirectory` needs `Obedient`: an enrolment that read a
decision of the directory wants to keep it, and it writes only columns in which its copy
differs from what it finds.

**Only model-checked.** Every invariant and every action property a passing run
checks is stated by a theorem; the runs remain because they found the invariants, and because
they show that the cases occur. Left to TLC are

* the properties of liveness (`ResultsArrive`, `JobsEnd`, `MarkerGoes`, `ServiceWorks`,
  `ClosedReachesAgent`, `QueueDrains`, `Converges`, `ComesToRest`, `TableFollowsScope`,
  `HeadsSettle`): their proofs need ENABLED and fairness, which the prover does not handle;
* the two refutations, which need a behaviour and not a proof.

Induction over data is done by smallest counterexamples where a proof needs it, because the
library's induction theorems take an operator the provers cannot instantiate.

## 6. Where the code and its documentation part

Two runs expect a violation; `PROJECT.json` quotes the lines.

* `catalog_deadlock`: snapshots of two devices upsert the same catalogue rows in
  different orders. PostgreSQL aborts one of the transactions, the backend answers "rejected",
  and the agent discards a snapshot that a second try would have brought in.
* `trend`: an attempt that fails lies between an update's appearance and its end;
  the curve of open updates never adds such an update again on its way back.

The following properties are defined in the modules and were refuted with the
counterexample on the way to those that hold. They are no runs, but whoever changes the code should
know them; the comment at each says how it fails.

| Property | Where | What happens |
|---|---|---|
| `CancelledNeverDone` | `install-jobs.service.ts:488` | a claim that finds nothing left to install closes the job by id: one cancelled meanwhile becomes done |
| `InterruptedWasCutShort` | `install-jobs.service.ts:549` | snapshots are sent before the result, so a finished job is closed as interrupted and its result refused |
| `VerifiedIsLeftAlone` | `Updater.cs:318` | the updater saves the marker it loaded; a confirmation in between is lost and the confirmed version taken back |
| `RolledBackMeansBack` | `Updater.cs:320` | the attempts of the swap count against the way back; after six the marker says "rolled back" without it |
| `ServiceWorks` without `astray` | `Updater.cs:190` | pointing back fails and is not looked at: the `binPath` names a version that does not work, for good |
| `ServiceWorks` without `AttemptsLast` | `Updater.cs:320` | the attempts are used up before the way back |
| `ExeInPlace` without `astray` | `Updater.cs:189`, `264` | the stop of an undo is refused and not looked at: the new version runs on and deletes what `binPath` names |
| `RestartedOnce` | `RestartCoordinator.cs:60-62` | the user restarts before the prompt, after the job's first five minutes: the machine is restarted for the job again |
| `ReturningKeepsJob` | `releases.service.ts:638-639` | the check-in of a device that comes back has moved `last_seen_at` before `abandonStalled` looks at it: the job is given up at once |
| `LatestAttemptCounts` | `checkin.service.ts:358`, `403-404` | of two attempts at one update in one snapshot the second is left out |
| `FailureCostsOneRun` | `ad-sync.service.ts:100-101` | `running` is set before `startRun()`, outside the `try`: when that fails, every later run is refused until the process ends |
| `HistoryStays` without `blind` | `ad-sync.service.ts:221-246` | an enrolment commits between the SELECT that finds a record without an agent and its DELETE by id: the record goes, and its history with it |
| `Right` without `OneHistory` | `enrollment.service.ts:70-107` | two first enrolments at once make two records; the agent may stay with the one that never gets an account |
| `NeverTrips` | `ad-scheduler.service.ts:143-147` | two reschedules meet at the registry; the second throws, unhandled |
| `FailuresAreFound` | `reports.service.ts:250` | the report of failures counts archived devices; the page of the update has none of them |
| `CriticalIsFound` | `DashboardView.vue:105-111` | the critical tile shows the devices whose security updates are overdue and leads to those with any open, against `reports.service.ts:73-76` |
| `RingsMatch` | `DashboardView.vue` | a device without check-ins counts as unknown but is not in the list of that source; the piece of active agents leads to silent ones too |
| `KeepsSession` | `auth.ts`, `router` | a 401 of an expired session arrives after the next sign-in and ends it |
| `LastChoiceStored` | `DashboardView.vue:565-589` | writes of the preference overtake each other, and the stored one, still on its way, takes back what was chosen |
| `RowsSettle` | `InstallationsTab.vue:88,100`, `AgentRolloutsTab.vue:125`, `RestartsView.vue:140` | the rows of an expanded request are merged into a copy taken before the await and may stay old |

Reading the code for the models also showed, without a property of its own:

* Restart: closing or killing the prompt defers without a limit, past the deadline. `Drop()`
  discards a report "restarting" that was not sent: if the machine was
  up again within the job's first five minutes, the next check-in hands the job out
  once more and the machine restarts again - also when that report comes in late, which
  `RecordedRestartIsLast` therefore excepts. A 404 on that report does
  not stop the restart. `RestartState.TryLoad` deletes the file on any `IOException`.
* Directory: enrolment matches a device by its host name alone, and
  its save after a concurrent synchronisation reactivates the device.
* Update jobs: a claim may hand out a job that was closed after it was selected
  (`releases.service.ts:541-550`); the state stays, the agent begins.
* Figures: the time to patch counts archived devices.
* Sign-in: two set-ups at once with different names both succeed
  (`auth.service.ts:88-91`); the signing secret memoizes a rejected promise; the router
  caches `setupRequired`.
* Console: the page of open updates merges rows as the lists of jobs do; the
  device list loads without a sequence guard, and selecting all matching devices may bring a
  dropped selection back; a list left during its first load leaks its interval; the settings page saves whole
  sections from forms that may be old.
* Settings: `updateAgent` and `setEnrollmentToken` read and write the same row; of
  two saves of the directory's section one with an empty password restores the old one.

## 7. Not modelled

`PROJECT.json` gives the reason for each component. Nothing of it decides
between interleavings:

* Agent: when a cycle starts (every module lets one start at any time), COM calls,
  windows, the protection of files, the service installer, self-diagnostics.
* Backend: LDAP, passwords and tokens, parsing of executables, migrations, the
  deletion of old events, medians and percentiles, the time to patch, agent problems, the health
  check.
* Console: forms, dialogs, tables, charts, the pages of a device and of the
  settings. They make up most of its lines, and show or send one object.
* Deployment; generated types and DTOs.

Left out inside the modelled parts: files that cannot be read or written for a moment,
more than one agent against a job table at a time, the file swap of agents before
0.8.0, a service that Windows itself restarts while the updater has it stopped,
which updates of a scope a job names, archiving of a device under its open jobs.

## 8. Plan

1. Theorems: under which condition `Trend`'s curve and `Catalog`'s transactions do what the
   two refutations deny (no failed attempt; one order of writes); when a late 401 leaves
   the session alone.
2. `SelfUpdate` composed with `UpdateJobs` in place of its own `CreateJob`,
   `CloseJob`, `Flush`, `Reported`, as `InstallSystem` is with `InstallJobs`.
3. The settings page with several sections and stale forms; the device list with
   its selection, on the pattern of `JobList`.
4. Sharing violations on `update.json`, once it is known which of them Windows
   produces.
