---------------------------- MODULE UpdateJobs ----------------------------
(***************************************************************************)
(* Agent releases and update jobs (backend/src/releases): the binaries an  *)
(* administrator uploads or the image brings along, the jobs that roll one *)
(* out to a device, the check-in that hands a job to the agent, and the    *)
(* reports that close it. The agent's side - download, exchange, roll-back *)
(* - is SelfUpdate; here it only runs a version and sends reports.         *)
(*                                                                         *)
(* Abstractions.                                                           *)
(*  - One device, active and enrolled. A job is its id; the rollout that   *)
(*    bundles it is left out, as cancelRollout() is cancelJobs() for some. *)
(*  - A binary is the upload it came from, and so is its sha256.           *)
(*  - Time is kept as the two comparisons with three hours: seen holds the *)
(*    jobs with last_seen_at > created_at + 3 h, fresh those delivered     *)
(*    less than 3 h ago.                                                   *)
(*  - One SQL statement is one step, except claimJob()'s UPDATE ... WHERE  *)
(*    id = (SELECT ...), whose subselect is not evaluated again when the   *)
(*    UPDATE had to wait, and createJobs()'s INSERT ... SELECT ... WHERE   *)
(*    NOT EXISTS, which does not see rows another transaction is about to  *)
(*    commit: READ COMMITTED makes each of them a read and a write.        *)
(***************************************************************************)
EXTENDS Naturals, FiniteSets

CONSTANTS
  Jobs,       \* ids of agent_update_jobs; their number bounds the model
  Versions,   \* versions an uploaded file can report
  Uploads,    \* POST /api/agent-releases requests, and the binaries they bring
  Creators,   \* concurrent POST /api/agent-updates requests
  Bundled,    \* the version of the binary in the image
  Image,      \* that binary
  None,       \* no version, no binary, no job
  MaxReports  \* bound: reports of the agent under way

ASSUME BundledAssumption == Bundled \in Versions

VARIABLES
  row,        \* row[v]: sha256 in agent_releases, None without a row
  file,       \* file[v]: the binary in the store, None without one
  current,    \* the version with is_current, or None
  upload,     \* upload[u]: how far publish() has come
  remover,    \* how far remove() has come
  creator,    \* creator[c]: how far createJobs() has come
  state,      \* state[j]: agent_update_job_state, "absent" without a row
  target,     \* target[j]: target_version
  old,        \* jobs created more than three hours ago
  seen,       \* jobs with last_seen_at > created_at + STALLED_AFTER_HOURS
  fresh,      \* jobs delivered less than three hours ago
  version,    \* devices.agent_version
  checkin,    \* how far the device's check-in has come
  running,    \* the version the device runs
  working,    \* jobs the agent has been handed and not answered for
  net,        \* its reports under way
  clash       \* history: versions two uploads of which were under way at once

storeVars  == <<row, file, current, clash>>
adminVars  == <<upload, remover, creator>>
jobVars    == <<state, target, old, seen, fresh>>
deviceVars == <<version, running, working, net>>
vars == <<storeVars, adminVars, jobVars, deviceVars, checkin>>

Undelivered == {"pending", "delivered"}
Open   == {"pending", "delivered", "installing"}
Closed == {"done", "failed"}

Idle == [pc |-> "idle"]
OpenJobs == {j \in Jobs : state[j] \in Open}

Init ==
  /\ row = [v \in Versions |-> None] /\ file = [v \in Versions |-> None]
  /\ current = None /\ clash = {}
  /\ upload = [u \in Uploads |-> Idle]
  /\ remover = Idle
  /\ creator = [c \in Creators |-> Idle]
  /\ state = [j \in Jobs |-> "absent"] /\ target = [j \in Jobs |-> None]
  /\ old = {} /\ seen = {} /\ fresh = {}
  /\ version = None /\ running = None
  /\ working = {} /\ net = {}
  /\ checkin = Idle

-----------------------------------------------------------------------------
(* Releases.                                                               *)

UnderWay(v) == \E u \in Uploads : upload[u].pc \in {"store", "insert"} /\ upload[u].version = v

PublishUnchecked(u, v) ==
  /\ upload[u] = Idle
  /\ upload' = [upload EXCEPT ![u] = [pc |-> "store", version |-> v]]
  /\ clash' = IF UnderWay(v) THEN clash \cup {v} ELSE clash
  /\ UNCHANGED <<row, file, current, remover, creator, jobVars, deviceVars, checkin>>

\* publish(): the version is read from the file, the row looked for, ...
PublishCheck(u, v) ==
  /\ row[v] = None
  /\ upload[u] = Idle
  /\ upload' = [upload EXCEPT ![u] = [pc |-> "store", version |-> v]]
  /\ clash' = IF UnderWay(v) THEN clash \cup {v} ELSE clash
  /\ UNCHANGED <<row, file, current, remover, creator, jobVars, deviceVars, checkin>>

\* ... the file moved to its place, ...
PublishStore(u) ==
  /\ upload[u].pc = "store"
  /\ file' = [file EXCEPT ![upload[u].version] = u]
  /\ upload' = [upload EXCEPT ![u].pc = "insert"]
  /\ UNCHANGED <<row, current, clash, remover, creator, jobVars, deviceVars, checkin>>

\* ... and the row inserted; version is unique, a second one is an error.
PublishInsert(u) ==
  LET v == upload[u].version IN
  /\ upload[u].pc = "insert"
  /\ row' = IF row[v] = None THEN [row EXCEPT ![v] = u] ELSE row
  /\ upload' = [upload EXCEPT ![u] = [pc |-> "over"]]
  /\ UNCHANGED <<file, current, clash, remover, creator, jobVars, deviceVars, checkin>>

\* setCurrent(): one transaction; idx_agent_releases_single_current.
SetCurrent(v) ==
  /\ row[v] # None /\ current # v
  /\ current' = v
  /\ UNCHANGED <<row, file, clash, adminVars, jobVars, deviceVars, checkin>>

\* remove(): not the current release, ...
RemoveCheck(v) ==
  /\ remover = Idle
  /\ row[v] # None /\ current # v
  /\ remover' = [pc |-> "jobs", version |-> v]
  /\ UNCHANGED <<storeVars, upload, creator, jobVars, deviceVars, checkin>>

\* ... none an open job needs, ...
RemoveCheckJobs ==
  /\ remover.pc = "jobs"
  /\ remover' = IF \E j \in OpenJobs : target[j] = remover.version
                THEN Idle ELSE [remover EXCEPT !.pc = "delete"]
  /\ UNCHANGED <<storeVars, upload, creator, jobVars, deviceVars, checkin>>

\* ... then the row goes, and last the directory.
RemoveRow ==
  /\ remover.pc = "delete"
  /\ row' = [row EXCEPT ![remover.version] = None]
  /\ current' = IF current = remover.version THEN None ELSE current
  /\ remover' = [remover EXCEPT !.pc = "files"]
  /\ UNCHANGED <<file, clash, upload, creator, jobVars, deviceVars, checkin>>

RemoveFiles ==
  /\ remover.pc = "files"
  /\ file' = [file EXCEPT ![remover.version] = None]
  /\ remover' = Idle
  /\ UNCHANGED <<row, current, clash, upload, creator, jobVars, deviceVars, checkin>>

-----------------------------------------------------------------------------
(* Jobs.                                                                   *)

\* createJobs(): the version, the current one if none was given, is known.
CreateCheck(c, v) ==
  /\ creator[c] = Idle
  /\ row[v] # None
  /\ creator' = [creator EXCEPT ![c] = [pc |-> "select", version |-> v]]
  /\ UNCHANGED <<storeVars, upload, remover, jobVars, deviceVars, checkin>>

\* The device is a candidate if it runs another version and has no open job.
Candidate(v) == version # v /\ OpenJobs = {}

CreateSelect(c) ==
  /\ creator[c].pc = "select"
  /\ creator' = [creator EXCEPT ![c] = IF Candidate(creator[c].version)
                                       THEN [@ EXCEPT !.pc = "insert"] ELSE Idle]
  /\ UNCHANGED <<storeVars, upload, remover, jobVars, deviceVars, checkin>>

CreateInsert(c, j) ==
  /\ creator[c].pc = "insert"
  /\ state[j] = "absent"
  /\ state'  = [state EXCEPT ![j] = "pending"]
  /\ target' = [target EXCEPT ![j] = creator[c].version]
  /\ creator' = [creator EXCEPT ![c] = Idle]
  /\ UNCHANGED <<storeVars, upload, remover, old, seen, fresh, deviceVars, checkin>>

EndedCancelled(J) == state' = [j \in Jobs |-> IF j \in J THEN "cancelled" ELSE state[j]]

Ended(J) == state' = [j \in Jobs |-> IF j \in J THEN "failed" ELSE state[j]]

\* cancelJobs() and cancelRollout()
Cancel(j) ==
  /\ state[j] \in Open
  /\ Ended({j})
  /\ UNCHANGED <<storeVars, adminVars, target, old, seen, fresh, deviceVars, checkin>>

StalledDelivered == {j \in Jobs : state[j] = "delivered" /\ j \in seen}

\* abandonStalled()
Stalled == {j \in Jobs : state[j] \in {"delivered", "installing"} /\ j \in seen}

\* closeOrphaned(), of the versions V
Orphans(V) == {j \in OpenJobs : target[j] \in V /\ row[target[j]] = None}

\* reportResult(): whatever the state was. "done" brings the version along.
Report(r) ==
  /\ r \in net
  /\ net' = net \ {r}
  /\ state' = [state EXCEPT ![r.job] = r.state]
  /\ version' = IF r.state = "done" THEN target[r.job] ELSE version
  /\ UNCHANGED <<storeVars, adminVars, target, old, seen, fresh,
                 running, working, checkin>>

\* The backend starts again: what was under way is gone, the image's binary is
\* adopted if its version is unknown, and what is left over is closed.
Start ==
  /\ upload' = [u \in Uploads |-> IF upload[u] = Idle THEN Idle ELSE [pc |-> "over"]]
  /\ remover' = Idle
  /\ creator' = [c \in Creators |-> Idle]
  /\ checkin' = Idle
  /\ IF row[Bundled] = None
     THEN /\ row'  = [row EXCEPT ![Bundled] = Image]
          /\ file' = [file EXCEPT ![Bundled] = Image]
          /\ current' = IF current = None THEN Bundled ELSE current
     ELSE UNCHANGED <<row, file, current>>
  /\ Ended(Stalled \cup {j \in OpenJobs : row'[target[j]] = None})
  /\ UNCHANGED <<clash, target, old, seen, fresh, deviceVars>>

-----------------------------------------------------------------------------
(* The check-in: ingest() touches the device, claimJob() hands out a job.  *)

Ingest ==
  /\ checkin = Idle
  /\ seen' = seen \cup old
  /\ version' = running
  /\ checkin' = [pc |-> "abandon"]
  /\ UNCHANGED <<storeVars, adminVars, state, target, old, fresh, running, working, net>>

Abandon ==
  /\ checkin.pc = "abandon"
  /\ Ended(Stalled)
  /\ checkin' = [pc |-> "select"]
  /\ UNCHANGED <<storeVars, adminVars, target, old, seen, fresh, deviceVars>>

\* ORDER BY created_at: which of two open jobs is older is left open.
ClaimSelect ==
  /\ checkin.pc = "select"
  /\ LET J == {j \in Jobs : state[j] \in Undelivered} IN
     IF J = {} THEN checkin' = [pc |-> "answer", job |-> None]
     ELSE \E j \in J : checkin' = [pc |-> "update", job |-> j]
  /\ UNCHANGED <<storeVars, adminVars, jobVars, deviceVars>>

ClaimUpdateAlways ==
  LET j == checkin.job IN
  /\ checkin.pc = "update"
  /\ state' = [state EXCEPT ![j] = "delivered"] /\ fresh' = fresh \cup {j}
  /\ checkin' = [checkin EXCEPT !.pc = "release"]
  /\ UNCHANGED <<storeVars, adminVars, target, old, seen, deviceVars>>

\* Only a pending job changes its state; any is returned.
ClaimUpdate ==
  LET j == checkin.job IN
  /\ checkin.pc = "update"
  /\ IF state[j] = "pending"
     THEN state' = [state EXCEPT ![j] = "delivered"] /\ fresh' = fresh \cup {j}
     ELSE UNCHANGED <<state, fresh>>
  /\ checkin' = [checkin EXCEPT !.pc = "release"]
  /\ UNCHANGED <<storeVars, adminVars, target, old, seen, deviceVars>>

\* Without its release the device's jobs on that version are closed.
ClaimRelease ==
  LET v == target[checkin.job] IN
  /\ checkin.pc = "release"
  /\ IF row[v] # None
     THEN checkin' = [checkin EXCEPT !.pc = "answer"] /\ UNCHANGED state
     ELSE checkin' = [pc |-> "answer", job |-> None] /\ Ended(Orphans({v}))
  /\ UNCHANGED <<storeVars, adminVars, target, old, seen, fresh, deviceVars>>

\* The agent takes the job of the last answer of its flush ...
Answer ==
  /\ checkin.pc = "answer"
  /\ working' = working \cup ({checkin.job} \ {None})
  /\ checkin' = Idle
  /\ UNCHANGED <<storeVars, adminVars, jobVars, version, running, net>>

\* ... and an earlier one is dropped, as one that gets lost is.
AnswerDropped ==
  /\ checkin.pc = "answer" /\ checkin.job # None
  /\ checkin' = Idle
  /\ UNCHANGED <<storeVars, adminVars, jobVars, deviceVars>>

-----------------------------------------------------------------------------
(* The device and time.                                                    *)

\* SelfUpdate's reports: "installing" before the exchange, then its outcome. A
\* done job has changed the version.
AgentReports(j, s) ==
  /\ j \in working /\ Cardinality(net) < MaxReports
  /\ net' = net \cup {[job |-> j, state |-> s]}
  /\ working' = IF s = "installing" THEN working ELSE working \ {j}
  /\ running' = IF s = "done" THEN target[j] ELSE running
  /\ UNCHANGED <<storeVars, adminVars, jobVars, version, checkin>>

ReportLost(r) ==
  /\ r \in net
  /\ net' = net \ {r}
  /\ UNCHANGED <<storeVars, adminVars, jobVars, version, running, working, checkin>>

ThreeHoursPass ==
  /\ old' = {j \in Jobs : state[j] # "absent"} /\ fresh' = {}
  /\ <<old, fresh>> # <<old', fresh'>>
  /\ UNCHANGED <<storeVars, adminVars, state, target, seen, deviceVars, checkin>>

-----------------------------------------------------------------------------

ReleaseNext ==
  \/ \E u \in Uploads : \/ \E v \in Versions : PublishCheck(u, v)
                        \/ PublishStore(u) \/ PublishInsert(u)
  \/ \E v \in Versions : SetCurrent(v) \/ RemoveCheck(v)
  \/ RemoveCheckJobs \/ RemoveRow \/ RemoveFiles
  \/ Start

JobNext ==
  \/ \E c \in Creators : \/ \E v \in Versions : CreateCheck(c, v)
                         \/ CreateSelect(c)
                         \/ \E j \in Jobs : CreateInsert(c, j)
  \/ \E j \in Jobs : Cancel(j)
  \/ \E r \in net : Report(r) \/ ReportLost(r)

CheckinNext ==
  Ingest \/ Abandon \/ ClaimSelect \/ ClaimUpdate \/ ClaimRelease \/ Answer \/ AnswerDropped

DeviceNext ==
  \/ \E j \in working, s \in {"installing", "done", "failed"} : AgentReports(j, s)
  \/ ThreeHoursPass

Next == ReleaseNext \/ JobNext \/ CheckinNext \/ DeviceNext
Spec == Init /\ [][Next]_vars

\* The device keeps checking in and time passes. The agent may never report.
LiveSpec == Spec /\ WF_vars(CheckinNext) /\ WF_vars(ThreeHoursPass)

-----------------------------------------------------------------------------

Binaries == Uploads \cup {Image}

TypeOK ==
  /\ row \in [Versions -> Binaries \cup {None}]
  /\ file \in [Versions -> Binaries \cup {None}]
  /\ current \in Versions \cup {None} /\ clash \subseteq Versions
  /\ upload \in [Uploads -> [pc: {"idle", "over"}]
                            \cup [pc: {"store", "insert"}, version: Versions]]
  /\ remover \in {Idle} \cup [pc: {"jobs", "delete", "files"}, version: Versions]
  /\ creator \in [Creators -> {Idle} \cup [pc: {"select", "insert"}, version: Versions]]
  /\ state \in [Jobs -> {"absent"} \cup Open \cup Closed]
  /\ target \in [Jobs -> Versions \cup {None}]
  /\ old \subseteq Jobs /\ seen \subseteq Jobs /\ fresh \subseteq Jobs
  /\ version \in Versions \cup {None} /\ running \in Versions \cup {None}
  /\ checkin \in [pc: {"idle", "abandon", "select"}]
                 \cup [pc: {"update", "release"}, job: Jobs]
                 \cup [pc: {"answer"}, job: Jobs \cup {None}]
  /\ working \subseteq Jobs
  /\ net \subseteq [job: Jobs, state: {"installing", "done", "failed"}]

\* The binary delivered for a release is the one its sha256 was taken of, unless
\* two uploads of the version have overlapped: then the one that is refused has
\* already replaced the file of the other.
ReleaseMatches ==
  \A v \in Versions \ clash : row[v] # None => file[v] \in {None, row[v]}

\* A job that is over changes only when the device's agent reports on that very job. No claim
\* of it begun earlier, no second job handed out, no release that is gone, nothing given up or
\* cancelled later writes to it.
ClosedChangesOnlyByReport ==
  [][\A j \in Jobs : state[j] \in Closed /\ state'[j] # state[j] =>
       \E r \in net : r.job = j /\ Report(r)]_vars

\* A restart of the backend breaks off the check-in.
BrokenOff == checkin.pc \notin {"idle", "answer"} /\ checkin' = Idle

\* Every job ends while the device keeps checking in, whatever its agent does or
\* fails to report - if not every check-in is broken off. Else createJobs() would
\* pass over the device for good.
JobsEnd ==
  <>[][~BrokenOff]_vars => \A j \in Jobs : (state[j] \in Open ~> state[j] \in Closed)

\* Refuted: "Ein ausgeschalteter Laptop behaelt seinen Auftrag" (releases.service.ts:638),
\* only a job delivered three hours ago is given up. The check-in of a device that comes
\* back has just moved last_seen_at when abandonStalled() looks at it.
ReturningKeepsJob ==
  [][\A j \in Jobs : Abandon /\ state[j] \in Open /\ state'[j] = "failed" => j \notin fresh]_vars
=============================================================================
