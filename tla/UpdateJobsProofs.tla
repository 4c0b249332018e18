-------------------------- MODULE UpdateJobsProofs --------------------------
(***************************************************************************)
(* The store of the agent's binaries keeps to its checksums, and only a    *)
(* report writes to a job that is over, for every number of uploads,       *)
(* versions and jobs. A release is a row and a file that several requests  *)
(* write one after the other; that they agree rests on there being one     *)
(* upload of the version at a time, which clash records.                   *)
(***************************************************************************)
EXTENDS UpdateJobs, TLAPS

\* Upload u has looked for the row of v and not inserted it yet.
At(u, v) == upload[u].pc \in {"store", "insert"} /\ upload[u].version = v

\* One upload at a time, ...
Alone(v) == \A u, w \in Uploads : At(u, v) /\ At(w, v) => u = w

\* ... the version without a row until it inserts one, ...
Vacant(v) == \A u \in Uploads : At(u, v) => row[v] = None

\* ... the file its own from the moment it is stored, ...
Stored(v) == \A u \in Uploads : At(u, v) /\ upload[u].pc = "insert" => file[v] \in {None, u}

\* ... and the row's afterwards.
Matches(v) == row[v] # None => file[v] \in {None, row[v]}

Consistent(v) == Alone(v) /\ Vacant(v) /\ Stored(v) /\ Matches(v)

IInv == TypeOK /\ \A v \in Versions \ clash : Consistent(v)

UploadType == [pc: {"idle", "over"}] \cup [pc: {"store", "insert"}, version: Versions]
CreatorType == {Idle} \cup [pc: {"select", "insert"}, version: Versions]
StateType == {"absent"} \cup Open \cup Closed

StoreOK ==
  /\ row \in [Versions -> Binaries \cup {None}]
  /\ file \in [Versions -> Binaries \cup {None}]
  /\ current \in Versions \cup {None} /\ clash \subseteq Versions
AdminOK ==
  /\ upload \in [Uploads -> UploadType]
  /\ remover \in {Idle} \cup [pc: {"jobs", "delete", "files"}, version: Versions]
  /\ creator \in [Creators -> CreatorType]
RowsOK ==
  /\ state \in [Jobs -> StateType] /\ target \in [Jobs -> Versions \cup {None}]
  /\ old \subseteq Jobs /\ seen \subseteq Jobs /\ fresh \subseteq Jobs
DeviceOK ==
  /\ version \in Versions \cup {None} /\ running \in Versions \cup {None}
  /\ working \subseteq Jobs
  /\ net \subseteq [job: Jobs, state: {"installing", "done", "failed"}]
CheckinOK ==
  checkin \in [pc: {"idle", "abandon", "select"}]
              \cup [pc: {"update", "release"}, job: Jobs]
              \cup [pc: {"answer"}, job: Jobs \cup {None}]

\* TypeOK in parts, before and after a step.
TypePartsOK == StoreOK /\ AdminOK /\ RowsOK /\ DeviceOK /\ CheckinOK

LEMMA TypeParts == (TypeOK <=> TypePartsOK) /\ (TypeOK' <=> TypePartsOK')
BY DEF TypeOK, TypePartsOK, StoreOK, AdminOK, RowsOK, DeviceOK, CheckinOK, UploadType, CreatorType,
       StateType

\* What a group of variables that does not change keeps.
LEMMA PartsKept ==
  /\ UNCHANGED storeVars /\ StoreOK => StoreOK'
  /\ UNCHANGED adminVars /\ AdminOK => AdminOK'
  /\ UNCHANGED jobVars /\ RowsOK => RowsOK'
  /\ UNCHANGED deviceVars /\ DeviceOK => DeviceOK'
  /\ UNCHANGED checkin /\ CheckinOK => CheckinOK'
BY DEF storeVars, adminVars, jobVars, deviceVars, StoreOK, AdminOK, RowsOK, DeviceOK, CheckinOK

LEMMA EndedType ==
  ASSUME NEW J, Ended(J), state \in [Jobs -> StateType]
  PROVE  state' \in [Jobs -> StateType]
BY DEF Ended, StateType, Closed

LEMMA ReleaseTypes == TypeOK /\ ReleaseNext => TypeOK'
<1> SUFFICES ASSUME TypeOK, ReleaseNext PROVE TypeOK'
  OBVIOUS
<1> USE TypeParts, PartsKept DEF TypePartsOK
<1>0. Idle \in UploadType /\ [pc |-> "over"] \in UploadType
  BY DEF Idle, UploadType
<1>1. ASSUME NEW u \in Uploads, NEW v \in Versions, PublishCheck(u, v) PROVE TypeOK'
  <2>1. [pc |-> "store", version |-> v] \in UploadType
    BY DEF UploadType
  <2>2. AdminOK'
    BY <1>1, <2>1 DEF PublishCheck, AdminOK
  <2>3. StoreOK'
    BY <1>1 DEF PublishCheck, StoreOK
  <2> QED
    BY <1>1, <2>2, <2>3 DEF PublishCheck
<1>2. ASSUME NEW u \in Uploads, PublishStore(u) PROVE TypeOK'
  <2>1. upload[u].version \in Versions /\ [upload[u] EXCEPT !.pc = "insert"] \in UploadType
    BY <1>2 DEF PublishStore, AdminOK, UploadType
  <2>2. AdminOK'
    BY <1>2, <2>1 DEF PublishStore, AdminOK
  <2>3. StoreOK'
    BY <1>2, <2>1 DEF PublishStore, StoreOK, Binaries
  <2> QED
    BY <1>2, <2>2, <2>3 DEF PublishStore
<1>3. ASSUME NEW u \in Uploads, PublishInsert(u) PROVE TypeOK'
  <2>1. AdminOK'
    BY <1>0, <1>3 DEF PublishInsert, AdminOK
  <2>2. StoreOK'
    BY <1>3 DEF PublishInsert, StoreOK, Binaries
  <2> QED
    BY <1>3, <2>1, <2>2 DEF PublishInsert
<1>4. ASSUME NEW v \in Versions, SetCurrent(v) \/ RemoveCheck(v) PROVE TypeOK'
  <2>1. StoreOK'
    BY <1>4 DEF SetCurrent, RemoveCheck, StoreOK, storeVars
  <2>2. AdminOK'
    BY <1>4 DEF SetCurrent, RemoveCheck, AdminOK, adminVars
  <2> QED
    BY <1>4, <2>1, <2>2 DEF SetCurrent, RemoveCheck
<1>5. CASE RemoveCheckJobs \/ RemoveRow \/ RemoveFiles
  <2>1. remover.version \in Versions /\ remover' \in {Idle} \cup [pc: {"jobs", "delete", "files"}, version: Versions]
    BY <1>5 DEF RemoveCheckJobs, RemoveRow, RemoveFiles, AdminOK, Idle
  <2>2. AdminOK'
    BY <1>5, <2>1 DEF RemoveCheckJobs, RemoveRow, RemoveFiles, AdminOK
  <2>3. StoreOK'
    BY <1>5, <2>1 DEF RemoveCheckJobs, RemoveRow, RemoveFiles, StoreOK, storeVars
  <2> QED
    BY <1>5, <2>2, <2>3 DEF RemoveCheckJobs, RemoveRow, RemoveFiles
<1>6. CASE Start
  <2>1. AdminOK'
    BY <1>0, <1>6 DEF Start, AdminOK, CreatorType
  <2>2. StoreOK'
    BY <1>6, BundledAssumption DEF Start, StoreOK, Binaries
  <2>3. RowsOK'
    BY <1>6, EndedType DEF Start, RowsOK
  <2>4. CheckinOK'
    BY <1>6 DEF Start, CheckinOK, Idle
  <2> QED
    BY <1>6, <2>1, <2>2, <2>3, <2>4 DEF Start
<1> QED
  BY <1>1, <1>2, <1>3, <1>4, <1>5, <1>6 DEF ReleaseNext

LEMMA JobTypes == TypeOK /\ JobNext => TypeOK'
<1> SUFFICES ASSUME TypeOK, JobNext PROVE TypeOK'
  OBVIOUS
<1> USE TypeParts, PartsKept DEF TypePartsOK
<1>1. ASSUME NEW c \in Creators, NEW v \in Versions, CreateCheck(c, v) PROVE TypeOK'
  <2>1. [pc |-> "select", version |-> v] \in CreatorType
    BY DEF CreatorType
  <2>2. AdminOK'
    BY <1>1, <2>1 DEF CreateCheck, AdminOK
  <2> QED
    BY <1>1, <2>2 DEF CreateCheck
<1>2. ASSUME NEW c \in Creators, CreateSelect(c) PROVE TypeOK'
  <2>1. [creator[c] EXCEPT !.pc = "insert"] \in CreatorType /\ Idle \in CreatorType
    BY <1>2 DEF CreateSelect, AdminOK, CreatorType, Idle
  <2>2. AdminOK'
    BY <1>2, <2>1 DEF CreateSelect, AdminOK
  <2> QED
    BY <1>2, <2>2 DEF CreateSelect
<1>3. ASSUME NEW c \in Creators, NEW j \in Jobs, CreateInsert(c, j) PROVE TypeOK'
  <2>1. creator[c].version \in Versions /\ Idle \in CreatorType
    BY <1>3 DEF CreateInsert, AdminOK, CreatorType, Idle
  <2>2. AdminOK'
    BY <1>3, <2>1 DEF CreateInsert, AdminOK
  <2>3. RowsOK'
    BY <1>3, <2>1 DEF CreateInsert, RowsOK, StateType, Open
  <2> QED
    BY <1>3, <2>2, <2>3 DEF CreateInsert
<1>4. ASSUME NEW j \in Jobs, Cancel(j) PROVE TypeOK'
  <2>1. RowsOK'
    BY <1>4, EndedType DEF Cancel, RowsOK
  <2> QED
    BY <1>4, <2>1 DEF Cancel
<1>5. ASSUME NEW r \in net, Report(r) \/ ReportLost(r) PROVE TypeOK'
  <2>1. r.job \in Jobs /\ r.state \in StateType
    BY DEF DeviceOK, StateType, Open, Closed
  <2>2. RowsOK'
    BY <1>5, <2>1 DEF Report, ReportLost, RowsOK, jobVars
  <2>3. DeviceOK'
    BY <1>5, <2>1 DEF Report, ReportLost, DeviceOK, RowsOK
  <2> QED
    BY <1>5, <2>2, <2>3 DEF Report, ReportLost
<1> QED
  BY <1>1, <1>2, <1>3, <1>4, <1>5 DEF JobNext

LEMMA CheckinTypes == TypeOK /\ CheckinNext => TypeOK'
<1> SUFFICES ASSUME TypeOK, CheckinNext PROVE TypeOK'
  OBVIOUS
<1> USE TypeParts, PartsKept DEF TypePartsOK
<1>1. CASE Ingest
  <2>1. RowsOK' /\ DeviceOK' /\ CheckinOK'
    BY <1>1 DEF Ingest, RowsOK, DeviceOK, CheckinOK
  <2> QED
    BY <1>1, <2>1 DEF Ingest
<1>2. CASE Abandon
  <2>1. RowsOK' /\ CheckinOK'
    BY <1>2, EndedType DEF Abandon, RowsOK, CheckinOK
  <2> QED
    BY <1>2, <2>1 DEF Abandon
<1>3. CASE ClaimSelect
  <2>1. CheckinOK'
    BY <1>3 DEF ClaimSelect, CheckinOK
  <2> QED
    BY <1>3, <2>1 DEF ClaimSelect
<1>4. CASE ClaimUpdate
  <2>1. checkin.job \in Jobs /\ CheckinOK'
    BY <1>4 DEF ClaimUpdate, CheckinOK
  <2>2. RowsOK'
    BY <1>4, <2>1 DEF ClaimUpdate, RowsOK, StateType, Open
  <2> QED
    BY <1>4, <2>1, <2>2 DEF ClaimUpdate
<1>5. CASE ClaimRelease
  <2>1. CheckinOK'
    BY <1>5 DEF ClaimRelease, CheckinOK
  <2>2. RowsOK'
    BY <1>5, EndedType DEF ClaimRelease, RowsOK
  <2> QED
    BY <1>5, <2>1, <2>2 DEF ClaimRelease
<1>6. CASE Answer \/ AnswerDropped
  <2>1. checkin.job \in Jobs \cup {None}
    BY <1>6 DEF Answer, AnswerDropped, CheckinOK
  <2>2. DeviceOK' /\ CheckinOK'
    BY <1>6, <2>1 DEF Answer, AnswerDropped, DeviceOK, deviceVars, CheckinOK, Idle
  <2> QED
    BY <1>6, <2>2 DEF Answer, AnswerDropped
<1> QED
  BY <1>1, <1>2, <1>3, <1>4, <1>5, <1>6 DEF CheckinNext

LEMMA DeviceTypes == TypeOK /\ DeviceNext => TypeOK'
<1> SUFFICES ASSUME TypeOK, DeviceNext PROVE TypeOK'
  OBVIOUS
<1> USE TypeParts, PartsKept DEF TypePartsOK
<1>1. ASSUME NEW j \in working, NEW s \in {"installing", "done", "failed"}, AgentReports(j, s)
      PROVE  TypeOK'
  <2>1. j \in Jobs /\ target[j] \in Versions \cup {None}
    BY DEF DeviceOK, RowsOK
  <2>2. DeviceOK'
    BY <1>1, <2>1 DEF AgentReports, DeviceOK
  <2> QED
    BY <1>1, <2>2 DEF AgentReports
<1>2. CASE ThreeHoursPass
  <2>1. RowsOK'
    BY <1>2 DEF ThreeHoursPass, RowsOK
  <2> QED
    BY <1>2, <2>1 DEF ThreeHoursPass
<1> QED
  BY <1>1, <1>2 DEF DeviceNext

LEMMA TypeInit == Init => TypeOK
BY DEF Init, Idle, TypeOK, Binaries

LEMMA TypeNext == TypeOK /\ [Next]_vars => TypeOK'
<1>1. TypeOK /\ UNCHANGED vars => TypeOK'
  BY TypeParts, PartsKept DEF TypePartsOK, vars
<1> QED
  BY <1>1, ReleaseTypes, JobTypes, CheckinTypes, DeviceTypes DEF Next

\* The tables of releases and update jobs, the store and the requests under way keep
\* their types (releases.service.ts).
THEOREM TypeCorrect == Spec => []TypeOK
BY TypeInit, TypeNext, PTL DEF Spec

-----------------------------------------------------------------------------
(* The store.                                                              *)

\* No step but those of uploads, of a removal and of a start touches the store.
LEMMA StoreFrame ==
  ASSUME Next \/ UNCHANGED vars
  PROVE  \/ UNCHANGED <<row, file, clash, upload>>
         \/ \E u \in Uploads : \/ \E v \in Versions : PublishCheck(u, v)
                               \/ PublishStore(u) \/ PublishInsert(u)
         \/ RemoveRow \/ RemoveFiles \/ Start
BY DEF Next, ReleaseNext, JobNext, CheckinNext, DeviceNext, vars, storeVars, adminVars,
       SetCurrent, RemoveCheck, RemoveCheckJobs, CreateCheck, CreateSelect, CreateInsert, Cancel,
       Report, ReportLost, Ingest, Abandon, ClaimSelect, ClaimUpdate, ClaimRelease, Answer,
       AnswerDropped, AgentReports, ThreeHoursPass

LEMMA StoreStep ==
  ASSUME IInv, [Next]_vars, NEW v \in Versions \ clash'
  PROVE  Consistent(v)'
<1> USE TypeParts DEF TypePartsOK, IInv
<1>0. clash \subseteq clash'
  BY StoreFrame DEF PublishCheck, PublishStore, PublishInsert, RemoveRow, RemoveFiles, Start
<1>a. Consistent(v)
  BY <1>0
<1> USE <1>a DEF Consistent, Alone, Vacant, Stored, Matches, At
<1>1. CASE UNCHANGED <<row, file, clash, upload>>
  BY <1>1
<1>2. ASSUME NEW u \in Uploads, NEW w \in Versions, PublishCheck(u, w) PROVE Consistent(v)'
  <2>1. /\ UNCHANGED <<row, file>> /\ row[w] = None
        /\ \A x \in Uploads : upload'[x] = IF x = u THEN [pc |-> "store", version |-> w] ELSE upload[x]
    BY <1>2 DEF PublishCheck, AdminOK
  <2>2. v = w => ~UnderWay(v)
    BY <1>2 DEF PublishCheck, StoreOK
  <2> QED
    BY <2>1, <2>2 DEF UnderWay
<1>3. ASSUME NEW u \in Uploads, PublishStore(u) PROVE Consistent(v)'
  <2> DEFINE m == [upload[u] EXCEPT !.pc = "insert"]
  <2>1. upload[u].version \in Versions /\ m.version = upload[u].version /\ m.pc = "insert"
    BY <1>3 DEF PublishStore, AdminOK, UploadType
  <2>2. /\ row' = row /\ upload[u].pc = "store"
        /\ file'[v] = IF v = upload[u].version THEN u ELSE file[v]
        /\ \A x \in Uploads : upload'[x] = IF x = u THEN m ELSE upload[x]
    BY <1>3, <2>1 DEF PublishStore, AdminOK, StoreOK
  <2> HIDE DEF m
  <2> QED
    BY <2>1, <2>2
<1>4. ASSUME NEW u \in Uploads, PublishInsert(u) PROVE Consistent(v)'
  <2>1. /\ file' = file /\ upload[u].pc = "insert"
        /\ row'[v] = IF v = upload[u].version /\ row[v] = None THEN u ELSE row[v]
        /\ \A x \in Uploads : upload'[x] = IF x = u THEN [pc |-> "over"] ELSE upload[x]
    BY <1>4 DEF PublishInsert, AdminOK, StoreOK
  <2> QED
    BY <2>1
<1>5. CASE RemoveRow \/ RemoveFiles
  <2>1. /\ upload' = upload /\ row'[v] \in {row[v], None} /\ file'[v] \in {file[v], None}
    BY <1>5 DEF RemoveRow, RemoveFiles, StoreOK
  <2> QED
    BY <2>1
<1>6. CASE Start
  <2>1. \A u \in Uploads : upload'[u].pc \notin {"store", "insert"}
    BY <1>6 DEF Start, Idle
  <2>2. \/ row'[v] = row[v] /\ file'[v] = file[v]
        \/ row'[v] = Image /\ file'[v] = Image
    BY <1>6, BundledAssumption DEF Start, StoreOK
  <2> QED
    BY <2>1, <2>2
<1> QED
  BY <1>1, <1>2, <1>3, <1>4, <1>5, <1>6, StoreFrame

\* The binary delivered for a release is the one its sha256 was taken of, however many
\* uploads, removals and starts there are, unless two uploads of the version have
\* overlapped (ReleasesService.publish, remove).
THEOREM StoreKeepsChecksum == Spec => []ReleaseMatches
<1>1. Init => IInv
  BY TypeInit DEF Init, Idle, IInv, Consistent, Alone, Vacant, Stored, Matches, At
<1>2. IInv /\ [Next]_vars => IInv'
  BY TypeNext, StoreStep DEF IInv
<1>3. IInv => ReleaseMatches
  BY DEF IInv, Consistent, Matches, ReleaseMatches
<1> QED
  BY <1>1, <1>2, <1>3, PTL DEF Spec

\* Giving jobs up leaves alone what is not among them.
LEMMA EndedLeaves ==
  ASSUME NEW J, Ended(J), NEW j \in Jobs, j \notin J
  PROVE  state'[j] = state[j]
BY DEF Ended

\* What is given up, whether stalled or without its release, is open; so is what is
\* delivered by a claim or cancelled. Only a report writes to a job that is over
\* (ReleasesService.claimJob, abandonStalled, closeOrphaned, cancelJobs, reportResult).
THEOREM ClosedJobsStay == Spec => ClosedChangesOnlyByReport
<1> DEFINE Step == \A j \in Jobs : state[j] \in Closed /\ state'[j] # state[j] =>
                     \E r \in net : r.job = j /\ Report(r)
<1>1. TypeOK /\ [Next]_vars => [Step]_vars
  <2> SUFFICES ASSUME TypeOK, Next, NEW j \in Jobs, state[j] \in Closed, state'[j] # state[j]
               PROVE  \E r \in net : r.job = j /\ Report(r)
    OBVIOUS
  <2>1. state \in [Jobs -> StateType] /\ j \notin Stalled /\ j \notin OpenJobs
    BY TypeParts DEF TypePartsOK, RowsOK, Stalled, OpenJobs, Open, Closed
  <2>2. ~ (UNCHANGED state) /\ ~ (\E J : j \notin J /\ Ended(J))
    BY EndedLeaves
  <2>3. ~Start
    BY <2>1, <2>2 DEF Start
  <2>4. ~ReleaseNext
    BY <2>2, <2>3 DEF ReleaseNext, PublishCheck, PublishStore, PublishInsert, SetCurrent,
           RemoveCheck, RemoveCheckJobs, RemoveRow, RemoveFiles, jobVars
  <2>5. ~Abandon /\ ~ClaimUpdate
    BY <2>1, <2>2 DEF Abandon, ClaimUpdate, Closed
  <2>6. ~ClaimRelease
    BY <2>1, <2>2 DEF ClaimRelease, Orphans
  <2>7. ~CheckinNext
    BY <2>2, <2>5, <2>6 DEF CheckinNext, Ingest, ClaimSelect, Answer, AnswerDropped, jobVars
  <2>8. ~DeviceNext
    BY <2>2 DEF DeviceNext, AgentReports, ThreeHoursPass, jobVars
  <2>9. \A c \in Creators : /\ \A v \in Versions : ~CreateCheck(c, v)
                           /\ ~CreateSelect(c)
                           /\ \A k \in Jobs : ~CreateInsert(c, k)
    BY <2>1, <2>2 DEF CreateCheck, CreateSelect, CreateInsert, jobVars, Closed
  <2>10. \A k \in Jobs : ~Cancel(k)
    <3> SUFFICES ASSUME NEW k \in Jobs, Cancel(k) PROVE FALSE
      OBVIOUS
    <3>1. k # j
      BY DEF Cancel, Open, Closed
    <3> QED
      BY <2>2, <3>1 DEF Cancel
  <2>11. PICK r \in net : Report(r)
    BY <2>2, <2>4, <2>7, <2>8, <2>9, <2>10 DEF Next, JobNext, ReportLost, jobVars
  <2>12. r.job = j
    BY <2>1, <2>11 DEF Report
  <2> QED
    BY <2>11, <2>12
<1>2. Spec => []TypeOK
  BY TypeCorrect
<1> QED
  BY <1>1, <1>2, PTL DEF Spec, ClosedChangesOnlyByReport
=============================================================================
