---------------------------- MODULE AdProofs ----------------------------
(***************************************************************************)
(* The synchronisation with the directory, for any number of requests,     *)
(* runs, records and accounts.                                             *)
(*                                                                         *)
(* AdSchedule: the types, that two runs never overlap, and that the timer  *)
(* ends up with the stored interval. That two runs never overlap is what   *)
(* Directory starts from: it has one synchronisation at a time.            *)
(*                                                                         *)
(* Directory: what is committed and what a synchronisation is about to     *)
(* commit are tables in which no account has two records; a record is      *)
(* dissolved under an agent that has reported to it only if the report     *)
(* came between the look at it and the DELETE; and an enrolment does not   *)
(* take back what the directory decided before it read the record.         *)
(***************************************************************************)
EXTENDS AdSchedule, Directory, TLAPS

-----------------------------------------------------------------------------
(* AdSchedule.                                                              *)

\* A reschedule() that is going to set the timer to what is stored, or to end the process
\* because there is a timer already.
Setting == \E s \in Savers : reschedule[s] = [at |-> "read", config |-> stored]

\* Nothing that is still to happen will take the timer away and read again.
Quiet == \A s \in Savers : save[s].at # "written" /\ reschedule[s].at # "getAd"

\* The timer may lag behind while a reschedule() is under way, but then one of them carries
\* what is stored.
TimerOwed == (up /\ Configured(stored) /\ Quiet) => (timer = stored.minutes \/ Setting)

\* A merged section is a section.
LEMMA MergedType ==
  ASSUME NEW c \in Config, NEW p \in Patches
  PROVE  Merged(c, p) \in Config
<1>1. p \in [scope : Scopes \cup {None, Unsent}, minutes : Minutes \cup {Unsent}]
  BY AdScheduleAssumption
<1> QED
  BY <1>1 DEF Merged, Config

\* The end of the process leaves everything empty.
LEMMA ExitType ==
  ASSUME Exit
  PROVE  /\ save' \in [Savers -> Saves] /\ reschedule' \in [Savers -> Reschedules]
         /\ sync' \in [Syncs -> Calls] /\ timer' \in Minutes \cup {None}
         /\ lastScope' \in Scopes \cup {None}
         /\ up' = FALSE /\ startup' = FALSE
         /\ running' = FALSE /\ rerun' = FALSE /\ stuck' = FALSE
BY DEF Exit, Saves, NoSave, Reschedules, Idle, Calls, Asleep

\* A scheduled call is marked, or takes a place that is free.
LEMMA ScheduledType ==
  ASSUME TypeOK, Scheduled
  PROVE  /\ sync' \in [Syncs -> Calls] /\ rerun' \in BOOLEAN
         /\ \A y \in Syncs : sync'[y].at = "run" <=> sync[y].at = "run"
<1>1. CASE running
  BY <1>1 DEF Scheduled, TypeOK
<1>2. CASE ~running
  <2>1. PICK y \in Syncs : sync[y].at = "idle" /\ sync' = Called(sync, y)
    BY <1>2 DEF Scheduled
  <2> QED
    BY <1>2, <2>1 DEF Scheduled, Called, TypeOK, Calls
<1> QED
  BY <1>1, <1>2

-----------------------------------------------------------------------------
LEMMA InitTypes == Init => TypeOK
<1> SUFFICES ASSUME Init PROVE TypeOK
  OBVIOUS
<1>1. stored \in Config
  BY AdScheduleAssumption DEF Init, Config
<1>2. NoSave \in Saves /\ Idle \in Reschedules /\ Asleep \in Calls
  BY DEF NoSave, Saves, Idle, Reschedules, Asleep, Calls
<1>3. /\ save \in [Savers -> Saves] /\ reschedule \in [Savers -> Reschedules]
      /\ sync \in [Syncs -> Calls]
  BY <1>2 DEF Init
<1> QED
  BY <1>1, <1>3 DEF Init, TypeOK

LEMMA NextTypes == TypeOK /\ [Next]_vars => TypeOK'
<1> SUFFICES ASSUME TypeOK, [Next]_vars PROVE TypeOK'
  OBVIOUS
<1>1. CASE Boot
  BY <1>1 DEF Boot, Configured, TypeOK, Config
<1>2. CASE Crash
  BY <1>2, ExitType DEF Crash, TypeOK
<1>3. CASE Tick
  BY <1>3, ScheduledType DEF Tick, TypeOK
<1>4. CASE StartupRun
  BY <1>4, ScheduledType DEF StartupRun, TypeOK
<1>5. ASSUME NEW y \in Syncs, Manual(y) PROVE TypeOK'
  BY <1>5 DEF Manual, Called, TypeOK, Calls
<1>6. ASSUME NEW y \in Syncs, ReadForRun(y) PROVE TypeOK'
  BY <1>6 DEF ReadForRun, TypeOK, Calls, Config
<1>7. ASSUME NEW y \in Syncs, Begin(y) PROVE TypeOK'
  <2>1. CASE sync[y].scope # None /\ ~running
    <3>1. [sync[y] EXCEPT !.at = "run"] \in Calls
      BY <1>7, <2>1 DEF Begin, TypeOK, Calls
    <3> QED
      BY <1>7, <2>1, <3>1 DEF Begin, TypeOK
  <2>2. CASE ~(sync[y].scope # None /\ ~running)
    BY <1>7, <2>2 DEF Begin, TypeOK, Calls, Asleep
  <2> QED
    BY <2>1, <2>2
<1>8. ASSUME NEW y \in Syncs, NEW ok \in BOOLEAN, End(y, ok) PROVE TypeOK'
  BY <1>8 DEF End, Called, TypeOK, Calls, Asleep
<1>9. ASSUME NEW s \in Savers, NEW patch \in Patches, Save(s, patch) PROVE TypeOK'
  BY <1>9 DEF Save, TypeOK, Saves
<1>10. ASSUME NEW s \in Savers, ReadForSave(s) PROVE TypeOK'
  <2>1. save[s].patch \in Patches
    BY <1>10 DEF ReadForSave, TypeOK, Saves, NoSave
  <2>2. [save[s] EXCEPT !.at = "read", !.config = stored] \in Saves
    BY <1>10, <2>1 DEF ReadForSave, TypeOK, Saves, NoSave
  <2> QED
    BY <1>10, <2>2 DEF ReadForSave, TypeOK
<1>11. ASSUME NEW s \in Savers, Write(s) PROVE TypeOK'
  <2>1. save[s].config \in Config /\ save[s].patch \in Patches
    BY <1>11 DEF Write, TypeOK, Saves, NoSave
  <2>2. stored' \in Config
    BY <1>11, <2>1, MergedType DEF Write
  <2> QED
    BY <1>11, <2>2 DEF Write, TypeOK, Saves
<1>12. ASSUME NEW s \in Savers, Notify(s) PROVE TypeOK'
  BY <1>12 DEF Notify, TypeOK, Saves, NoSave, Reschedules
<1>13. ASSUME NEW s \in Savers, ReadForTimer(s) PROVE TypeOK'
  BY <1>13 DEF ReadForTimer, TypeOK, Reschedules
<1>14. ASSUME NEW s \in Savers, StayOut(s) PROVE TypeOK'
  BY <1>14 DEF StayOut, TypeOK, Reschedules, Idle
<1>15. ASSUME NEW s \in Savers, SetTimer(s) PROVE TypeOK'
  <2>1. reschedule[s].config \in Config
    BY <1>15 DEF SetTimer, TypeOK, Reschedules
  <2>2. lastScope' \in Scopes \cup {None} /\ timer' \in Minutes \cup {None}
    BY <1>15, <2>1 DEF SetTimer, Config
  <2>3. sync' \in [Syncs -> Calls] /\ rerun' \in BOOLEAN
    BY <1>15, ScheduledType DEF SetTimer, RunIfChanged, TypeOK
  <2> QED
    BY <1>15, <2>2, <2>3 DEF SetTimer, TypeOK, Reschedules, Idle
<1>16. ASSUME NEW s \in Savers, Trip(s) PROVE TypeOK'
  BY <1>16, ExitType DEF Trip, TypeOK
<1>17. ASSUME NEW y \in Syncs, StartRunFails(y) PROVE TypeOK'
  BY <1>17 DEF StartRunFails, TypeOK, Calls, Asleep
<1>18. CASE UNCHANGED vars
  BY <1>18 DEF vars, TypeOK
<1> QED
  BY <1>1, <1>2, <1>3, <1>4, <1>5, <1>6, <1>7, <1>8, <1>9, <1>10, <1>11, <1>12, <1>13,
     <1>14, <1>15, <1>16, <1>17, <1>18 DEF Next

\* Every variable has its type, and a save, a reschedule and a run have read what they go on
\* with by the time they do.
THEOREM TypeCorrect == Spec => []TypeOK
BY InitTypes, NextTypes, PTL DEF Spec

-----------------------------------------------------------------------------
LEMMA NextOneRun == TypeOK /\ OneRun /\ [Next]_vars => OneRun'
<1> SUFFICES ASSUME TypeOK, OneRun, [Next]_vars PROVE OneRun'
  OBVIOUS
<1>1. ASSUME running' = running, stuck' = stuck,
             \A y \in Syncs : sync'[y].at = "run" <=> sync[y].at = "run"
      PROVE OneRun'
  BY <1>1 DEF OneRun
<1>2. CASE Crash \/ \E s \in Savers : Trip(s)
  BY <1>2 DEF Crash, Trip, Exit, OneRun, Asleep
<1>3. CASE Boot \/ UNCHANGED vars
  BY <1>3 DEF Boot, vars, OneRun
<1>4. CASE Tick \/ StartupRun
  BY <1>1, <1>4, ScheduledType DEF Tick, StartupRun
<1>5. ASSUME NEW y \in Syncs, Manual(y) \/ ReadForRun(y) PROVE OneRun'
  BY <1>1, <1>5 DEF Manual, ReadForRun, Called, TypeOK
<1>6. ASSUME NEW y \in Syncs, Begin(y) PROVE OneRun'
  BY <1>6 DEF Begin, Asleep, TypeOK, Calls, OneRun
<1>7. ASSUME NEW y \in Syncs, NEW ok \in BOOLEAN, End(y, ok) PROVE OneRun'
  BY <1>7 DEF End, Called, Asleep, TypeOK, OneRun
<1>8. ASSUME NEW s \in Savers, SetTimer(s) PROVE OneRun'
  BY <1>1, <1>8, ScheduledType DEF SetTimer, RunIfChanged
<1>9. ASSUME NEW s \in Savers,
             \/ \E patch \in Patches : Save(s, patch)
             \/ ReadForSave(s) \/ Write(s) \/ Notify(s) \/ ReadForTimer(s) \/ StayOut(s)
      PROVE OneRun'
  BY <1>1, <1>9 DEF Save, ReadForSave, Write, Notify, ReadForTimer, StayOut
<1>10. ASSUME NEW y \in Syncs, StartRunFails(y) PROVE OneRun'
  BY <1>10 DEF StartRunFails, Asleep, TypeOK, OneRun
<1> QED
  BY <1>2, <1>3, <1>4, <1>5, <1>6, <1>7, <1>8, <1>9, <1>10 DEF Next

\* Two runs never overlap, however many calls of sync() have read their settings at the
\* same time, and `running` is set while one goes on, or for good after a startRun() that
\* failed (ad-sync.service.ts:96-101).
THEOREM NoOverlap == Spec => []OneRun
<1>1. Init => OneRun
  BY DEF Init, OneRun, Asleep
<1> QED
  BY <1>1, TypeCorrect, NextOneRun, PTL DEF Spec

-----------------------------------------------------------------------------
LEMMA NextOwed == TypeOK /\ TimerOwed /\ [Next]_vars => TimerOwed'
<1> SUFFICES ASSUME TypeOK, TimerOwed, [Next]_vars, up', Configured(stored)', Quiet'
             PROVE  timer' = stored'.minutes \/ Setting'
  BY DEF TimerOwed
<1> USE DEF Configured
<1>1. CASE Boot
  BY <1>1 DEF Boot
<1>2. CASE Crash \/ \E s \in Savers : Trip(s)
  BY <1>2 DEF Crash, Trip, Exit
<1>3. ASSUME UNCHANGED <<stored, up, timer, reschedule>>,
             \A s \in Savers : save[s].at = "written" => save'[s].at = "written"
      PROVE  timer' = stored'.minutes \/ Setting'
  BY <1>3 DEF TimerOwed, Quiet, Setting
<1>4. CASE Tick \/ StartupRun \/ UNCHANGED vars
  BY <1>3, <1>4 DEF Tick, StartupRun, vars
<1>5. ASSUME NEW y \in Syncs,
             \/ Manual(y) \/ ReadForRun(y) \/ Begin(y) \/ StartRunFails(y)
             \/ \E ok \in BOOLEAN : End(y, ok)
      PROVE  timer' = stored'.minutes \/ Setting'
  BY <1>3, <1>5 DEF Manual, ReadForRun, Begin, StartRunFails, End
<1>6. ASSUME NEW s \in Savers, (\E patch \in Patches : Save(s, patch)) \/ ReadForSave(s)
      PROVE  timer' = stored'.minutes \/ Setting'
  BY <1>3, <1>6 DEF Save, ReadForSave, TypeOK
<1>7. ASSUME NEW s \in Savers, Write(s) PROVE FALSE
  BY <1>7 DEF Write, Quiet, TypeOK, NoSave
<1>8. ASSUME NEW s \in Savers, Notify(s) PROVE FALSE
  BY <1>8 DEF Notify, Quiet, TypeOK
<1>9. ASSUME NEW s \in Savers, ReadForTimer(s) PROVE Setting'
  BY <1>9 DEF ReadForTimer, Setting, TypeOK
<1>10. ASSUME NEW s \in Savers, StayOut(s) PROVE timer' = stored'.minutes \/ Setting'
  <2>1. Quiet /\ UNCHANGED <<stored, up, timer>>
    BY <1>10 DEF StayOut, Quiet, TypeOK
  <2>2. CASE timer = stored.minutes
    BY <2>1, <2>2
  <2>3. CASE Setting
    <3>1. PICK t \in Savers : reschedule[t] = [at |-> "read", config |-> stored]
      BY <2>3 DEF Setting
    <3>2. t # s
      BY <1>10, <2>1, <3>1 DEF StayOut
    <3> QED
      BY <1>10, <2>1, <3>1, <3>2 DEF StayOut, Setting, TypeOK
  <2> QED
    BY <2>1, <2>2, <2>3 DEF TimerOwed
<1>11. ASSUME NEW s \in Savers, SetTimer(s) PROVE timer' = stored'.minutes \/ Setting'
  <2>1. Quiet /\ UNCHANGED <<stored, up>>
    BY <1>11 DEF SetTimer, Quiet, TypeOK
  <2>2. CASE Setting
    <3>1. PICK t \in Savers : reschedule[t] = [at |-> "read", config |-> stored]
      BY <2>2 DEF Setting
    <3>2. CASE t = s
      BY <1>11, <2>1, <3>1, <3>2 DEF SetTimer
    <3>3. CASE t # s
      BY <1>11, <2>1, <3>1, <3>3 DEF SetTimer, Setting, TypeOK
    <3> QED
      BY <3>2, <3>3
  <2>3. CASE ~Setting
    BY <1>11, <2>1, <2>3, AdScheduleAssumption DEF SetTimer, TimerOwed, TypeOK, Config
  <2> QED
    BY <2>2, <2>3
<1> QED
  BY <1>1, <1>2, <1>4, <1>5, <1>6, <1>7, <1>8, <1>9, <1>10, <1>11 DEF Next

\* When every save has been followed up, the timer runs with the interval that is stored,
\* whichever of the requests wrote, read or registered last.
THEOREM TimerSettles == Spec => []SettledTimer
<1>1. Init => TimerOwed
  BY DEF Init, TimerOwed
<1>2. TimerOwed => SettledTimer
  BY DEF TimerOwed, SettledTimer, Quiet, Setting
<1> QED
  BY <1>1, <1>2, TypeCorrect, NextOwed, PTL DEF Spec

-----------------------------------------------------------------------------
(* Records and tables.                                                      *)

\* What is not there.
LEMMA NoRowSound == /\ NoRow \in Record /\ Sound(NoRow)
                    /\ NoRow.enrolled = 0 /\ NoRow.guid = Nothing /\ NoRow.status = "none"
                    /\ DOMAIN NoRow = {"status", "reason", "guid", "enrolled"}
BY DEF NoRow, Record, Sound

\* A record in use has a status.
LEMMA Used == ASSUME NEW t, Table(t), NEW r \in Rows, t[r].enrolled > 0
              PROVE  t[r].status # "none"
<1>1. SUFFICES ASSUME t[r].status = "none" PROVE FALSE
  OBVIOUS
<1>2. t[r] = NoRow
  BY <1>1 DEF Table, Sound
<1>3. t[r].enrolled = 0
  BY <1>2, NoRowSound
<1>4. QED BY <1>3

\* What New gives is a record of an active device.
LEMMA NewSound ==
  ASSUME NEW g \in Accounts \cup {Nothing}, NEW n \in Nat
  PROVE  /\ New(g, n) \in Record /\ Sound(New(g, n))
         /\ New(g, n).guid = g /\ New(g, n).enrolled = n /\ New(g, n).status = "active"
<1>1. /\ New(g, n) \in Record /\ New(g, n).status = "active"
      /\ New(g, n).guid = g /\ New(g, n).enrolled = n
  BY DEF New, Record
<1>2. New(g, n) # NoRow
  BY <1>1, NoRowSound
<1>3. QED BY <1>1, <1>2 DEF Sound

\* Two columns of a record are set, or three.
LEMMA TwoSet ==
  ASSUME NEW copy \in Record, NEW status, NEW reason
  PROVE  [copy EXCEPT !.status = status, !.reason = reason]
           = [status |-> status, reason |-> reason, guid |-> copy.guid, enrolled |-> copy.enrolled]
<1> DEFINE w == [copy EXCEPT !.status = status, !.reason = reason]
<1>1. copy = [f \in {"status", "reason", "guid", "enrolled"} |-> copy[f]]
  BY DEF Record
<1>2. DOMAIN w = {"status", "reason", "guid", "enrolled"} /\ w = [f \in DOMAIN copy |-> w[f]]
  BY <1>1
<1>3. w.status = status /\ w.reason = reason /\ w.guid = copy.guid /\ w.enrolled = copy.enrolled
  BY <1>1
<1> HIDE DEF w
<1>4. w = [status |-> status, reason |-> reason, guid |-> copy.guid, enrolled |-> copy.enrolled]
  BY <1>1, <1>2, <1>3
<1>5. QED BY <1>4 DEF w

LEMMA ThreeSet ==
  ASSUME NEW copy \in Record, NEW status, NEW reason, NEW enrolled
  PROVE  [copy EXCEPT !.status = status, !.reason = reason, !.enrolled = enrolled]
           = [status |-> status, reason |-> reason, guid |-> copy.guid, enrolled |-> enrolled]
<1> DEFINE w == [copy EXCEPT !.status = status, !.reason = reason, !.enrolled = enrolled]
<1>1. copy = [f \in {"status", "reason", "guid", "enrolled"} |-> copy[f]]
  BY DEF Record
<1>2. DOMAIN w = {"status", "reason", "guid", "enrolled"} /\ w = [f \in DOMAIN copy |-> w[f]]
  BY <1>1
<1>3. w.status = status /\ w.reason = reason /\ w.guid = copy.guid /\ w.enrolled = enrolled
  BY <1>1
<1> HIDE DEF w
<1>4. w = [status |-> status, reason |-> reason, guid |-> copy.guid, enrolled |-> enrolled]
  BY <1>1, <1>2, <1>3
<1>5. QED BY <1>4 DEF w

\* The columns of a record in use.
Statuses == {"active", "archived"}
Reasons == {"", "directory", "hand"}

\* A record in use that differs from its copy in status and reason only.
Restated(x, copy, status) == /\ x \in Record /\ Sound(x) /\ x.status = status
                             /\ x.guid = copy.guid /\ x.enrolled = copy.enrolled

\* Status and reason of a record in use are set anew.
LEMMA StatusSet ==
  ASSUME NEW copy \in Record, NEW status \in Statuses, NEW reason \in Reasons
  PROVE  Restated([copy EXCEPT !.status = status, !.reason = reason], copy, status)
<1> DEFINE x == [copy EXCEPT !.status = status, !.reason = reason]
<1>1. x = [status |-> status, reason |-> reason, guid |-> copy.guid, enrolled |-> copy.enrolled]
  BY TwoSet
<1>2. copy.guid \in Accounts \cup {Nothing} /\ copy.enrolled \in Nat
  BY DEF Record
<1> HIDE DEF x
<1>3. /\ x \in Record /\ x.status = status /\ x.guid = copy.guid /\ x.enrolled = copy.enrolled
  BY <1>1, <1>2 DEF Record, Statuses, Reasons
<1>4. x # NoRow
  BY <1>3, NoRowSound DEF Statuses
<1>5. Sound(x)
  BY <1>3, <1>4 DEF Sound, Statuses
<1>6. Restated(x, copy, status)
  BY <1>3, <1>5 DEF Restated
<1>7. QED BY <1>6 DEF x

\* What an enrolment wants to write is a record with a rank.
LEMMA WelcomeSound ==
  ASSUME NEW saw \in Record, saw.status # "none", NEW rank \in Nat, rank > 0
  PROVE  /\ Welcome(saw, rank) \in Record
         /\ Welcome(saw, rank).status # "none" /\ Welcome(saw, rank).enrolled > 0
         /\ saw.status = "archived" /\ saw.reason = "directory"
              => Welcome(saw, rank).status = "archived"
<1> DEFINE w == Welcome(saw, rank)
           back == saw.status = "archived" /\ saw.reason # "directory"
           status == IF back THEN "active" ELSE saw.status
           reason == IF back THEN "" ELSE saw.reason
           enrolled == IF saw.enrolled = 0 THEN rank ELSE saw.enrolled
<1>1. w = [saw EXCEPT !.status = status, !.reason = reason, !.enrolled = enrolled]
  BY DEF Welcome
<1>2. /\ saw.status \in {"active", "archived"} /\ saw.reason \in {"", "directory", "hand"}
      /\ saw.guid \in Accounts \cup {Nothing} /\ saw.enrolled \in Nat
  BY DEF Record
<1>3. status \in {"active", "archived"} /\ reason \in {"", "directory", "hand"}
  BY <1>2
<1>4. saw.status = "archived" /\ saw.reason = "directory" => status = "archived"
  OBVIOUS
<1>5. enrolled \in Nat /\ enrolled > 0
  <2>1. saw.enrolled \in Nat
    BY <1>2
  <2>2. QED BY <2>1
<1> HIDE DEF w, status, reason, enrolled
<1>6. w = [status |-> status, reason |-> reason, guid |-> saw.guid, enrolled |-> enrolled]
  BY <1>1, ThreeSet
<1>7. /\ w \in Record /\ w.status # "none" /\ w.enrolled > 0
      /\ saw.status = "archived" /\ saw.reason = "directory" => w.status = "archived"
  BY <1>2, <1>3, <1>4, <1>5, <1>6 DEF Record
<1>8. QED BY <1>7 DEF w

\* One record of the table is set anew.
LEMMA SetKeepsTable ==
  ASSUME NEW t, Table(t), NEW r \in Rows, NEW x \in Record, Sound(x),
         x.guid # Nothing => \A s \in Rows \ {r} : t[s].guid # x.guid
  PROVE  Table([t EXCEPT ![r] = x])
<1> DEFINE u == [t EXCEPT ![r] = x]
<1>1. u \in [Rows -> Record] /\ u[r] = x /\ \A s \in Rows \ {r} : u[s] = t[s]
  BY DEF Table
<1> HIDE DEF u
<1>2. QED BY <1>1 DEF Table, u

\* A record that somebody else may write is seen by the synchronisation as it is written.
LEMMA SeenSet ==
  ASSUME NEW r \in Rows \ locked, NEW x, row \in [Rows -> Record],
         row' = [row EXCEPT ![r] = x], UNCHANGED transaction
  PROVE  Seen' = [Seen EXCEPT ![r] = x]
BY DEF Seen, transaction

LEMMA NowType == ASSUME Table(row), NEW n \in Now PROVE n \in Nat /\ n > 0
<1>1. \A r \in Rows : row[r].enrolled \in Nat
  BY DEF Table, Record
<1>2. CASE n = 1
  BY <1>2
<1>3. CASE n # 1
  <2>1. PICK r \in Rows : n = row[r].enrolled + 1
    BY <1>3 DEF Now
  <2>2. QED BY <1>1, <2>1
<1>4. QED BY <1>2, <1>3

-----------------------------------------------------------------------------
(* The types.                                                               *)

\* A record nobody has locked is set anew, in what is committed and in what the
\* synchronisation sees.
LEMMA SetBoth ==
  ASSUME DirectoryTypes, NEW r \in Rows \ locked, NEW x \in Record, Sound(x),
         x.guid # Nothing => \A s \in Rows \ {r} : row[s].guid # x.guid /\ Seen[s].guid # x.guid,
         row' = [row EXCEPT ![r] = x], UNCHANGED transaction
  PROVE  Table(row') /\ Table(Seen') /\ \A s \in Rows \ {r} : row'[s] = row[s]
<1>1. row \in [Rows -> Record] /\ Table(row) /\ Table(Seen)
  BY DEF DirectoryTypes, Table
<1>2. Seen' = [Seen EXCEPT ![r] = x]
  BY <1>1, SeenSet
<1>3. Table(row') /\ Table(Seen')
  BY <1>1, <1>2, SetKeepsTable
<1>4. QED BY <1>1, <1>3

LEMMA SetArchivedTable ==
  ASSUME DirectoryTypes, NEW r \in Rows, NEW status \in {"active", "archived"},
         SetArchived(r, status)
  PROVE  /\ Table(row') /\ Table(Seen)' /\ row'[r].status # "none"
         /\ \A s \in Rows : row'[s].enrolled = row[s].enrolled
         /\ \A s \in Rows \ {r} : row'[s] = row[s]
<1>1. /\ row \in [Rows -> Record] /\ r \in Rows \ locked /\ UNCHANGED transaction
  BY DEF SetArchived, DirectoryTypes, Table
<1>2. PICK reason \in Reasons :
        row' = [row EXCEPT ![r] = [row[r] EXCEPT !.status = status, !.reason = reason]]
  <2>1. row' = [row EXCEPT ![r].status = status,
                          ![r].reason = IF status = "archived" THEN "hand" ELSE ""]
    BY DEF SetArchived
  <2>2. row' = [row EXCEPT ![r] = [row[r] EXCEPT !.status = status,
                             !.reason = IF status = "archived" THEN "hand" ELSE ""]]
    BY <1>1, <2>1
  <2>3. QED BY <2>2 DEF Reasons
<1> DEFINE x == [row[r] EXCEPT !.status = status, !.reason = reason]
<1>3. row' = [row EXCEPT ![r] = x]
  BY <1>2
<1>4. row[r] \in Record
  BY <1>1
<1>5. status \in Statuses
  BY DEF Statuses
<1>6. Restated(x, row[r], status)
  BY <1>4, <1>5, StatusSet
<1> HIDE DEF x
<1>7. /\ x \in Record /\ Sound(x) /\ x.status = status
      /\ x.guid = row[r].guid /\ x.enrolled = row[r].enrolled
  BY <1>6 DEF Restated
<1>8. Seen[r] = row[r]
  BY <1>1 DEF Seen
<1>9. x.guid # Nothing => \A s \in Rows \ {r} : row[s].guid # x.guid /\ Seen[s].guid # x.guid
  BY <1>7, <1>8 DEF DirectoryTypes, Table
<1>10. Table(row') /\ Table(Seen)' /\ \A s \in Rows \ {r} : row'[s] = row[s]
  BY <1>1, <1>3, <1>7, <1>9, SetBoth
<1>11. row'[r] = x
  BY <1>1, <1>3
<1>12. x.status # "none"
  BY <1>7, <1>5 DEF Statuses
<1>13. QED BY <1>7, <1>10, <1>11, <1>12

LEMMA RemoveRowTable ==
  ASSUME DirectoryTypes, NEW r \in Rows, RemoveRow(r)
  PROVE  Table(row') /\ Table(Seen)' /\ \A s \in Rows \ {r} : row'[s] = row[s] /\ row'[r] = NoRow
<1>1. /\ row' = [row EXCEPT ![r] = NoRow] /\ row \in [Rows -> Record]
      /\ r \in Rows \ locked /\ UNCHANGED transaction
  BY DEF RemoveRow, DirectoryTypes, Table
<1>2. Table(row') /\ Table(Seen)' /\ \A s \in Rows \ {r} : row'[s] = row[s]
  BY <1>1, NoRowSound, SetBoth
<1>3. QED BY <1>1, <1>2

\* What an enrolment writes is a record in use.
LEMMA SavedSound ==
  ASSUME DirectoryTypes, NEW e \in Requests, enroll[e].pc \in {"update", "insert"},
         ~(enroll[e].pc = "insert" <=> enroll[e].id \in Present(row))
  PROVE  /\ enroll[e].id \in Rows /\ Saved(e) \in Record /\ Sound(Saved(e))
         /\ Saved(e).status # "none"
         /\ Saved(e).status \in {enroll[e].set.status, row[enroll[e].id].status}
<1> DEFINE x == Saved(e)
           r == enroll[e].id
           set == enroll[e].set
           new(c) == enroll[e].pc = "insert" \/ c \in enroll[e].columns
<1>1. /\ r \in Rows /\ set \in Record /\ set.status # "none"
      /\ row[r] \in Record /\ (enroll[e].pc # "insert" => row[r].status # "none")
  <2>1. enroll[e] \in Enrolments /\ enroll[e].pc # "idle"
    BY DEF DirectoryTypes
  <2>2. enroll[e] # NoRequest
    BY <2>1 DEF NoRequest
  <2>3. r \in Rows /\ set \in Record
    BY <2>1, <2>2 DEF Enrolments
  <2>4. set.status # "none"
    BY <2>1 DEF DirectoryTypes
  <2>5. row[r] \in Record
    BY <2>3 DEF DirectoryTypes, Table
  <2>6. enroll[e].pc # "insert" => row[r].status # "none"
    BY <2>3 DEF Present
  <2>7. QED BY <2>3, <2>4, <2>5, <2>6
<1>2. /\ set.status \in {"none", "active", "archived"} /\ set.reason \in {"", "directory", "hand"}
      /\ set.guid \in Accounts \cup {Nothing} /\ set.enrolled \in Nat
      /\ row[r].status \in {"none", "active", "archived"}
      /\ row[r].reason \in {"", "directory", "hand"}
      /\ row[r].guid \in Accounts \cup {Nothing} /\ row[r].enrolled \in Nat
  BY <1>1 DEF Record
<1>3. x = [c \in {"status", "reason", "guid", "enrolled"} |->
             IF new(c) THEN set[c] ELSE row[r][c]]
  BY NoRowSound DEF Saved
<1>4. new("status") \/ row[r].status # "none"
  BY <1>1
<1> HIDE DEF x, r, set, new
<1>5. /\ x.status = IF new("status") THEN set.status ELSE row[r].status
      /\ x.reason = IF new("reason") THEN set.reason ELSE row[r].reason
      /\ x.guid = IF new("guid") THEN set.guid ELSE row[r].guid
      /\ x.enrolled = IF new("enrolled") THEN set.enrolled ELSE row[r].enrolled
  BY <1>3
<1>6. x \in Record
  BY <1>2, <1>3, <1>5 DEF Record
<1>7. x.status # "none" /\ x.status \in {set.status, row[r].status}
  BY <1>1, <1>4, <1>5
<1>8. x # NoRow
  BY <1>7, NoRowSound
<1>9. Sound(x)
  BY <1>7, <1>8 DEF Sound
<1>10. QED BY <1>1, <1>6, <1>7, <1>9 DEF x, r, set

LEMMA EnrollCommitTable ==
  ASSUME DirectoryTypes, NEW e \in Requests, EnrollCommit(e)
  PROVE  /\ Table(row') /\ Table(Seen)' /\ enroll[e].id \in Rows \ locked
         /\ row'[enroll[e].id].status # "none"
         /\ row'[enroll[e].id].status \in {enroll[e].set.status, row[enroll[e].id].status}
         /\ \A s \in Rows \ {enroll[e].id} : row'[s] = row[s]
<1> DEFINE x == Saved(e)
           r == enroll[e].id
<1>1. /\ r \in Rows /\ x \in Record /\ Sound(x) /\ x.status # "none"
      /\ x.status \in {enroll[e].set.status, row[r].status}
  BY SavedSound DEF EnrollCommit, Refused
<1>2. row' = [row EXCEPT ![r] = x] /\ row \in [Rows -> Record] /\ UNCHANGED transaction
  BY DEF EnrollCommit, DirectoryTypes, Table
<1>3. r \notin locked
  BY DEF EnrollCommit, MustWait
<1>4. ASSUME x.guid # Nothing, NEW s \in Rows \ {r}
      PROVE  row[s].guid # x.guid /\ Seen[s].guid # x.guid
  <2>1. row[s].guid # x.guid
    BY <1>4 DEF EnrollCommit, Refused
  <2>2. s \in locked => mine[s].guid # x.guid
    BY <1>4 DEF EnrollCommit, MustWait
  <2>3. QED BY <2>1, <2>2 DEF Seen
<1> HIDE DEF x
<1>5. Table(row') /\ Table(Seen)' /\ \A s \in Rows \ {r} : row'[s] = row[s]
  BY <1>1, <1>2, <1>3, <1>4, SetBoth
<1>6. row'[r] = x
  BY <1>1, <1>2
<1>7. QED BY <1>1, <1>3, <1>5, <1>6

\* What upsert() selects.
LEMMA SelectPlan ==
  ASSUME DirectoryTypes, NEW g \in Accounts, Select(g)
  PROVE  /\ adSync' \in Runs /\ \A r, s \in adSync'.plan.target : r = s
         /\ \A r \in adSync'.plan.gone : r \in Rows /\ Seen[r].guid = g /\ Seen[r].enrolled = 0
<1> DEFINE own == ByGuid(g)
<1>1. adSync \in Runs /\ own \subseteq Rows
  BY DEF DirectoryTypes, ByGuid
<1>2. \A r, s \in own : r = s
  BY DirectoryAssumption DEF DirectoryTypes, Table, ByGuid
<1>3. ASSUME NEW plan \in Plans,
             adSync' = [adSync EXCEPT !.pc = "write", !.plan = plan]
      PROVE  adSync' \in Runs /\ adSync'.plan = plan
  <2>1. adSync = [pc |-> adSync.pc, found |-> adSync.found, todo |-> adSync.todo,
                  outside |-> adSync.outside, plan |-> adSync.plan]
    BY <1>1 DEF Runs
  <2>2. adSync' = [pc |-> "write", found |-> adSync.found, todo |-> adSync.todo,
                   outside |-> adSync.outside, plan |-> plan]
    BY <1>3, <2>1
  <2>3. QED BY <1>1, <2>2 DEF Runs
<1>4. CASE Predecessors(g) # {} /\ Mergeable(own)
  <2>1. PICK r \in Latest(Seen, Predecessors(g)) :
          adSync' = [adSync EXCEPT !.pc = "write",
                       !.plan = [guid |-> g, gone |-> own, target |-> {r}]]
    BY <1>4 DEF Select
  <2>2. r \in Rows
    BY DEF Latest, Predecessors, Present
  <2> DEFINE plan == [guid |-> g, gone |-> own, target |-> {r}]
  <2>3. plan \in Plans /\ plan.gone = own /\ plan.target = {r}
    BY <1>1, <2>2 DEF Plans
  <2>4. adSync' = [adSync EXCEPT !.pc = "write", !.plan = plan]
    BY <2>1
  <2> HIDE DEF plan
  <2>5. adSync' \in Runs /\ adSync'.plan = plan
    BY <1>3, <2>3, <2>4
  <2>6. QED BY <1>4, <2>3, <2>5 DEF Mergeable, ByGuid
<1>5. CASE ~(Predecessors(g) # {} /\ Mergeable(own))
  <2>1. adSync' = [adSync EXCEPT !.pc = "write",
                     !.plan = [guid |-> g, gone |-> {}, target |-> own]]
    BY <1>5 DEF Select
  <2> DEFINE plan == [guid |-> g, gone |-> {}, target |-> own]
  <2>2. plan \in Plans /\ plan.gone = {} /\ plan.target = own
    BY <1>1 DEF Plans
  <2>3. adSync' = [adSync EXCEPT !.pc = "write", !.plan = plan]
    BY <2>1
  <2> HIDE DEF plan
  <2>4. adSync' \in Runs /\ adSync'.plan = plan
    BY <1>3, <2>2, <2>3
  <2>5. QED BY <1>2, <2>2, <2>4
<1>6. QED BY <1>4, <1>5

\* What its DELETE and its INSERT or UPDATE leave: the account has one record, and every
\* record has the rank it had.
LEMMA UpsertTable ==
  ASSUME DirectoryTypes, Upsert
  PROVE  /\ Table(Seen)' /\ locked' \subseteq Rows
         /\ mine' \in [Rows -> Record] /\ (\A r \in Rows : Sound(mine'[r]))
         /\ \A r \in locked' :
              \/ /\ mine'[r].status = "none"
                 /\ (r \in adSync.plan.gone \/ (r \in locked /\ mine[r].status = "none"))
              \/ /\ mine'[r].status # "none" /\ mine'[r].enrolled = Seen[r].enrolled
                 /\ (r \in locked => mine[r].status # "none")
<1> DEFINE plan == adSync.plan
<1>1. PICK S \in Targets :
        /\ ~Taken(S)
        /\ mine' = [r \in Rows |-> IF r \in S THEN New(plan.guid, Seen[r].enrolled)
                                   ELSE IF r \in plan.gone THEN NoRow ELSE mine[r]]
        /\ locked' = locked \cup S \cup (plan.gone \cap Present(Seen))
  BY DEF Upsert
<1>2. plan.guid \in Accounts \cup {Nothing} /\ plan.gone \subseteq Rows /\ plan.target \subseteq Rows
  BY DEF DirectoryTypes, Runs, Plans
<1>3. S \subseteq Rows /\ \A r, s \in S : r = s
  BY <1>1, <1>2 DEF Targets, Fresh, Free, Present, DirectoryTypes
<1>4. Table(Seen) /\ row' = row /\ mine \in [Rows -> Record] /\ \A r \in Rows : Sound(mine[r])
  BY DEF DirectoryTypes, Upsert
<1> HIDE DEF plan
<1>5. ASSUME NEW r \in Rows
      PROVE  /\ mine'[r] \in Record /\ Sound(mine'[r])
             /\ (r \in S => /\ mine'[r].guid = plan.guid /\ mine'[r].status # "none"
                            /\ mine'[r].enrolled = Seen[r].enrolled)
             /\ (r \notin S /\ r \in plan.gone => mine'[r] = NoRow)
             /\ (r \notin S /\ r \notin plan.gone => mine'[r] = mine[r])
  <2>1. CASE r \in S
    <3>1. Seen[r].enrolled \in Nat
      BY <1>4 DEF Table, Record
    <3>2. mine'[r] = New(plan.guid, Seen[r].enrolled)
      BY <1>1, <2>1
    <3>3. QED BY <1>2, <2>1, <3>1, <3>2, NewSound
  <2>2. CASE r \notin S
    BY <1>1, <1>4, <2>2, NoRowSound
  <2>3. QED BY <2>1, <2>2
<1>6. mine' \in [Rows -> Record] /\ \A r \in Rows : Sound(mine'[r])
  BY <1>1, <1>5
<1>7. locked' \subseteq Rows
  BY <1>1, <1>3 DEF Present, DirectoryTypes
<1>8. Seen' = [r \in Rows |-> IF r \in locked' THEN mine'[r] ELSE row[r]]
  BY <1>4 DEF Seen
<1>9. ASSUME NEW r \in Rows
      PROVE  /\ Seen'[r] \in Record /\ Sound(Seen'[r])
             /\ (r \in S => Seen'[r].guid = plan.guid)
             /\ (r \notin S =>
                   (Seen'[r] = Seen[r] /\ r \notin plan.gone) \/ Seen'[r].guid = Nothing)
  <2>1. CASE r \in S
    BY <1>1, <1>5, <1>8, <2>1
  <2>2. CASE r \notin S /\ r \in plan.gone
    <3>1. CASE r \in locked'
      BY <1>5, <1>8, <2>2, <3>1, NoRowSound
    <3>2. CASE r \notin locked'
      <4>1. Seen[r].status = "none" /\ Seen[r] = row[r]
        BY <1>1, <2>2, <3>2 DEF Present, Seen
      <4>2. Seen[r] = NoRow /\ Seen'[r] = Seen[r]
        BY <1>4, <1>8, <3>2, <4>1 DEF Table, Sound
      <4>3. QED BY <2>2, <4>2, NoRowSound
    <3>3. QED BY <3>1, <3>2
  <2>3. CASE r \notin S /\ r \notin plan.gone
    <3>1. r \in locked' <=> r \in locked
      BY <1>1, <2>3
    <3>2. Seen'[r] = Seen[r]
      BY <1>5, <1>8, <2>3, <3>1 DEF Seen
    <3>3. QED BY <1>4, <2>3, <3>2 DEF Table
  <2>4. QED BY <2>1, <2>2, <2>3
<1>10. \A r \in Rows \ S : S # {} /\ r \notin plan.gone => Seen[r].guid # plan.guid
  BY <1>1 DEF Taken, ByGuid, plan
<1>11. Seen' \in [Rows -> Record]
  BY <1>8, <1>9
<1>12. \A r, s \in Rows : Seen'[r].guid = Seen'[s].guid /\ Seen'[r].guid # Nothing => r = s
  BY <1>3, <1>4, <1>9, <1>10 DEF Table
<1>13. Table(Seen)'
  BY <1>9, <1>11, <1>12 DEF Table
<1>14. ASSUME NEW r \in locked'
       PROVE  \/ /\ mine'[r].status = "none"
                 /\ (r \in plan.gone \/ (r \in locked /\ mine[r].status = "none"))
              \/ /\ mine'[r].status # "none" /\ mine'[r].enrolled = Seen[r].enrolled
                 /\ (r \in locked => mine[r].status # "none")
  <2>1. r \in Rows
    BY <1>7
  <2>2. CASE r \in S
    <3>1. r \in locked => Seen[r].status # "none"
      BY <1>1, <2>1, <2>2 DEF Targets, Fresh, Free, Present
    <3>2. r \in locked => mine[r].status # "none"
      BY <2>1, <3>1 DEF Seen
    <3>3. QED BY <1>5, <2>1, <2>2, <3>2
  <2>4. CASE r \notin S /\ r \in plan.gone
    BY <1>5, <2>1, <2>4, NoRowSound
  <2>3. CASE r \notin S /\ r \notin plan.gone
    <3>1. r \in locked /\ mine'[r] = mine[r] /\ Seen[r] = mine[r]
      BY <1>1, <1>5, <2>1, <2>3 DEF Seen
    <3>2. QED BY <3>1
  <2>5. QED BY <2>2, <2>3, <2>4
<1>15. QED BY <1>6, <1>7, <1>13, <1>14 DEF plan

\* Archiving changes the status of records, and nothing else they stand for.
LEMMA ArchiveTable ==
  ASSUME DirectoryTypes, Archive
  PROVE  /\ Table(Seen)' /\ locked' \subseteq Rows
         /\ mine' \in [Rows -> Record] /\ (\A r \in Rows : Sound(mine'[r]))
         /\ \A r \in locked' :
              \/ mine'[r].status = "none" /\ r \in locked /\ mine[r].status = "none"
              \/ /\ mine'[r].status # "none" /\ mine'[r].enrolled = Seen[r].enrolled
                 /\ (r \in locked => mine[r].status # "none")
<1> DEFINE S == {r \in Rows : Seen[r].status = "active" /\ (Missing(r) \/ OutsideScope(r))}
           x(r) == [Seen[r] EXCEPT !.status = "archived", !.reason = "directory"]
<1>1. /\ mine' = [r \in Rows |-> IF r \in S THEN x(r) ELSE mine[r]]
      /\ locked' = locked \cup S /\ row' = row
  BY DEF Archive
<1>2. Table(Seen) /\ mine \in [Rows -> Record] /\ \A r \in Rows : Sound(mine[r])
  BY DEF DirectoryTypes
<1>3. ASSUME NEW r \in Rows
      PROVE  Restated(x(r), Seen[r], "archived")
  <2>1. Seen[r] \in Record
    BY <1>2 DEF Table
  <2>2. "archived" \in Statuses /\ "directory" \in Reasons
    BY DEF Statuses, Reasons
  <2>3. QED BY <2>1, <2>2, StatusSet
<1>4. S \subseteq Rows /\ locked \subseteq Rows
  BY DEF DirectoryTypes
<1> HIDE DEF S, x
<1>5. mine' \in [Rows -> Record] /\ (\A r \in Rows : Sound(mine'[r])) /\ locked' \subseteq Rows
  BY <1>1, <1>2, <1>3, <1>4 DEF Restated
<1>6. Seen' = [r \in Rows |-> IF r \in S THEN x(r) ELSE Seen[r]]
  BY <1>1, <1>4 DEF Seen
<1>7. ASSUME NEW r \in Rows
      PROVE  Seen'[r] \in Record /\ Sound(Seen'[r]) /\ Seen'[r].guid = Seen[r].guid
  BY <1>2, <1>3, <1>6 DEF Table, Restated
<1>8. Table(Seen)'
  <2>1. Seen' \in [Rows -> Record]
    BY <1>6, <1>7
  <2>2. QED BY <1>2, <1>7, <2>1 DEF Table
<1>9. ASSUME NEW r \in locked'
      PROVE  \/ mine'[r].status = "none" /\ r \in locked /\ mine[r].status = "none"
             \/ /\ mine'[r].status # "none" /\ mine'[r].enrolled = Seen[r].enrolled
                /\ (r \in locked => mine[r].status # "none")
  <2>1. CASE r \in S
    <3>1. r \in locked => mine[r].status # "none"
      BY <2>1 DEF S, Seen
    <3>2. QED BY <1>1, <1>3, <1>4, <2>1, <3>1 DEF Restated
  <2>2. CASE r \notin S
    <3>1. r \in locked /\ r \in Rows /\ mine'[r] = mine[r]
      BY <1>1, <1>4, <2>2
    <3>2. Seen[r] = mine[r]
      BY <3>1 DEF Seen
    <3>3. QED BY <3>1, <3>2
  <2>3. QED BY <2>1, <2>2
<1>10. QED BY <1>5, <1>8, <1>9

\* The synchronisation is over, committed or not.
LEMMA OverTypes ==
  ASSUME Over, row' \in [Rows -> Record]
  PROVE  /\ adSync' \in Runs /\ (\A r, s \in adSync'.plan.target : r = s) /\ adSync'.plan.gone = {}
         /\ mine' \in [Rows -> Record] /\ (\A r \in Rows : Sound(mine'[r]))
         /\ locked' = {} /\ blind' = {} /\ Seen' = row'
<1>1. AtRest \in Runs /\ AtRest.plan.target = {} /\ AtRest.plan.gone = {}
  BY DEF AtRest, Runs, NoPlan, Plans
<1>2. adSync' = AtRest /\ mine' = [r \in Rows |-> NoRow] /\ locked' = {} /\ blind' = {}
  BY DEF Over
<1>3. mine' \in [Rows -> Record] /\ \A r \in Rows : Sound(mine'[r])
  BY <1>2, NoRowSound
<1>4. Seen' = row'
  BY <1>2 DEF Seen
<1>5. QED BY <1>1, <1>2, <1>3, <1>4

\* How far sync() has come, with some of it set anew.
LEMMA RunSet ==
  ASSUME NEW run \in Runs, NEW pc \in {"select", "write", "commit"}, NEW todo \in SUBSET Accounts,
         NEW outside \in BOOLEAN, NEW plan \in Plans
  PROVE  [pc |-> pc, found |-> run.found, todo |-> todo, outside |-> outside, plan |-> plan] \in Runs
BY DEF Runs

\* Initially the types are right.
LEMMA InitRecords == DirectoryInit => DirectoryTypes
<1> SUFFICES ASSUME DirectoryInit PROVE DirectoryTypes
  OBVIOUS
<1>1. row = [r \in Rows |-> NoRow] /\ Seen = row
  BY DEF DirectoryInit, Seen
<1>2. Table(row)
  BY <1>1, NoRowSound DEF Table
<1>3. AtRest \in Runs /\ AtRest.plan.target = {}
  BY DEF AtRest, Runs, NoPlan, Plans
<1>4. NoRequest \in Enrolments /\ NoRequest.pc = "idle"
  BY DEF NoRequest, Enrolments
<1>5. enroll \in [Requests -> Enrolments] /\ \A e \in Requests : enroll[e].pc = "idle"
  BY <1>4 DEF DirectoryInit
<1>6. mine \in [Rows -> Record] /\ \A r \in Rows : Sound(mine[r])
  BY NoRowSound DEF DirectoryInit
<1>7. QED BY <1>1, <1>2, <1>3, <1>5, <1>6 DEF DirectoryInit, DirectoryTypes

\* What concerns the requests and the agent.
EnrolTypes ==
  /\ identity \in Present(row) \cup {Nothing}
  /\ enroll \in [Requests -> Enrolments] /\ waiting \in Requests \cup {Nothing}
  /\ \A e \in Requests : enroll[e].pc # "idle" =>
       enroll[e].set.status # "none" /\ enroll[e].set.enrolled > 0

\* What concerns the synchronisation.
SyncTypes ==
  /\ adSync \in Runs /\ \A r, s \in adSync.plan.target : r = s
  /\ mine \in [Rows -> Record] /\ \A r \in Rows : Sound(mine[r])
  /\ locked \subseteq Rows /\ blind \subseteq Rows

LEMMA TypesSplit == DirectoryTypes <=> /\ account \in [Accounts -> Places]
                                       /\ Table(row) /\ Table(Seen) /\ EnrolTypes /\ SyncTypes
BY DEF DirectoryTypes, EnrolTypes, SyncTypes

\* A step that leaves the transaction alone and all records where they are.
LEMMA RecordsAlone ==
  ASSUME DirectoryTypes, UNCHANGED <<row, mine, locked>>
  PROVE  Table(row') /\ Table(Seen)' /\ Present(row)' = Present(row)
BY DEF DirectoryTypes, Seen, Table, Present

\* One request is set anew.
LEMMA RequestSet ==
  ASSUME DirectoryTypes, NEW e \in Requests, NEW x \in Enrolments,
         x.pc # "idle" => x.set.status # "none" /\ x.set.enrolled > 0,
         enroll' = [enroll EXCEPT ![e] = x]
  PROVE  /\ enroll' \in [Requests -> Enrolments]
         /\ \A f \in Requests : enroll'[f].pc # "idle" =>
              enroll'[f].set.status # "none" /\ enroll'[f].set.enrolled > 0
BY DEF DirectoryTypes

\* What a request that has been read looks like.
LEMMA RequestTypes ==
  ASSUME DirectoryTypes, NEW e \in Requests, enroll[e].pc # "idle"
  PROVE  /\ enroll[e].id \in Rows /\ enroll[e].saw \in Record /\ enroll[e].set \in Record
         /\ enroll[e].set.status # "none" /\ enroll[e].set.enrolled > 0
<1>1. enroll[e] \in Enrolments
  BY DEF DirectoryTypes
<1>2. enroll[e] # NoRequest
  BY DEF NoRequest
<1>3. QED BY <1>1, <1>2 DEF Enrolments, DirectoryTypes

LEMMA NoRequestType == NoRequest \in Enrolments /\ NoRequest.pc = "idle"
BY DEF NoRequest, Enrolments

\* enroll() reads.
LEMMA EnrollReadTypes ==
  ASSUME DirectoryTypes, NEW e \in Requests, EnrollRead(e)
  PROVE  EnrolTypes'
<1>1. PICK rank \in Now :
        \/ \E r \in Latest(row, Present(row)) :
             enroll' = [enroll EXCEPT ![e] =
               [pc |-> "save", id |-> r, saw |-> row[r], set |-> Welcome(row[r], rank),
                columns |-> {}]]
        \/ Present(row) = {} /\ \E r \in Fresh :
             enroll' = [enroll EXCEPT ![e] =
               [pc |-> "insert", id |-> r, saw |-> NoRow, set |-> New(Nothing, rank),
                columns |-> {}]]
  BY DEF EnrollRead
<1>2. rank \in Nat /\ rank > 0
  BY NowType DEF DirectoryTypes
<1>3. /\ enroll' \in [Requests -> Enrolments]
      /\ \A f \in Requests : enroll'[f].pc # "idle" =>
           enroll'[f].set.status # "none" /\ enroll'[f].set.enrolled > 0
  <2>1. CASE \E r \in Latest(row, Present(row)) :
               enroll' = [enroll EXCEPT ![e] =
                 [pc |-> "save", id |-> r, saw |-> row[r], set |-> Welcome(row[r], rank),
                  columns |-> {}]]
    <3>1. PICK r \in Latest(row, Present(row)) :
               enroll' = [enroll EXCEPT ![e] =
                 [pc |-> "save", id |-> r, saw |-> row[r], set |-> Welcome(row[r], rank),
                  columns |-> {}]]
      BY <2>1
    <3>2. r \in Rows /\ row[r] \in Record /\ row[r].status # "none"
      BY DEF Latest, Present, DirectoryTypes, Table
    <3>3. /\ Welcome(row[r], rank) \in Record /\ Welcome(row[r], rank).status # "none"
          /\ Welcome(row[r], rank).enrolled > 0
      BY <1>2, <3>2, WelcomeSound
    <3> DEFINE x == [pc |-> "save", id |-> r, saw |-> row[r], set |-> Welcome(row[r], rank),
                     columns |-> {}]
    <3>4. x \in Enrolments /\ x.set.status # "none" /\ x.set.enrolled > 0
      BY <3>2, <3>3 DEF Enrolments
    <3>5. enroll' = [enroll EXCEPT ![e] = x]
      BY <3>1
    <3> HIDE DEF x
    <3>6. QED BY <3>4, <3>5, RequestSet
  <2>2. CASE \E r \in Fresh :
               enroll' = [enroll EXCEPT ![e] =
                 [pc |-> "insert", id |-> r, saw |-> NoRow, set |-> New(Nothing, rank),
                  columns |-> {}]]
    <3>1. PICK r \in Fresh :
               enroll' = [enroll EXCEPT ![e] =
                 [pc |-> "insert", id |-> r, saw |-> NoRow, set |-> New(Nothing, rank),
                  columns |-> {}]]
      BY <2>2
    <3>2. r \in Rows
      BY DEF Fresh, Free
    <3>3. /\ New(Nothing, rank) \in Record /\ New(Nothing, rank).status # "none"
          /\ New(Nothing, rank).enrolled > 0 /\ NoRow \in Record
      BY <1>2, NewSound, NoRowSound
    <3> DEFINE x == [pc |-> "insert", id |-> r, saw |-> NoRow, set |-> New(Nothing, rank),
                     columns |-> {}]
    <3>4. x \in Enrolments /\ x.set.status # "none" /\ x.set.enrolled > 0
      BY <3>2, <3>3 DEF Enrolments
    <3>5. enroll' = [enroll EXCEPT ![e] = x]
      BY <3>1
    <3> HIDE DEF x
    <3>6. QED BY <3>4, <3>5, RequestSet
  <2>3. QED BY <1>1, <2>1, <2>2
<1>4. /\ UNCHANGED <<row, identity>> /\ waiting' = e
  BY DEF EnrollRead
<1>5. Present(row)' = Present(row)
  BY <1>4 DEF Present
<1>6. QED BY <1>3, <1>4, <1>5 DEF EnrolTypes, DirectoryTypes

\* save() compares.
LEMMA EnrollCompareTypes ==
  ASSUME DirectoryTypes, NEW e \in Requests, EnrollCompare(e)
  PROVE  EnrolTypes'
<1> DEFINE r == enroll[e].id
           there == r \in Present(row)
           x == [pc |-> IF there THEN "update" ELSE "insert", id |-> r,
                 saw |-> enroll[e].saw, set |-> enroll[e].set,
                 columns |-> {c \in DOMAIN NoRow : there /\ enroll[e].set[c] # row[r][c]}]
<1>1. enroll' = [enroll EXCEPT ![e] = x] /\ UNCHANGED <<row, identity, waiting>>
  BY DEF EnrollCompare
<1>2. /\ r \in Rows /\ enroll[e].saw \in Record /\ enroll[e].set \in Record
      /\ enroll[e].set.status # "none" /\ enroll[e].set.enrolled > 0
  BY RequestTypes DEF EnrollCompare
<1>3. {c \in DOMAIN NoRow : there /\ enroll[e].set[c] # row[r][c]} \in SUBSET DOMAIN NoRow
  OBVIOUS
<1>4. (IF there THEN "update" ELSE "insert") \in {"save", "update", "insert"}
  OBVIOUS
<1> HIDE DEF there, r
<1>5. x \in Enrolments /\ x.set.status # "none" /\ x.set.enrolled > 0
  BY <1>2, <1>3, <1>4 DEF Enrolments
<1> HIDE DEF x
<1>6. /\ enroll' \in [Requests -> Enrolments]
      /\ \A f \in Requests : enroll'[f].pc # "idle" =>
           enroll'[f].set.status # "none" /\ enroll'[f].set.enrolled > 0
  BY <1>1, <1>5, RequestSet
<1>7. Present(row)' = Present(row)
  BY <1>1 DEF Present
<1>8. QED BY <1>1, <1>6, <1>7 DEF EnrolTypes, DirectoryTypes

\* Whatever ends a request leaves the others as they are.
LEMMA RequestOver ==
  ASSUME DirectoryTypes, NEW e \in Requests, enroll' = [enroll EXCEPT ![e] = NoRequest]
  PROVE  /\ enroll' \in [Requests -> Enrolments]
         /\ \A f \in Requests : enroll'[f].pc # "idle" =>
              enroll'[f].set.status # "none" /\ enroll'[f].set.enrolled > 0
BY NoRequestType, RequestSet

\* A step of the synchronisation that leaves the records alone.
LEMMA SyncReadTypes ==
  ASSUME DirectoryTypes, Fetch \/ Lookup \/ \E g \in Accounts : Select(g)
  PROVE  SyncTypes'
<1>1. CASE Fetch
  <2>1. adSync' = [pc |-> "lookup", found |-> Inside, todo |-> {}, outside |-> FALSE,
                   plan |-> NoPlan]
    BY <1>1 DEF Fetch, AtRest
  <2>2. NoPlan \in Plans /\ NoPlan.target = {} /\ Inside \in SUBSET Accounts
    BY DEF NoPlan, Plans, Inside
  <2>3. adSync' \in Runs /\ adSync'.plan.target = {}
    BY <2>1, <2>2 DEF Runs
  <2>4. UNCHANGED <<mine, locked, blind>>
    BY <1>1 DEF Fetch
  <2>5. QED BY <2>3, <2>4 DEF DirectoryTypes, SyncTypes
<1>2. CASE Lookup
  <2>1. PICK outside \in BOOLEAN :
          adSync' = [adSync EXCEPT !.pc = "select", !.todo = adSync.found, !.outside = outside]
    BY <1>2 DEF Lookup, Elsewhere
  <2>2. adSync = [pc |-> adSync.pc, found |-> adSync.found, todo |-> adSync.todo,
                  outside |-> adSync.outside, plan |-> adSync.plan]
    BY DEF DirectoryTypes, Runs
  <2>3. adSync' = [pc |-> "select", found |-> adSync.found, todo |-> adSync.found,
                   outside |-> outside, plan |-> adSync.plan]
    BY <2>1, <2>2
  <2>4. adSync.found \in SUBSET Accounts /\ adSync.plan \in Plans /\ adSync \in Runs
    BY DEF DirectoryTypes, Runs
  <2>5. adSync' \in Runs /\ adSync'.plan = adSync.plan
    BY <2>3, <2>4 DEF Runs
  <2>6. UNCHANGED <<mine, locked, blind>>
    BY <1>2 DEF Lookup
  <2>7. QED BY <2>5, <2>6 DEF DirectoryTypes, SyncTypes
<1>3. ASSUME NEW g \in Accounts, Select(g) PROVE SyncTypes'
  <2>1. UNCHANGED <<mine, locked, blind>>
    BY <1>3 DEF Select
  <2>2. QED BY <1>3, <2>1, SelectPlan DEF DirectoryTypes, SyncTypes
<1>4. QED BY <1>1, <1>2, <1>3

\* How far it has come after a step that writes.
LEMMA SyncWriteRun ==
  ASSUME DirectoryTypes, Upsert \/ Archive
  PROVE  adSync' \in Runs /\ \A r, s \in adSync'.plan.target : r = s
<1>1. /\ adSync.found \in SUBSET Accounts /\ adSync.todo \in SUBSET Accounts
      /\ adSync.outside \in BOOLEAN /\ adSync.plan \in Plans
      /\ \A r, s \in adSync.plan.target : r = s
  BY DEF DirectoryTypes, Runs
<1>2. adSync = [pc |-> adSync.pc, found |-> adSync.found, todo |-> adSync.todo,
                outside |-> adSync.outside, plan |-> adSync.plan]
  BY DEF DirectoryTypes, Runs
<1>3. CASE Upsert
  <2>1. adSync' = [adSync EXCEPT !.pc = "select", !.todo = @ \ {adSync.plan.guid}, !.plan = NoPlan]
    BY <1>3 DEF Upsert
  <2>2. adSync' = [pc |-> "select", found |-> adSync.found,
                   todo |-> adSync.todo \ {adSync.plan.guid},
                   outside |-> adSync.outside, plan |-> NoPlan]
    BY <1>2, <2>1
  <2>3. NoPlan \in Plans /\ NoPlan.target = {}
    BY DEF NoPlan, Plans
  <2>4. adSync' \in Runs /\ adSync'.plan.target = {}
    BY <1>1, <2>2, <2>3 DEF Runs
  <2>5. QED BY <2>4
<1>4. CASE Archive
  <2>1. adSync' = [adSync EXCEPT !.pc = "commit"]
    BY <1>4 DEF Archive
  <2>2. adSync' = [pc |-> "commit", found |-> adSync.found, todo |-> adSync.todo,
                   outside |-> adSync.outside, plan |-> adSync.plan]
    BY <1>2, <2>1
  <2>3. adSync' \in Runs /\ adSync'.plan = adSync.plan
    BY <1>1, <2>2 DEF Runs
  <2>4. QED BY <1>1, <2>3
<1>5. QED BY <1>3, <1>4

\* Every step keeps the types.
LEMMA NextRecords == DirectoryTypes /\ [DirectoryNext]_directoryVars => DirectoryTypes'
<1> SUFFICES ASSUME DirectoryTypes, [DirectoryNext]_directoryVars PROVE DirectoryTypes'
  OBVIOUS
<1>1. /\ account \in [Accounts -> Places] /\ Table(row) /\ Table(Seen)
      /\ EnrolTypes /\ SyncTypes /\ row \in [Rows -> Record]
  BY TypesSplit DEF Table
<1>2. ASSUME account' \in [Accounts -> Places], Table(row'), Table(Seen)', EnrolTypes', SyncTypes'
      PROVE  DirectoryTypes'
  BY <1>2 DEF DirectoryTypes, EnrolTypes, SyncTypes
<1>3. ASSUME UNCHANGED <<row, transaction, blind>>
      PROVE  SyncTypes' /\ Table(row') /\ Table(Seen)' /\ Present(row)' = Present(row)
  BY <1>1, <1>3, RecordsAlone DEF SyncTypes, transaction
<1>4. ASSUME NEW g \in Accounts, NEW place \in Places, Move(g, place) PROVE DirectoryTypes'
  <2>1. SyncTypes' /\ Table(row') /\ Table(Seen)' /\ Present(row)' = Present(row)
    BY <1>3, <1>4 DEF Move
  <2>2. account' \in [Accounts -> Places] /\ EnrolTypes'
    BY <1>1, <1>4, <2>1 DEF Move, EnrolTypes
  <2>3. QED BY <1>2, <2>1, <2>2
<1>5. ASSUME NEW r \in Rows, NEW status \in {"active", "archived"}, SetArchived(r, status)
      PROVE  DirectoryTypes'
  <2>1. /\ Table(row') /\ Table(Seen)' /\ row'[r].status # "none"
        /\ \A s \in Rows \ {r} : row'[s] = row[s]
    BY <1>5, SetArchivedTable
  <2>2. Present(row) \subseteq Present(row)'
    BY <2>1 DEF Present
  <2>3. EnrolTypes' /\ SyncTypes' /\ account' \in [Accounts -> Places]
    BY <1>1, <1>5, <2>2 DEF SetArchived, EnrolTypes, SyncTypes, transaction
  <2>4. QED BY <1>2, <2>1, <2>3
<1>6. ASSUME NEW r \in Rows, RemoveRow(r) PROVE DirectoryTypes'
  <2>1. Table(row') /\ Table(Seen)' /\ \A s \in Rows \ {r} : row'[s] = row[s]
    BY <1>6, RemoveRowTable
  <2>2. Present(row) \ {r} \subseteq Present(row)'
    BY <2>1 DEF Present
  <2>3. identity' \in Present(row)' \cup {Nothing}
    BY <1>1, <1>6, <2>2 DEF RemoveRow, Gone, EnrolTypes
  <2>4. EnrolTypes' /\ SyncTypes' /\ account' \in [Accounts -> Places]
    BY <1>1, <1>6, <2>3 DEF RemoveRow, EnrolTypes, SyncTypes, transaction
  <2>5. QED BY <1>2, <2>1, <2>4
<1>7. CASE LoseIdentity
  <2>1. SyncTypes' /\ Table(row') /\ Table(Seen)' /\ Present(row)' = Present(row)
    BY <1>3, <1>7 DEF LoseIdentity
  <2>2. account' \in [Accounts -> Places] /\ EnrolTypes'
    BY <1>1, <1>7, <2>1 DEF LoseIdentity, EnrolTypes
  <2>3. QED BY <1>2, <2>1, <2>2
<1>8. CASE GiveUp
  <2>1. SyncTypes' /\ Table(row') /\ Table(Seen)' /\ Present(row)' = Present(row)
    BY <1>3, <1>8 DEF GiveUp
  <2>2. account' \in [Accounts -> Places] /\ EnrolTypes'
    BY <1>1, <1>8, <2>1 DEF GiveUp, EnrolTypes
  <2>3. QED BY <1>2, <2>1, <2>2
<1>9. ASSUME NEW e \in Requests, EnrollRead(e) PROVE DirectoryTypes'
  <2>1. SyncTypes' /\ Table(row') /\ Table(Seen)' /\ UNCHANGED account
    BY <1>3, <1>9 DEF EnrollRead
  <2>2. EnrolTypes'
    BY <1>9, EnrollReadTypes
  <2>3. QED BY <1>1, <1>2, <2>1, <2>2
<1>10. ASSUME NEW e \in Requests, EnrollCompare(e) PROVE DirectoryTypes'
  <2>1. SyncTypes' /\ Table(row') /\ Table(Seen)' /\ UNCHANGED account
    BY <1>3, <1>10 DEF EnrollCompare
  <2>2. EnrolTypes'
    BY <1>10, EnrollCompareTypes
  <2>3. QED BY <1>1, <1>2, <2>1, <2>2
<1>11. ASSUME NEW e \in Requests, EnrollCommit(e) PROVE DirectoryTypes'
  <2>1. /\ Table(row') /\ Table(Seen)' /\ enroll[e].id \in Rows
        /\ row'[enroll[e].id].status # "none"
        /\ \A s \in Rows \ {enroll[e].id} : row'[s] = row[s]
    BY <1>11, EnrollCommitTable
  <2>2. Present(row) \subseteq Present(row)' /\ enroll[e].id \in Present(row)'
    BY <2>1 DEF Present
  <2>3. identity' \in {identity, Nothing, enroll[e].id} /\ waiting' \in {waiting, Nothing}
    BY <1>11 DEF EnrollCommit, Gone
  <2>4. enroll' = [enroll EXCEPT ![e] = NoRequest]
    BY <1>11 DEF EnrollCommit
  <2>5. EnrolTypes'
    BY <1>1, <2>2, <2>3, <2>4, RequestOver DEF EnrolTypes
  <2>6. SyncTypes' /\ account' \in [Accounts -> Places]
    BY <1>1, <1>11, <2>1 DEF EnrollCommit, SyncTypes, transaction
  <2>7. QED BY <1>2, <2>1, <2>5, <2>6
<1>12. ASSUME NEW e \in Requests, EnrollFails(e) PROVE DirectoryTypes'
  <2>1. /\ SyncTypes' /\ Table(row') /\ Table(Seen)' /\ UNCHANGED account
        /\ Present(row)' = Present(row)
    BY <1>3, <1>12 DEF EnrollFails
  <2>2. /\ enroll' = [enroll EXCEPT ![e] = NoRequest]
        /\ identity' = identity /\ waiting' \in {waiting, Nothing}
    BY <1>12 DEF EnrollFails
  <2>3. EnrolTypes'
    BY <1>1, <2>1, <2>2, RequestOver DEF EnrolTypes
  <2>4. QED BY <1>1, <1>2, <2>1, <2>3
<1>13. ASSUME UNCHANGED <<account, row, identity, enroll, waiting>>, Table(Seen)', SyncTypes'
       PROVE  DirectoryTypes'
  <2>1. Present(row)' = Present(row)
    BY <1>13 DEF Present
  <2>2. Table(row') /\ EnrolTypes' /\ account' \in [Accounts -> Places]
    BY <1>1, <1>13, <2>1 DEF EnrolTypes
  <2>3. QED BY <1>2, <1>13, <2>2
<1>14. CASE Fetch \/ Lookup \/ \E g \in Accounts : Select(g)
  <2>1. UNCHANGED <<account, row, identity, enroll, waiting, mine, locked>>
    BY <1>14 DEF Fetch, Lookup, Select
  <2>2. SyncTypes' /\ Table(Seen)'
    BY <1>14, <2>1, SyncReadTypes, RecordsAlone
  <2>3. QED BY <1>13, <2>1, <2>2
<1>15. CASE Upsert \/ Archive
  <2>1. UNCHANGED <<account, row, identity, enroll, waiting, blind>>
    BY <1>15 DEF Upsert, Archive
  <2>2. /\ Table(Seen)' /\ locked' \subseteq Rows
        /\ mine' \in [Rows -> Record] /\ \A r \in Rows : Sound(mine'[r])
    BY <1>15, UpsertTable, ArchiveTable
  <2>3. SyncTypes'
    BY <1>1, <1>15, <2>1, <2>2, SyncWriteRun DEF SyncTypes
  <2>4. QED BY <1>13, <2>1, <2>2, <2>3
<1>16. CASE Commit
  <2>1. Over /\ row' = Seen /\ UNCHANGED <<account, enroll, waiting>> /\ Gone(Rows \ Present(Seen))
    BY <1>16 DEF Commit
  <2>2. Seen \in [Rows -> Record] /\ Table(row')
    BY <1>1, <2>1 DEF Table
  <2>3. Table(Seen)' /\ SyncTypes'
    BY <2>1, <2>2, OverTypes DEF SyncTypes
  <2>4. Present(row)' = Present(Seen)
    BY <2>1 DEF Present
  <2>5. identity' \in Present(row)' \cup {Nothing}
    BY <1>1, <2>1, <2>4 DEF Gone, EnrolTypes, Present
  <2>6. EnrolTypes'
    BY <1>1, <2>1, <2>5 DEF EnrolTypes
  <2>7. QED BY <1>1, <1>2, <2>1, <2>2, <2>3, <2>6
<1>17. CASE SyncFails
  <2>1. Over /\ UNCHANGED <<account, row, identity, enroll, waiting>>
    BY <1>17 DEF SyncFails
  <2>2. SyncTypes' /\ Table(Seen)'
    BY <1>1, <2>1, OverTypes DEF SyncTypes
  <2>3. QED BY <1>13, <2>1, <2>2
<1>18. CASE UNCHANGED directoryVars
  <2>1. UNCHANGED <<account, row, identity, enroll, waiting, mine, locked, adSync, blind>>
    BY <1>18 DEF directoryVars, transaction
  <2>2. SyncTypes' /\ Table(Seen)'
    BY <1>3, <2>1 DEF transaction
  <2>3. QED BY <1>13, <2>1, <2>2
<1>19. QED
  BY <1>4, <1>5, <1>6, <1>7, <1>8, <1>9, <1>10, <1>11, <1>12, <1>14, <1>15, <1>16, <1>17, <1>18
     DEF DirectoryNext, EnvNext, EnrollNext, SyncNext

\* Records, requests and the synchronisation stay what they are declared to be: no account
\* ever has two records, neither in what is committed nor in what is about to be, and the
\* agent speaks for a record that is there (ad-sync.service.ts:221-300,
\* enrollment.service.ts:56-130).
THEOREM RecordsCorrect == DirectorySpec => []DirectoryTypes
<1>1. DirectoryInit => DirectoryTypes
  BY InitRecords
<1>2. DirectoryTypes /\ [DirectoryNext]_directoryVars => DirectoryTypes'
  BY NextRecords
<1>3. QED BY <1>1, <1>2, PTL DEF DirectorySpec

-----------------------------------------------------------------------------
(* The history of a record.                                                 *)

\* No agent has reported to a record that is to be dissolved, or its first report came after
\* the look at it; and writing a record does not change whether one has.
Looked ==
  /\ \A r \in adSync.plan.gone : row[r].enrolled = 0 \/ r \in blind
  /\ \A r \in locked : IF mine[r].status = "none" THEN row[r].enrolled = 0 \/ r \in blind
                       ELSE mine[r].enrolled = row[r].enrolled

LEMMA InitLooked == DirectoryInit => Looked
BY DEF DirectoryInit, AtRest, NoPlan, Looked

LEMMA NextLooked ==
  DirectoryTypes /\ Looked /\ [DirectoryNext]_directoryVars => Looked'
<1> SUFFICES ASSUME DirectoryTypes, Looked, [DirectoryNext]_directoryVars PROVE Looked'
  OBVIOUS
<1>1. /\ Table(Seen) /\ row \in [Rows -> Record] /\ locked \subseteq Rows
      /\ adSync.plan.gone \subseteq Rows
  BY DEF DirectoryTypes, Table, Runs, Plans
<1>2. ASSUME UNCHANGED <<row, mine, locked, blind>>, adSync'.plan = adSync.plan PROVE Looked'
  BY <1>2 DEF Looked
<1>3. ASSUME UNCHANGED transaction, UNCHANGED <<row, blind>> PROVE Looked'
  BY <1>3 DEF Looked, transaction
<1>4. CASE \E g \in Accounts, place \in Places : Move(g, place)
  BY <1>3, <1>4 DEF Move
<1>5. ASSUME NEW r \in Rows, NEW status \in {"active", "archived"}, SetArchived(r, status)
      PROVE  Looked'
  <2>1. \A s \in Rows : row'[s].enrolled = row[s].enrolled
    BY <1>5, SetArchivedTable
  <2>2. UNCHANGED <<transaction, blind>>
    BY <1>5 DEF SetArchived
  <2>3. QED BY <1>1, <2>1, <2>2 DEF Looked, transaction
<1>6. ASSUME NEW r \in Rows, RemoveRow(r) PROVE Looked'
  <2>1. r \notin locked /\ UNCHANGED <<transaction, blind>>
    BY <1>6 DEF RemoveRow
  <2>2. row'[r].enrolled = 0 /\ \A s \in Rows \ {r} : row'[s] = row[s]
    <3>1. row' = [row EXCEPT ![r] = NoRow]
      BY <1>6 DEF RemoveRow
    <3>2. row'[r] = NoRow /\ \A s \in Rows \ {r} : row'[s] = row[s]
      BY <1>1, <3>1
    <3>3. QED BY <3>2, NoRowSound
  <2>3. QED BY <1>1, <2>1, <2>2 DEF Looked, transaction
<1>7. CASE LoseIdentity \/ GiveUp
  BY <1>3, <1>7 DEF LoseIdentity, GiveUp
<1>8. ASSUME NEW e \in Requests, EnrollRead(e) \/ EnrollCompare(e) \/ EnrollFails(e)
      PROVE  Looked'
  BY <1>3, <1>8 DEF EnrollRead, EnrollCompare, EnrollFails
<1>9. ASSUME NEW e \in Requests, EnrollCommit(e) PROVE Looked'
  <2> DEFINE r == enroll[e].id
  <2>1. r \in Rows \ locked /\ \A s \in Rows \ {r} : row'[s] = row[s]
    BY <1>9, EnrollCommitTable
  <2>2. /\ UNCHANGED transaction
        /\ blind' = IF row[r].enrolled = 0 THEN blind \cup ({r} \cap adSync.plan.gone) ELSE blind
    BY <1>9 DEF EnrollCommit
  <2> HIDE DEF r
  <2>3. blind \subseteq blind' /\ UNCHANGED <<adSync, mine, locked>>
    BY <2>2 DEF transaction
  <2>4. ASSUME NEW s \in adSync.plan.gone PROVE row'[s].enrolled = 0 \/ s \in blind'
    <3>1. CASE s = r
      BY <2>2, <2>4, <3>1 DEF Looked
    <3>2. CASE s # r
      BY <1>1, <2>1, <2>3, <2>4, <3>2 DEF Looked
    <3>3. QED BY <3>1, <3>2
  <2>5. ASSUME NEW s \in locked
        PROVE  IF mine[s].status = "none" THEN row'[s].enrolled = 0 \/ s \in blind'
               ELSE mine[s].enrolled = row'[s].enrolled
    <3>1. row'[s] = row[s]
      BY <1>1, <2>1, <2>5
    <3>2. QED BY <2>3, <2>5, <3>1 DEF Looked
  <2>6. QED BY <2>3, <2>4, <2>5 DEF Looked
<1>10. CASE Fetch
  <2>1. adSync' = [AtRest EXCEPT !.pc = "lookup", !.found = Inside]
        /\ UNCHANGED <<row, mine, locked, blind>>
    BY <1>10 DEF Fetch
  <2>2. adSync'.plan.gone = {}
    BY <2>1 DEF AtRest, NoPlan
  <2>3. QED BY <2>1, <2>2 DEF Looked
<1>11. CASE Lookup
  <2>1. UNCHANGED <<row, mine, locked, blind>> /\ adSync \in Runs
    BY <1>11 DEF Lookup, DirectoryTypes
  <2>2. adSync'.plan = adSync.plan
    BY <1>11, <2>1 DEF Lookup, Runs
  <2>3. QED BY <1>2, <2>1, <2>2
<1>12. ASSUME NEW g \in Accounts, Select(g) PROVE Looked'
  <2>1. UNCHANGED <<row, mine, locked, blind>>
    BY <1>12 DEF Select
  <2>2. \A r \in adSync'.plan.gone : r \in Rows /\ Seen[r].enrolled = 0
    BY <1>12, SelectPlan
  <2>3. \A r \in adSync'.plan.gone : row[r].enrolled = 0 \/ r \in blind
    BY <2>2 DEF Looked, Seen
  <2>4. QED BY <2>1, <2>3 DEF Looked
<1>13. CASE Upsert
  <2>1. UNCHANGED <<row, blind>> /\ adSync'.plan.gone = {}
    <3>1. adSync' = [adSync EXCEPT !.pc = "select", !.todo = @ \ {adSync.plan.guid},
                                   !.plan = NoPlan]
          /\ UNCHANGED <<row, blind>>
      BY <1>13 DEF Upsert
    <3>2. adSync \in Runs
      BY DEF DirectoryTypes
    <3>3. adSync'.plan = NoPlan
      BY <3>1, <3>2 DEF Runs
    <3>4. QED BY <3>1, <3>3 DEF NoPlan
  <2>2. ASSUME NEW r \in locked'
        PROVE  IF mine'[r].status = "none" THEN row[r].enrolled = 0 \/ r \in blind
               ELSE mine'[r].enrolled = row[r].enrolled
    <3>1. /\ r \in Rows
          /\ \/ /\ mine'[r].status = "none"
                /\ (r \in adSync.plan.gone \/ (r \in locked /\ mine[r].status = "none"))
             \/ /\ mine'[r].status # "none" /\ mine'[r].enrolled = Seen[r].enrolled
                /\ (r \in locked => mine[r].status # "none")
      BY <1>13, <2>2, UpsertTable
    <3>2. QED BY <3>1 DEF Looked, Seen
  <2>3. QED BY <2>1, <2>2 DEF Looked
<1>14. CASE Archive
  <2>1. UNCHANGED <<row, blind>>
    BY <1>14 DEF Archive
  <2>2. adSync'.plan = adSync.plan
    BY <1>14 DEF Archive, DirectoryTypes, Runs
  <2>3. ASSUME NEW r \in locked'
        PROVE  IF mine'[r].status = "none" THEN row[r].enrolled = 0 \/ r \in blind
               ELSE mine'[r].enrolled = row[r].enrolled
    <3>1. /\ r \in Rows
          /\ \/ mine'[r].status = "none" /\ r \in locked /\ mine[r].status = "none"
             \/ /\ mine'[r].status # "none" /\ mine'[r].enrolled = Seen[r].enrolled
                /\ (r \in locked => mine[r].status # "none")
      BY <1>14, <2>3, ArchiveTable
    <3>2. QED BY <3>1 DEF Looked, Seen
  <2>4. QED BY <2>1, <2>2, <2>3 DEF Looked
<1>15. CASE Commit \/ SyncFails
  <2>1. Over
    BY <1>15 DEF Commit, SyncFails
  <2>2. adSync'.plan.gone = {} /\ locked' = {}
    BY <2>1 DEF Over, AtRest, NoPlan
  <2>3. QED BY <2>2 DEF Looked
<1>16. CASE UNCHANGED directoryVars
  BY <1>3, <1>16 DEF directoryVars
<1>17. QED
  BY <1>4, <1>5, <1>6, <1>7, <1>8, <1>9, <1>10, <1>11, <1>12, <1>13, <1>14, <1>15, <1>16
     DEF DirectoryNext, EnvNext, EnrollNext, SyncNext

\* A step that dissolves a record an agent has reported to is its removal by hand, or the
\* first report came between the look at it and the DELETE.
LEMMA StepKeepsHistory ==
  ASSUME DirectoryTypes, Looked, [DirectoryNext]_directoryVars,
         NEW r \in Rows, row[r].enrolled > 0, row'[r].status = "none"
  PROVE  RemoveRow(r) \/ r \in blind
<1>1. row[r].status # "none" /\ row' # row
  BY Used DEF DirectoryTypes
<1>2. ASSUME NEW s \in Rows, NEW status \in {"active", "archived"}, SetArchived(s, status)
      PROVE  FALSE
  BY <1>1, <1>2, SetArchivedTable
<1>3. ASSUME NEW s \in Rows, RemoveRow(s) PROVE RemoveRow(r)
  <2>1. \A t \in Rows \ {s} : row'[t] = row[t]
    BY <1>3, RemoveRowTable
  <2>2. r = s
    BY <1>1, <2>1
  <2>3. QED BY <1>3, <2>2
<1>4. ASSUME NEW e \in Requests, EnrollCommit(e) PROVE FALSE
  BY <1>1, <1>4, EnrollCommitTable
<1>5. CASE Commit
  <2>1. row'[r] = IF r \in locked THEN mine[r] ELSE row[r]
    BY <1>5 DEF Commit, Seen
  <2>2. r \in locked /\ mine[r].status = "none"
    BY <1>1, <2>1
  <2>3. row[r].enrolled # 0
    <3>1. row[r].enrolled \in Nat
      BY DEF DirectoryTypes, Table, Record
    <3>2. QED BY <3>1
  <2>4. QED BY <2>2, <2>3 DEF Looked
<1>6. QED
  BY <1>1, <1>2, <1>3, <1>4, <1>5
     DEF DirectoryNext, EnvNext, EnrollNext, SyncNext, directoryVars, Move, LoseIdentity, GiveUp,
         EnrollRead, EnrollCompare, EnrollFails, Fetch, Lookup, Select, Upsert, Archive, SyncFails

\* The synchronisation dissolves a record an agent has reported to only if the first report
\* came after the synchronisation had looked at the record (ad-sync.service.ts:221-253).
THEOREM HistoryIsKept == DirectorySpec => HistoryStays
<1> DEFINE IInv == DirectoryTypes /\ Looked
           Kept == \A r \in Rows : row[r].enrolled > 0 /\ row'[r].status = "none"
                                     => RemoveRow(r) \/ r \in blind
<1>1. DirectoryInit => IInv
  BY InitRecords, InitLooked
<1>2. IInv /\ [DirectoryNext]_directoryVars => IInv'
  BY NextRecords, NextLooked
<1>3. IInv /\ [DirectoryNext]_directoryVars => [Kept]_directoryVars
  BY StepKeepsHistory
<1>4. QED BY <1>1, <1>2, <1>3, PTL DEF DirectorySpec, HistoryStays

-----------------------------------------------------------------------------
(* What the directory decided.                                              *)

\* A request that has read a decision of the directory does not want to undo it.
Obedient == \A e \in Requests : enroll[e].pc # "idle" /\ enroll[e].saw.status = "archived"
                                  /\ enroll[e].saw.reason = "directory"
                                    => enroll[e].set.status = "archived"

LEMMA InitObedient == DirectoryInit => Obedient
BY DEF DirectoryInit, NoRequest, Obedient

LEMMA NextObedient ==
  DirectoryTypes /\ Obedient /\ [DirectoryNext]_directoryVars => Obedient'
<1> SUFFICES ASSUME DirectoryTypes, Obedient, [DirectoryNext]_directoryVars PROVE Obedient'
  OBVIOUS
<1>1. enroll \in [Requests -> Enrolments]
  BY DEF DirectoryTypes
<1>2. ASSUME NEW e \in Requests, NEW x, enroll' = [enroll EXCEPT ![e] = x],
             x.pc # "idle" /\ x.saw.status = "archived" /\ x.saw.reason = "directory"
               => x.set.status = "archived"
      PROVE  Obedient'
  BY <1>1, <1>2 DEF Obedient
<1>3. ASSUME NEW e \in Requests, EnrollRead(e) PROVE Obedient'
  <2>1. PICK rank \in Now :
          \/ \E r \in Latest(row, Present(row)) :
               enroll' = [enroll EXCEPT ![e] =
                 [pc |-> "save", id |-> r, saw |-> row[r], set |-> Welcome(row[r], rank),
                  columns |-> {}]]
          \/ Present(row) = {} /\ \E r \in Fresh :
               enroll' = [enroll EXCEPT ![e] =
                 [pc |-> "insert", id |-> r, saw |-> NoRow, set |-> New(Nothing, rank),
                  columns |-> {}]]
    BY <1>3 DEF EnrollRead
  <2>2. ASSUME NEW r \in Latest(row, Present(row)),
               enroll' = [enroll EXCEPT ![e] =
                 [pc |-> "save", id |-> r, saw |-> row[r], set |-> Welcome(row[r], rank),
                  columns |-> {}]]
        PROVE  Obedient'
    <3>1. row[r] \in Record /\ row[r].status # "none" /\ rank \in Nat /\ rank > 0
      BY NowType DEF Latest, Present, DirectoryTypes, Table
    <3>2. row[r].status = "archived" /\ row[r].reason = "directory"
            => Welcome(row[r], rank).status = "archived"
      BY <3>1, WelcomeSound
    <3> DEFINE x == [pc |-> "save", id |-> r, saw |-> row[r], set |-> Welcome(row[r], rank),
                     columns |-> {}]
    <3>3. x.saw = row[r] /\ x.set = Welcome(row[r], rank)
      OBVIOUS
    <3>4. enroll' = [enroll EXCEPT ![e] = x]
      BY <2>2
    <3> HIDE DEF x
    <3>5. QED BY <1>2, <3>2, <3>3, <3>4
  <2>3. ASSUME NEW r \in Fresh,
               enroll' = [enroll EXCEPT ![e] =
                 [pc |-> "insert", id |-> r, saw |-> NoRow, set |-> New(Nothing, rank),
                  columns |-> {}]]
        PROVE  Obedient'
    <3> DEFINE x == [pc |-> "insert", id |-> r, saw |-> NoRow, set |-> New(Nothing, rank),
                     columns |-> {}]
    <3>1. x.saw.status = "none"
      BY NoRowSound
    <3>2. enroll' = [enroll EXCEPT ![e] = x]
      BY <2>3
    <3> HIDE DEF x
    <3>3. QED BY <1>2, <3>1, <3>2
  <2>4. QED BY <2>1, <2>2, <2>3
<1>4. ASSUME NEW e \in Requests, EnrollCompare(e) PROVE Obedient'
  <2> DEFINE r == enroll[e].id
             there == r \in Present(row)
             x == [pc |-> IF there THEN "update" ELSE "insert", id |-> r,
                   saw |-> enroll[e].saw, set |-> enroll[e].set,
                   columns |-> {c \in DOMAIN NoRow : there /\ enroll[e].set[c] # row[r][c]}]
  <2>1. enroll' = [enroll EXCEPT ![e] = x] /\ enroll[e].pc # "idle"
    BY <1>4 DEF EnrollCompare
  <2>2. x.saw = enroll[e].saw /\ x.set = enroll[e].set
    OBVIOUS
  <2> HIDE DEF x
  <2>3. QED BY <1>2, <2>1, <2>2 DEF Obedient
<1>5. ASSUME NEW e \in Requests, EnrollCommit(e) \/ EnrollFails(e) PROVE Obedient'
  <2>1. enroll' = [enroll EXCEPT ![e] = NoRequest]
    BY <1>5 DEF EnrollCommit, EnrollFails
  <2>2. QED BY <1>2, <2>1, NoRequestType
<1>6. CASE UNCHANGED enroll
  BY <1>6 DEF Obedient
<1>7. QED
  BY <1>3, <1>4, <1>5, <1>6
     DEF DirectoryNext, EnvNext, EnrollNext, SyncNext, directoryVars, Move, SetArchived, RemoveRow,
         LoseIdentity, GiveUp, Fetch, Lookup, Select, Upsert, Archive, Commit, SyncFails

\* An enrolment that takes back a decision of the directory had not read it
\* (enrollment.service.ts:85-93).
LEMMA CommitObeys ==
  ASSUME DirectoryTypes, Obedient, NEW e \in Requests, NEW r \in Rows, EnrollCommit(e),
         row[r].status = "archived", row'[r].status = "active"
  PROVE  enroll[e].saw.status # "archived" \/ enroll[e].saw.reason # "directory"
<1>1. /\ row'[enroll[e].id].status \in {enroll[e].set.status, row[enroll[e].id].status}
      /\ \A s \in Rows \ {enroll[e].id} : row'[s] = row[s]
  BY EnrollCommitTable
<1>2. r = enroll[e].id
  BY <1>1
<1>3. enroll[e].set.status = "active" /\ enroll[e].pc # "idle"
  BY <1>1, <1>2 DEF EnrollCommit
<1>4. QED BY <1>3 DEF Obedient

\* No enrolment undoes what the directory had decided when the enrolment read the record: whom
\* it archived stays archived (enrollment.service.ts:85-93).
THEOREM EnrolmentObeysDirectory == DirectorySpec => EnrollmentObeys
<1> DEFINE IInv == DirectoryTypes /\ Obedient
           Obeys == \A e \in Requests, r \in Rows :
                      EnrollCommit(e) /\ row[r].reason = "directory" /\ row[r].status = "archived"
                        /\ row'[r].status = "active"
                        => enroll[e].saw.status # "archived" \/ enroll[e].saw.reason # "directory"
<1>1. DirectoryInit => IInv
  BY InitRecords, InitObedient
<1>2. IInv /\ [DirectoryNext]_directoryVars => IInv'
  BY NextRecords, NextObedient
<1>3. IInv => [Obeys]_directoryVars
  BY CommitObeys
<1>4. QED BY <1>1, <1>2, <1>3, PTL DEF DirectorySpec, EnrollmentObeys

=============================================================================
