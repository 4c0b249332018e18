--------------------------- MODULE RestartProofs ---------------------------
(***************************************************************************)
(* What Restart promises for every number of jobs, boots, deferrals and    *)
(* reports: its types, that a job that is over never occupies the device   *)
(* again and claim() never has to choose between two, that a withdrawn job *)
(* does not come back to the agent, and that a machine is not restarted    *)
(* again for a job whose restart was on record when it went down.          *)
(***************************************************************************)
EXTENDS Restart, FiniteSetTheorems, TLAPS

\* The backend counts a job's restart from a moment that lies behind.
YoungSince == \A j \in young \ marked : since[j] <= boot

\* The gate is held for a shutdown only while the restart is on disk.
GateHeld == gate \in {"send", "initiate"} => Restarting /\ ~file.closed

IInv == TypeOK /\ YoungSince /\ GateHeld

FileType ==
  [job: Jobs, restarting: 0..Never, closed: BOOLEAN, deferrals: 0..MaxDeferrals,
   deadline: {"none", "running", "over"}, wait: BOOLEAN, unreported: Seq(Reports)]

\* A file with a job is a full record.
LEMMA FileOfJob ==
  ASSUME TypeOK, file.job # NoJob
  PROVE  file \in FileType
BY DEF TypeOK, FileType, NoFile

\* Report() keeps the file's type.
LEMMA WithReportType ==
  ASSUME TypeOK, NEW f \in FileType, NEW s \in Open \cup {"failed"}
  PROVE  WithReport(f, s, boot) \in FileType
<1>1. [job |-> f.job, state |-> s, at |-> boot] \in Reports
  BY DEF TypeOK, FileType, Reports
<1>2. Append(f.unreported, [job |-> f.job, state |-> s, at |-> boot]) \in Seq(Reports)
  BY <1>1 DEF FileType
<1> QED
  BY <1>2 DEF WithReport, FileType

\* What waits to be reported is about a job of the table.
LEMMA ReportType ==
  ASSUME TypeOK, Unreported
  PROVE  Report \in Reports /\ Sent \in FileType
<1>1. file \in FileType
  BY FileOfJob DEF Unreported
<1>2. file.unreported \in Seq(Reports) /\ file.unreported # <<>>
  BY <1>1 DEF Unreported, FileType
<1>3. Head(file.unreported) \in Reports /\ Tail(file.unreported) \in Seq(Reports)
  BY <1>2
<1> QED
  BY <1>1, <1>3 DEF Report, Sent, FileType

\* The backend's variables after a report.
LEMMA ReportedType ==
  ASSUME TypeOK, NEW r \in Reports, Reported(r)
  PROVE  /\ state' \in [Jobs -> {"absent"} \cup Open \cup Closed]
         /\ since' \in [Jobs -> 0..MaxBoots]
         /\ marked' \subseteq Jobs
         /\ \A j \in Jobs \ marked' : since'[j] = since[j]
         /\ marked \subseteq marked'
BY DEF TypeOK, Reports, Reported, Closed

-----------------------------------------------------------------------------

\* The steps that change nothing but what the agent has.
AgentType ==
  /\ file = NoFile \/ file \in FileType
  /\ prompt \in {"none", "offer", "final"} \cup Answers
  /\ gate \in {"free", "flush", "report", "send", "initiate"}

\* The coordinator's own steps - ticks, prompt and shutdown - keep its types.
LEMMA CoordinatorStep ==
  ASSUME TypeOK, GateHeld,
         \/ TickClosed \/ TickRestarting \/ TickServer \/ TickNobody \/ TickAbsent \/ TickShow
         \/ TickNotShown \/ FollowRestart \/ FollowDefer \/ FollowClosed \/ FollowSilent
         \/ Initiate \/ InitiateFails \/ WaitOver \/ DeadlineOver
         \/ \E a \in Answers : UserAnswers(a)
  PROVE  AgentType' /\ UNCHANGED agentElse
<1> DEFINE Restart(f) == [f EXCEPT !.restarting = boot, !.wait = FALSE]
           Failed(f) == [WithReport(f, "failed", boot) EXCEPT !.closed = TRUE]
<1>1. AgentType
  BY DEF TypeOK, AgentType, FileType
<1>2. file.job # NoJob => file \in FileType
  BY FileOfJob
<1>3. ASSUME NEW f \in FileType, BeginRestart(f) PROVE file' \in FileType /\ gate' = "send"
  <2>1. Restart(f) \in FileType
    <3>1. boot \in 0..Never
      BY BoundsAssumption DEF TypeOK, Never
    <3> QED
      BY <3>1 DEF FileType
  <2> QED
    BY <1>3, <2>1, WithReportType DEF BeginRestart, Open
<1>4. ASSUME NEW f \in FileType, Fail(f) PROVE file' \in FileType /\ gate' = "flush"
  <2>1. WithReport(f, "failed", boot) \in FileType
    BY WithReportType
  <2> QED
    BY <1>4, <2>1 DEF Fail, FileType
<1>5. file \in FileType => Deadlined \in FileType
  BY DEF Deadlined, FileType
<1>6. CASE TickClosed
  BY <1>1, <1>6 DEF TickClosed, AgentType, agentElse
<1>7. CASE TickRestarting
  BY <1>1, <1>2, <1>4, <1>7 DEF TickRestarting, Ticking, AgentType, Drop
<1>8. CASE TickServer
  BY <1>1, <1>2, <1>4, <1>8 DEF TickServer, Ticking, AgentType
<1>9. CASE TickNobody
  BY <1>1, <1>2, <1>3, <1>9 DEF TickNobody, Asking, Ticking, AgentType
<1>10. CASE TickAbsent
  <2>1. file \in FileType
    BY <1>2, <1>10 DEF TickAbsent, Asking, Ticking
  <2>2. WithReport(Deadlined, "notified", boot) \in FileType
    BY <1>5, <2>1, WithReportType DEF Open
  <2>3. \A f \in FileType : [f EXCEPT !.wait = TRUE] \in FileType
    BY DEF FileType
  <2> QED
    BY <1>1, <1>3, <1>10, <2>1, <2>2, <2>3 DEF TickAbsent, AgentType
<1>11. CASE TickShow
  <2>1. WithReport(Deadlined, "notified", boot) \in FileType
    BY <1>2, <1>5, <1>11, WithReportType DEF TickShow, Asking, Ticking, Open
  <2> QED
    BY <1>1, <1>11, <2>1 DEF TickShow, AgentType
<1>12. CASE TickNotShown
  <2>1. file \in FileType
    BY <1>2, <1>12 DEF TickNotShown, Asking, Ticking
  <2>2. [Deadlined EXCEPT !.wait = TRUE] \in FileType
    BY <1>5, <2>1 DEF FileType
  <2> QED
    BY <1>1, <1>3, <1>12, <2>1, <2>2 DEF TickNotShown, AgentType
<1>13. CASE FollowRestart \/ FollowSilent
  BY <1>1, <1>2, <1>3, <1>13 DEF FollowRestart, FollowSilent, Asking, Ticking, AgentType
<1>14. CASE FollowDefer
  <2>1. file \in FileType
    BY <1>2, <1>14 DEF FollowDefer, Asking, Ticking
  <2>2. [file EXCEPT !.wait = TRUE] \in FileType
    BY <2>1 DEF FileType
  <2>3. file.deferrals < MaxDeferrals
          => [file EXCEPT !.deferrals = @ + 1, !.wait = TRUE] \in FileType
    <3>1. file.deferrals < MaxDeferrals => file.deferrals + 1 \in 0..MaxDeferrals
      BY <2>1, BoundsAssumption DEF FileType
    <3> QED
      BY <2>1, <3>1 DEF FileType
  <2> QED
    BY <1>1, <1>14, <2>2, <2>3, WithReportType DEF FollowDefer, AgentType, Open
<1>15. CASE FollowClosed
  <2>1. file \in FileType
    BY <1>2, <1>15 DEF FollowClosed, Asking, Ticking
  <2> QED
    BY <1>1, <1>15, <2>1 DEF FollowClosed, AgentType, FileType
<1>16. CASE Initiate
  BY <1>1, <1>16 DEF Initiate, AgentType
<1>18. CASE WaitOver \/ DeadlineOver
  <2>1. file \in FileType
    BY <1>2, <1>18 DEF WaitOver, DeadlineOver
  <2> QED
    BY <1>1, <1>18, <2>1 DEF WaitOver, DeadlineOver, AgentType, FileType
<1>19. ASSUME NEW a \in Answers, UserAnswers(a) PROVE AgentType' /\ UNCHANGED agentElse
  BY <1>1, <1>19 DEF UserAnswers, AgentType
<1>20. CASE InitiateFails
  <2>1. file \in FileType
    BY <1>2, <1>20 DEF InitiateFails, GateHeld, Restarting
  <2>2. Never \in 0..Never
    BY BoundsAssumption DEF Never
  <2>3. [file EXCEPT !.restarting = Never] \in FileType
    BY <2>1, <2>2 DEF FileType
  <2> QED
    BY <1>1, <1>4, <1>20, <2>3 DEF InitiateFails, AgentType
<1> QED
  BY <1>6, <1>7, <1>8, <1>9, <1>10, <1>11, <1>12, <1>13, <1>14, <1>15, <1>16, <1>18, <1>19, <1>20

\* Every step keeps TypeOK.
LEMMA TypeStep == IInv /\ [Next]_vars => TypeOK'
<1> SUFFICES ASSUME IInv, [Next]_vars PROVE TypeOK'
  OBVIOUS
<1> DEFINE Checkins == [pc: {"idle", "cleanup", "deliver", "select", "report"}]
                       \cup [pc: {"sent"}, boot: 0..MaxBoots]
                       \cup [pc: {"answer"}, job: Jobs \cup {NoJob}]
           States == [Jobs -> {"absent"} \cup Open \cup Closed]
           BackendType == /\ state \in States
                          /\ since \in [Jobs -> 0..MaxBoots]
                          /\ marked \subseteq Jobs /\ young \subseteq Jobs
                          /\ lastBoot \in 0..MaxBoots
           WorldType == /\ boot \in 0..MaxBoots /\ server \in BOOLEAN
                        /\ rebooted \in [Jobs -> {"nothing", "open", "restarting"}]
           OtherType == late \subseteq Reports /\ told \subseteq Jobs
<1>1. TypeOK /\ GateHeld /\ YoungSince
  BY DEF IInv
<1>2. BackendType /\ WorldType /\ OtherType /\ AgentType /\ checkin \in Checkins
  BY <1>1 DEF TypeOK, AgentType, FileType
<1>3. SUFFICES BackendType' /\ WorldType' /\ OtherType' /\ AgentType' /\ checkin' \in Checkins
  BY DEF TypeOK, AgentType, FileType, Open, Closed, Reports, Answers, NoFile, Never
<1> DEFINE Goal == BackendType' /\ WorldType' /\ OtherType' /\ AgentType' /\ checkin' \in Checkins
<1>4. ASSUME UNCHANGED backendVars PROVE BackendType'
  BY <1>2, <1>4 DEF backendVars
<1>5. ASSUME UNCHANGED agentVars PROVE AgentType'
  BY <1>2, <1>5 DEF agentVars, AgentType, FileType, Reports, Never, NoFile
<1>6. ASSUME UNCHANGED worldVars PROVE WorldType'
  BY <1>2, <1>6 DEF worldVars
<1>7. \A overdue : CleanedUp(overdue) \in States
  BY <1>2 DEF CleanedUp, Closed
<1>8. Idle \in Checkins
  BY DEF Idle
<1>9. CASE \/ TickClosed \/ TickRestarting \/ TickServer \/ TickNobody \/ TickAbsent
           \/ TickShow \/ TickNotShown \/ FollowRestart \/ FollowDefer \/ FollowClosed
           \/ FollowSilent \/ Initiate \/ InitiateFails \/ WaitOver \/ DeadlineOver
           \/ \E a \in Answers : UserAnswers(a)
  <2>1. AgentType' /\ UNCHANGED agentElse
    BY <1>1, <1>9, CoordinatorStep
  <2> QED
    BY <1>2, <1>4, <1>6, <2>1 DEF agentElse
<1>10. ASSUME NEW j \in Jobs, Create(j) PROVE Goal
  <2>1. BackendType'
    BY <1>2, <1>10 DEF Create, Open
  <2> QED
    BY <1>2, <1>5, <1>6, <1>10, <2>1 DEF Create
<1>11. ASSUME NEW j \in Jobs, Cancel(j) PROVE Goal
  <2>1. BackendType'
    BY <1>2, <1>11 DEF Cancel, Closed
  <2> QED
    BY <1>2, <1>5, <1>6, <1>11, <2>1 DEF Cancel
<1>12. CASE List
  BY <1>2, <1>5, <1>6, <1>7, <1>12 DEF List
<1>13. ASSUME NEW r \in late, LateReport(r) PROVE Goal
  <2>1. BackendType'
    BY <1>1, <1>2, <1>13, ReportedType DEF LateReport
  <2> QED
    BY <1>2, <1>5, <1>6, <1>13, <2>1 DEF LateReport
<1>14. CASE Collect
  BY <1>2, <1>4, <1>5, <1>6, <1>14 DEF Collect
<1>15. CASE Ingest
  <2>1. checkin.boot \in 0..MaxBoots
    BY <1>2, <1>15 DEF Ingest
  <2> QED
    BY <1>2, <1>5, <1>6, <1>15, <2>1 DEF Ingest
<1>16. CASE ClaimCleanup
  BY <1>2, <1>5, <1>6, <1>7, <1>16 DEF ClaimCleanup
<1>17. CASE ClaimDeliver
  <2>1. state' \in States
    BY <1>2, <1>17 DEF ClaimDeliver, Open
  <2> QED
    BY <1>2, <1>5, <1>6, <1>17, <2>1 DEF ClaimDeliver
<1>18. CASE ClaimSelect
  <2>1. checkin' \in Checkins
    BY <1>18 DEF ClaimSelect, Selected
  <2> QED
    BY <1>2, <1>4, <1>5, <1>6, <1>18, <2>1 DEF ClaimSelect
<1>19. CASE CheckinLost
  BY <1>2, <1>4, <1>5, <1>6, <1>8, <1>19 DEF CheckinLost
<1>20. CASE Apply
  <2>1. checkin.job \in Jobs \cup {NoJob} /\ checkin' \in Checkins
    BY <1>2, <1>20 DEF Apply
  <2>2. AgentType' /\ told' \subseteq Jobs
    <3>1. CASE checkin.job = NoJob
      <4>1. file.job # NoJob => file.job \in Jobs
        BY <1>1, FileOfJob DEF FileType
      <4> QED
        BY <1>2, <1>20, <3>1, <4>1 DEF Apply, NullAnswer, Drop, AgentType, FileType, Reports, Never,
                                       NoFile
    <3>2. CASE checkin.job \in Jobs
      <4>1. Accepted(checkin.job) \in FileType
        <5>1. Never \in 0..Never /\ 0 \in 0..MaxDeferrals /\ <<>> \in Seq(Reports)
          BY BoundsAssumption DEF Never
        <5> QED
          BY <3>2, <5>1 DEF Accepted, FileType
      <4> QED
        BY <1>2, <1>20, <3>2, <4>1, NoJobAssumption
        DEF Apply, AgentType, FileType, Reports, Never, NoFile
    <3> QED
      BY <2>1, <3>1, <3>2
  <2> QED
    BY <1>2, <1>4, <1>6, <1>20, <2>1, <2>2 DEF Apply
<1>21. CASE ReportPending
  BY <1>2, <1>4, <1>6, <1>8, <1>21 DEF ReportPending, AgentType, FileType, Reports, Never, NoFile
<1>22. CASE PostDone
  <2>1. Report \in Reports /\ Sent \in FileType
    BY <1>1, <1>22, ReportType DEF PostDone
  <2>2. BackendType'
    BY <1>1, <1>2, <1>22, <2>1, ReportedType DEF PostDone
  <2>3. AgentType'
    BY <1>2, <1>22, <2>1 DEF PostDone, Drop, AgentType, FileType, Reports, Never, NoFile
  <2> QED
    BY <1>2, <1>6, <1>22, <2>2, <2>3 DEF PostDone
<1>23. CASE PostFails
  <2>1. late' \subseteq Reports
    BY <1>1, <1>2, <1>23, ReportType DEF PostFails
  <2>2. AgentType'
    BY <1>2, <1>23 DEF PostFails, FlushGivesUp, AgentType, FileType, Reports, Never, NoFile
  <2> QED
    BY <1>2, <1>4, <1>6, <1>23, <2>1, <2>2 DEF PostFails
<1>24. CASE FlushEnds
  <2>1. AgentType'
    BY <1>2, <1>24 DEF FlushEnds, FlushGivesUp, Drop, AgentType, FileType, Reports, Never, NoFile
  <2> QED
    BY <1>2, <1>4, <1>6, <1>24, <2>1 DEF FlushEnds
<1>25. CASE ServiceRestarts
  BY <1>2, <1>4, <1>6, <1>8, <1>25
  DEF ServiceRestarts, AgentType, FileType, Reports, Never, NoFile
<1>26. CASE Machine
  <2>1. PICK Y \in SUBSET (young \ marked) : Boot(Y)
    BY <1>26 DEF Machine
  <2>2. BackendType'
    <3>1. \A j \in Y : j \in Jobs /\ since[j] + 1 \in 0..MaxBoots
      BY <1>1, <1>2, <2>1, BoundsAssumption DEF Boot, YoungSince
    <3> QED
      BY <1>2, <2>1, <3>1 DEF Boot
  <2>3. WorldType'
    <3>1. boot' \in 0..MaxBoots
      BY <1>2, <2>1, BoundsAssumption DEF Boot
    <3>2. rebooted' \in [Jobs -> {"nothing", "open", "restarting"}]
      BY <1>2, <2>1 DEF Boot
    <3> QED
      BY <1>2, <2>1, <3>1, <3>2 DEF Boot
  <2>4. AgentType'
    BY <1>2, <2>1 DEF Boot, AgentType, FileType, Reports, Never, NoFile
  <2> QED
    BY <1>2, <1>8, <2>1, <2>2, <2>3, <2>4 DEF Boot
<1>27. CASE UNCHANGED vars
  BY <1>2, <1>4, <1>5, <1>6, <1>27 DEF vars
<1> QED
  BY <1>9, <1>10, <1>11, <1>12, <1>13, <1>14, <1>15, <1>16, <1>17, <1>18, <1>19, <1>20, <1>21,
     <1>22, <1>23, <1>24, <1>25, <1>26, <1>27
  DEF Next, BackendNext, CheckinNext, AgentNext, WorldNext

-----------------------------------------------------------------------------

\* The steps that leave the backend alone.
LEMMA Elsewhere ==
  ASSUME \/ Collect \/ ClaimSelect \/ CheckinLost \/ Apply \/ ReportPending
         \/ TickClosed \/ PostFails \/ FlushEnds \/ TickRestarting \/ TickServer \/ TickNobody
         \/ TickAbsent \/ TickShow \/ TickNotShown \/ FollowRestart \/ FollowDefer
         \/ FollowClosed \/ FollowSilent \/ Initiate \/ InitiateFails
         \/ (\E a \in Answers : UserAnswers(a)) \/ WaitOver \/ DeadlineOver
         \/ ServiceRestarts \/ UNCHANGED vars
  PROVE  UNCHANGED backendVars /\ UNCHANGED boot
BY DEF Collect, ClaimSelect, CheckinLost, Apply, ReportPending, TickClosed, PostFails, FlushEnds,
       TickRestarting, TickServer, TickNobody, TickAbsent, TickShow, TickNotShown,
       FollowRestart, FollowDefer, FollowClosed, FollowSilent, Initiate, InitiateFails,
       UserAnswers, WaitOver, DeadlineOver, ServiceRestarts, agentElse, worldVars, vars

\* Every step keeps YoungSince: what sets since[j] marks j, or moves with the boots.
LEMMA YoungStep == IInv /\ [Next]_vars => YoungSince'
<1> SUFFICES ASSUME IInv, [Next]_vars PROVE YoungSince'
  OBVIOUS
<1>1. TypeOK /\ YoungSince
  BY DEF IInv
<1>2. ASSUME UNCHANGED backendVars /\ UNCHANGED boot PROVE YoungSince'
  BY <1>1, <1>2 DEF backendVars, YoungSince
<1>3. ASSUME NEW j \in Jobs, Create(j) PROVE YoungSince'
  BY <1>1, <1>3 DEF Create, worldVars, YoungSince, TypeOK
<1>4. ASSUME NEW j \in Jobs, Cancel(j) PROVE YoungSince'
  BY <1>1, <1>4 DEF Cancel, worldVars, YoungSince
<1>5. CASE List \/ Ingest \/ ClaimCleanup \/ ClaimDeliver
  BY <1>1, <1>5 DEF List, Ingest, ClaimCleanup, ClaimDeliver, worldVars, YoungSince
<1>6. ASSUME NEW r \in Reports, Reported(r), UNCHANGED <<young, boot>> PROVE YoungSince'
  BY <1>1, <1>6, ReportedType DEF YoungSince, TypeOK
<1>7. ASSUME NEW r \in late, LateReport(r) PROVE YoungSince'
  BY <1>1, <1>6, <1>7 DEF LateReport, worldVars, TypeOK
<1>8. CASE PostDone
  BY <1>1, <1>6, <1>8, ReportType DEF PostDone, worldVars
<1>9. CASE Machine
  <2>1. PICK Y \in SUBSET (young \ marked) : Boot(Y)
    BY <1>9 DEF Machine
  <2>2. \A j \in Y : since'[j] = since[j] + 1 /\ since[j] <= boot
    BY <1>1, <2>1 DEF Boot, YoungSince, TypeOK
  <2>3. boot' = boot + 1 /\ boot \in Nat /\ \A j \in Y : since[j] \in Nat
    BY <1>1, <2>1, BoundsAssumption DEF Boot, TypeOK
  <2>4. young' = Y /\ marked' = marked
    BY <2>1 DEF Boot
  <2> QED
    BY <2>2, <2>3, <2>4 DEF YoungSince
<1> QED
  BY <1>2, <1>3, <1>4, <1>5, <1>7, <1>8, <1>9, Elsewhere
  DEF Next, BackendNext, CheckinNext, AgentNext, WorldNext

\* Every step keeps GateHeld: until the shutdown nothing lets go of the file.
LEMMA GateStep == IInv /\ [Next]_vars => GateHeld'
<1> SUFFICES ASSUME IInv, [Next]_vars PROVE GateHeld'
  OBVIOUS
<1>1. TypeOK /\ GateHeld
  BY DEF IInv
<1>2. ASSUME gate' \in {"free", "flush", "report"} PROVE GateHeld'
  BY <1>2 DEF GateHeld
<1>3. ASSUME UNCHANGED <<file, gate>> PROVE GateHeld'
  BY <1>1, <1>3 DEF GateHeld, Restarting, Never
<1>4. ASSUME NEW f \in FileType, ~f.closed, BeginRestart(f) PROVE GateHeld'
  <2>1. /\ file'.job = f.job /\ file'.restarting = boot /\ file'.closed = f.closed
    BY <1>4 DEF BeginRestart, WithReport, FileType
  <2>2. boot # Never /\ f.job # NoJob
    BY <1>1, <1>4, BoundsAssumption, NoJobAssumption DEF TypeOK, Never, FileType
  <2> QED
    BY <1>4, <2>1, <2>2 DEF GateHeld, Restarting, Never
<1>5. Ticking => file \in FileType /\ ~file.closed /\ Deadlined \in FileType /\ ~Deadlined.closed
  BY <1>1, FileOfJob DEF Ticking, Deadlined, FileType
<1>6. CASE TickNobody \/ TickAbsent \/ TickNotShown \/ FollowRestart \/ FollowSilent
  <2>1. gate = "free" /\ (BeginRestart(file) \/ gate' \in {"flush", "free"})
    BY <1>6 DEF TickNobody, TickAbsent, TickNotShown, FollowRestart, FollowSilent, Asking, Ticking
  <2>2. Ticking
    BY <1>6 DEF TickNobody, TickAbsent, TickNotShown, FollowRestart, FollowSilent, Asking
  <2> QED
    BY <1>2, <1>4, <1>5, <2>1, <2>2
<1>7. CASE \/ TickClosed \/ TickServer \/ TickShow \/ FollowDefer \/ FollowClosed \/ Initiate
           \/ InitiateFails \/ ServiceRestarts \/ TickRestarting
  BY <1>2, <1>7 DEF TickClosed, TickServer, TickShow, FollowDefer, FollowClosed, Initiate,
                    InitiateFails, ServiceRestarts, TickRestarting, Asking, Ticking, Fail
<1>8. CASE Machine
  BY <1>2, <1>8 DEF Machine, Boot
<1>9. CASE Apply \/ ReportPending
  BY <1>2, <1>9 DEF Apply, ReportPending
<1>10. CASE PostDone
  <2>1. CASE gate \in {"flush", "report"}
    BY <1>2, <1>10, <2>1 DEF PostDone
  <2>2. CASE gate = "send"
    <3>1. Restarting /\ ~file.closed
      BY <1>1, <2>2 DEF GateHeld
    <3>2. file' = Sent
      BY <1>10, <3>1 DEF PostDone
    <3>3. file'.job = file.job /\ file'.restarting = file.restarting /\ file'.closed = file.closed
      BY <1>1, <3>1, <3>2, FileOfJob DEF Sent, Restarting, FileType
    <3> QED
      BY <3>1, <3>3 DEF GateHeld, Restarting, Never
  <2> QED
    BY <1>10, <2>1, <2>2 DEF PostDone
<1>11. CASE PostFails \/ FlushEnds
  <2>1. CASE gate \in {"flush", "report"}
    BY <1>2, <1>11, <2>1 DEF PostFails, FlushEnds, FlushGivesUp
  <2>2. CASE gate = "send"
    <3>1. Restarting /\ ~file.closed
      BY <1>1, <2>2 DEF GateHeld
    <3>2. file' = file
      BY <1>11, <3>1 DEF PostFails, FlushEnds, Restarting
    <3> QED
      BY <3>1, <3>2 DEF GateHeld, Restarting, Never
  <2> QED
    BY <1>11, <2>1, <2>2 DEF PostFails, FlushEnds
<1>12. CASE WaitOver \/ DeadlineOver
  <2>1. /\ gate' = gate /\ file'.job = file.job /\ file'.restarting = file.restarting
        /\ file'.closed = file.closed
    BY <1>1, <1>12, FileOfJob DEF WaitOver, DeadlineOver, FileType
  <2> QED
    BY <1>1, <2>1 DEF GateHeld, Restarting, Never
<1>13. ASSUME NEW j \in Jobs, Create(j) \/ Cancel(j) PROVE GateHeld'
  BY <1>3, <1>13 DEF Create, Cancel, agentVars
<1>14. ASSUME NEW r \in late, LateReport(r) PROVE GateHeld'
  BY <1>3, <1>14 DEF LateReport, agentVars
<1>15. CASE \/ List \/ Collect \/ Ingest \/ ClaimCleanup \/ ClaimDeliver \/ ClaimSelect
            \/ CheckinLost \/ UNCHANGED vars
  BY <1>3, <1>15 DEF List, Collect, Ingest, ClaimCleanup, ClaimDeliver, ClaimSelect, CheckinLost,
                     agentVars, vars
<1>16. ASSUME NEW a \in Answers, UserAnswers(a) PROVE GateHeld'
  BY <1>3, <1>16 DEF UserAnswers
<1> QED
  BY <1>6, <1>7, <1>8, <1>9, <1>10, <1>11, <1>12, <1>13, <1>14, <1>15, <1>16
  DEF Next, BackendNext, CheckinNext, AgentNext, WorldNext

\* IInv holds throughout.
LEMMA Invariant == Spec => []IInv
<1>1. Init => IInv
  <2> SUFFICES ASSUME Init PROVE IInv
    OBVIOUS
  <2>1. TypeOK
    BY BoundsAssumption DEF Init, TypeOK, Idle
  <2> QED
    BY <2>1 DEF Init, IInv, YoungSince, GateHeld
<1>2. IInv /\ [Next]_vars => IInv'
  BY TypeStep, YoungStep, GateStep DEF IInv
<1> QED
  BY <1>1, <1>2, PTL DEF Spec

\* The variables of Restart keep their types: the backend never gets a state that
\* restart_job_state does not have.
THEOREM TypeCorrect == Spec => []TypeOK
<1>1. IInv => TypeOK
  BY DEF IInv
<1> QED
  BY <1>1, Invariant, PTL

-----------------------------------------------------------------------------
(* The table implements JobSlot.                                           *)

\* A step that opens no job and leaves the closed ones alone gives up the places of
\* the jobs it closes.
LEMMA ReleaseStep ==
  ASSUME \A j \in Jobs : /\ state[j] \in Open => state'[j] \in Open \cup Closed
                         /\ state[j] \notin Open => state'[j] = state[j]
  PROVE  Slot!FinalNext
<1> DEFINE J == {j \in Jobs : state[j] \in Open /\ state'[j] \in Closed}
<1>1. Open' = Open /\ Closed' = Closed /\ Open \cap Closed = {}
  BY DEF Open, Closed
<1>2. Slot!Release(J)
  BY <1>1 DEF Slot!Release
<1>3. J \in SUBSET Jobs
  OBVIOUS
<1> QED
  BY <1>2, <1>3, Zenon DEF Slot!FinalNext, Slot!Release

\* The table of restart jobs is a JobSlot that no job enters twice: reports, however
\* late, cancellations and cleanups only ever give the place up.
THEOREM TableIsSlot == Spec => ImplementsSlot
<1>1. Init => Slot!Init
  BY DEF Init, Slot!Init, Open, Closed
<1>2. IInv /\ [Next]_vars => [Slot!FinalNext]_Slot!vars
  <2> SUFFICES ASSUME IInv, [Next]_vars PROVE Slot!FinalNext
    OBVIOUS
  <2>1. TypeOK
    BY DEF IInv
  <2>2. ASSUME NEW j \in Jobs, Create(j) PROVE Slot!FinalNext
    <3>1. /\ OpenJobs = {} /\ state[j] = "absent"
          /\ \A k \in Jobs : state'[k] = IF k = j THEN "pending" ELSE state[k]
      BY <2>1, <2>2 DEF Create, TypeOK
    <3>2. /\ Open' = Open /\ Closed' = Closed
          /\ "pending" \in Open /\ "pending" \notin Closed
          /\ "absent" \notin Open /\ "absent" \notin Closed
      BY DEF Open, Closed
    <3>3. \A k \in Jobs : state[k] \notin Open
      BY <3>1 DEF OpenJobs
    <3>4. Slot!Take({j})
      BY <3>1, <3>2, <3>3 DEF Slot!Take, Slot!Vacant
    <3>5. {j} \in SUBSET Jobs
      OBVIOUS
    <3> DEFINE J == {j}
    <3> HIDE DEF J
    <3>6. Slot!Take(J) /\ J \in SUBSET Jobs
      BY <3>4, <3>5 DEF J
    <3> QED
      BY <3>6, Zenon DEF Slot!FinalNext, Slot!Take
  <2>3. ASSUME NEW j \in Jobs, Cancel(j) PROVE Slot!FinalNext
    BY <2>1, <2>3, ReleaseStep DEF Cancel, Cancellable, TypeOK, Open, Closed
  <2>4. ASSUME NEW overdue, state' = CleanedUp(overdue) PROVE Slot!FinalNext
    BY <2>4, ReleaseStep DEF CleanedUp, Open, Closed
  <2>5. ASSUME NEW r \in Reports, Reported(r) PROVE Slot!FinalNext
    BY <2>1, <2>5, ReleaseStep DEF Reported, Accepts, Reports, TypeOK, Open, Closed
  <2>6. ASSUME NEW r \in late, LateReport(r) PROVE Slot!FinalNext
    BY <2>1, <2>5, <2>6 DEF LateReport, TypeOK
  <2>7. CASE PostDone
    BY <2>1, <2>5, <2>7, ReportType DEF PostDone
  <2>8. CASE ClaimDeliver
    BY <2>8, ReleaseStep DEF ClaimDeliver, Open, Closed
  <2>9. CASE UNCHANGED state
    BY <2>9, ReleaseStep
  <2> QED
    BY <2>2, <2>3, <2>4, <2>6, <2>7, <2>8, <2>9, Elsewhere
    DEF Next, BackendNext, CheckinNext, AgentNext, WorldNext, List, Ingest, ClaimCleanup,
        Machine, Boot, backendVars
<1> QED
  BY <1>1, <1>2, Invariant, PTL DEF Spec, ImplementsSlot, Slot!FinalSpec

\* A restart job that is over keeps the state it ended in: no report, claim, cancellation or
\* cleanup writes to it (RestartService.reportResult, cancelJob, cleanup, claim).
THEOREM ClosedForGood == Spec => [][\A j \in Jobs : state[j] \in Closed => state'[j] = state[j]]_state
<1> DEFINE Stays == \A j \in Jobs : state[j] \in Closed => state'[j] = state[j]
<1>1. IInv /\ [Next]_vars => [Stays]_state
  <2> SUFFICES ASSUME IInv, [Next]_vars, NEW j \in Jobs, state[j] \in Closed
               PROVE  state'[j] = state[j]
    OBVIOUS
  <2>1. TypeOK
    BY DEF IInv
  <2>2. ASSUME NEW k \in Jobs, Create(k) \/ Cancel(k) PROVE state'[j] = state[j]
    BY <2>1, <2>2 DEF Create, Cancel, Cancellable, TypeOK, Open, Closed
  <2>3. ASSUME NEW overdue, state' = CleanedUp(overdue) PROVE state'[j] = state[j]
    BY <2>3 DEF CleanedUp, Open, Closed
  <2>4. ASSUME NEW r \in Reports, Reported(r) PROVE state'[j] = state[j]
    BY <2>1, <2>4 DEF Reported, Accepts, Reports, TypeOK, Open, Closed
  <2>5. ASSUME NEW r \in late, LateReport(r) PROVE state'[j] = state[j]
    BY <2>1, <2>4, <2>5 DEF LateReport, TypeOK
  <2>6. CASE PostDone
    BY <2>1, <2>4, <2>6, ReportType DEF PostDone
  <2>7. CASE ClaimDeliver
    BY <2>7 DEF ClaimDeliver, Closed
  <2>8. CASE UNCHANGED state
    BY <2>8
  <2> QED
    BY <2>2, <2>3, <2>5, <2>6, <2>7, <2>8, Elsewhere
    DEF Next, BackendNext, CheckinNext, AgentNext, WorldNext, List, Ingest, ClaimCleanup,
        Machine, Boot, backendVars
<1> QED
  BY <1>1, Invariant, PTL DEF Spec

-----------------------------------------------------------------------------
(* Withdrawn and carried out jobs do not come back. The argument: a restart  *)
(* of the present boot that is on record, waiting or under way for an open   *)
(* job is on the agent's file (Begun). So once the machine is up again, or   *)
(* the job has been withdrawn, all that is left of the job's restarts lies   *)
(* before the boot (Past), and the check-in closes the job before it could   *)
(* hand it out (Spent).                                                      *)

\* The reports that wait on the agent or are under way.
Elements(q) == {q[i] : i \in 1..Len(q)}
Waiting == IF file.job = NoJob THEN {} ELSE Elements(file.unreported)
Afoot == late \cup Waiting

Out(j) == state[j] \notin {"absent", "pending"}
Over(j) == state[j] \in Closed
Holding == gate \in {"send", "initiate"}
Undecided == file.job # NoJob /\ ~Restarting /\ ~file.closed

\* Nothing is stamped with a boot to come.
Stamped ==
  /\ \A j \in marked : since[j] <= boot
  /\ \A r \in Afoot : r.at <= boot

\* The agent speaks of jobs that were handed out, and of the one on its file.
Known ==
  /\ \A r \in Afoot : Out(r.job) /\ r.state # "pending"
  /\ \A r \in Waiting : r.job = file.job
  /\ file.job # NoJob => Out(file.job)
  /\ \A j \in marked : Out(j)
  /\ \A j \in Jobs : state[j] = "restarting" => j \in marked

Alone == \A j, k \in Jobs : state[j] \in Open /\ state[k] \in Open => j = k

\* A check-in does not outlive the boot it was collected in.
ThisBoot ==
  /\ checkin.pc = "sent" => checkin.boot = boot
  /\ checkin.pc \notin {"idle", "sent"} => lastBoot = boot

\* An answer with a job means that all others are over; one without, that the
\* job the agent still asks about is over or has been restarted for.
AnswerTells ==
  checkin.pc = "answer" =>
    IF checkin.job # NoJob
    THEN /\ Out(checkin.job)
         /\ \A j \in Jobs \ {checkin.job} : Out(j) => Over(j)
    ELSE Undecided => Over(file.job) \/ file.job \in marked

Quiet == Undecided => \A r \in Waiting : r.state # "restarting"

\* A file is closed with a report that closes the job.
ClosedTells ==
  file.job # NoJob /\ file.closed =>
    Over(file.job) \/ \E r \in Waiting : r.state = "failed"

\* All restarts of the job that are known anywhere lie before this boot.
Past(j) ==
  /\ j \in marked => since[j] < boot
  /\ \A r \in Afoot : r.job = j /\ r.state = "restarting" => r.at < boot

Begun ==
  \A j \in Jobs : state[j] \in Open =>
    Past(j) \/ (file.job = j /\ (file.restarting = boot \/ file.closed))

Finished == told \cup {j \in Jobs : rebooted[j] = "restarting"}

\* A job that was withdrawn, or that the machine has restarted for.
Spent ==
  \A j \in Finished :
    /\ Over(j) \/ (j \in marked /\ Past(j))
    /\ file.job = j => ~Undecided /\ ~Holding
    /\ checkin.pc \in {"deliver", "select"} => Over(j)
    /\ checkin.pc = "answer" => checkin.job # j

RInv ==
  /\ IInv
  /\ Stamped /\ Known /\ Alone /\ ThisBoot /\ AnswerTells
  /\ Quiet /\ ClosedTells /\ Begun /\ Spent /\ WithdrawnStaysWithdrawn

\* Append adds to the elements of a queue what it appends.
LEMMA AppendElements ==
  ASSUME NEW S, NEW q \in Seq(S), NEW e \in S
  PROVE  Elements(Append(q, e)) = Elements(q) \cup {e}
<1> DEFINE p == Append(q, e)
<1>1. /\ Len(q) \in Nat /\ Len(p) = Len(q) + 1 /\ p[Len(q) + 1] = e
      /\ \A i \in 1..Len(q) : p[i] = q[i]
  OBVIOUS
<1> HIDE DEF p
<1>2. \A i \in 1..Len(p) : i \in 1..Len(q) \/ i = Len(q) + 1
  BY <1>1
<1>3. \A i \in 1..Len(q) : i \in 1..Len(p)
  BY <1>1
<1>4. Len(q) + 1 \in 1..Len(p)
  BY <1>1
<1>5. ASSUME NEW x \in Elements(p) PROVE x \in Elements(q) \cup {e}
  BY <1>1, <1>2, <1>5 DEF Elements
<1>6. ASSUME NEW x \in Elements(q) PROVE x \in Elements(p)
  BY <1>1, <1>3, <1>6 DEF Elements
<1>7. e \in Elements(p)
  BY <1>1, <1>4 DEF Elements
<1> QED
  BY <1>5, <1>6, <1>7 DEF p

\* The elements of a queue are its head and those of its tail.
LEMMA TailElements ==
  ASSUME NEW S, NEW q \in Seq(S), q # <<>>
  PROVE  /\ Head(q) \in Elements(q)
         /\ Elements(q) = {Head(q)} \cup Elements(Tail(q))
<1>1. Len(q) \in Nat /\ Len(q) >= 1 /\ Head(q) = q[1]
  OBVIOUS
<1>2. /\ Len(Tail(q)) = Len(q) - 1
      /\ \A i \in 1..Len(Tail(q)) : Tail(q)[i] = q[i + 1]
  OBVIOUS
<1>3. \A i \in 1..Len(q) : i = 1 \/ (i - 1 \in 1..Len(Tail(q)) /\ q[i] = Tail(q)[i - 1])
  BY <1>1, <1>2
<1>4. \A i \in 1..Len(Tail(q)) : i + 1 \in 1..Len(q)
  BY <1>1, <1>2
<1>5. ASSUME NEW e \in Elements(q) PROVE e \in {Head(q)} \cup Elements(Tail(q))
  BY <1>1, <1>3, <1>5 DEF Elements
<1>6. ASSUME NEW e \in Elements(Tail(q)) PROVE e \in Elements(q)
  BY <1>2, <1>4, <1>6 DEF Elements
<1>7. Head(q) \in Elements(q)
  BY <1>1 DEF Elements
<1> QED
  BY <1>5, <1>6, <1>7

-----------------------------------------------------------------------------
(* What the coordinator's steps come to.                                   *)

Stamp(s) == [job |-> file.job, state |-> s, at |-> boot]

\* The file keeps its job, and how far its restart has come.
SameFile ==
  /\ file'.job = file.job
  /\ file.job # NoJob => file'.restarting = file.restarting /\ file'.closed = file.closed
  /\ Holding' => Holding

Waits == SameFile /\ Waiting' = Waiting
Tells == SameFile /\ \E s \in {"notified", "deferred"} : Waiting' = Waiting \cup {Stamp(s)}
Begins ==
  /\ Undecided
  /\ file'.job = file.job /\ file'.restarting = boot /\ ~file'.closed
  /\ Waiting' = Waiting \cup {Stamp("restarting")}
Fails ==
  /\ file.job # NoJob
  /\ file'.job = file.job /\ file'.closed
  /\ Waiting' = Waiting \cup {Stamp("failed")}
  /\ ~Holding'
Forgets ==
  /\ file.job # NoJob /\ Restarting /\ ~file.closed /\ boot > file.restarting
  /\ file' = NoFile /\ ~Holding'

\* Report() adds one report.
LEMMA WithReportAdds ==
  ASSUME TypeOK, NEW f \in FileType, f.job = file.job, NEW s \in Open \cup {"failed"}
  PROVE  /\ Elements(WithReport(f, s, boot).unreported) = Elements(f.unreported) \cup {Stamp(s)}
         /\ WithReport(f, s, boot).job = f.job
         /\ WithReport(f, s, boot).restarting = f.restarting
         /\ WithReport(f, s, boot).closed = f.closed
<1>1. Stamp(s) \in Reports
  BY DEF TypeOK, FileType, Reports, Stamp
<1>2. f.unreported \in Seq(Reports)
  BY DEF FileType
<1>3. WithReport(f, s, boot) = [f EXCEPT !.unreported = Append(f.unreported, Stamp(s))]
  BY DEF WithReport, Stamp
<1> DEFINE q == Append(f.unreported, Stamp(s))
<1>4. Elements(q) = Elements(f.unreported) \cup {Stamp(s)}
  BY <1>1, <1>2, AppendElements
<1> HIDE DEF q
<1>5. /\ [f EXCEPT !.unreported = q].unreported = q
      /\ [f EXCEPT !.unreported = q].job = f.job
      /\ [f EXCEPT !.unreported = q].restarting = f.restarting
      /\ [f EXCEPT !.unreported = q].closed = f.closed
  BY DEF FileType
<1> QED
  BY <1>3, <1>4, <1>5 DEF q

\* A step of the coordinator waits, tells how far the job is, begins the restart,
\* gives it up, or forgets it once it has been carried out.
LEMMA CoordinatorDoes ==
  ASSUME TypeOK, GateHeld,
         \/ TickClosed \/ TickRestarting \/ TickServer \/ TickNobody \/ TickAbsent \/ TickShow
         \/ TickNotShown \/ FollowRestart \/ FollowDefer \/ FollowClosed \/ FollowSilent
         \/ Initiate \/ InitiateFails \/ WaitOver \/ DeadlineOver
         \/ \E a \in Answers : UserAnswers(a)
  PROVE  Waits \/ Tells \/ Begins \/ Fails \/ Forgets
<1> DEFINE Restart(f) == [f EXCEPT !.restarting = boot, !.wait = FALSE]
           Failed(f) == [WithReport(f, "failed", boot) EXCEPT !.closed = TRUE]
<1>1. file.job # NoJob => file \in FileType
  BY FileOfJob
<1>2. ASSUME UNCHANGED file, Holding' => Holding PROVE Waits
  BY <1>2 DEF Waits, SameFile, Waiting
<1>3. Asking => Undecided /\ ~Holding
  BY DEF Asking, Ticking, Undecided, Holding
<1>4. ASSUME Undecided, NEW f \in FileType, f.job = file.job, f.closed = file.closed,
             f.unreported = file.unreported, BeginRestart(f)
      PROVE  Begins
  <2>1. Restart(f) \in FileType
    <3>1. boot \in 0..Never
      BY BoundsAssumption DEF TypeOK, Never
    <3> QED
      BY <3>1 DEF FileType
  <2>2. /\ Restart(f).job = file.job /\ Restart(f).restarting = boot
        /\ Restart(f).closed = file.closed /\ Restart(f).unreported = file.unreported
    BY <1>4 DEF FileType
  <2>3. file' = WithReport(Restart(f), "restarting", boot)
    BY <1>4 DEF BeginRestart
  <2> HIDE DEF Restart
  <2>4. /\ Elements(file'.unreported) = Elements(file.unreported) \cup {Stamp("restarting")}
        /\ file'.job = file.job /\ file'.restarting = boot /\ file'.closed = file.closed
    BY <2>1, <2>2, <2>3, WithReportAdds DEF Open
  <2> QED
    BY <1>4, <2>4 DEF Begins, Undecided, Waiting
<1>5. ASSUME file.job # NoJob, NEW f \in FileType, f.job = file.job,
             f.unreported = file.unreported, Fail(f)
      PROVE  Fails
  <2>1. WithReport(f, "failed", boot) \in FileType
    BY WithReportType
  <2>2. /\ Failed(f).job = WithReport(f, "failed", boot).job
        /\ Failed(f).closed
        /\ Failed(f).unreported = WithReport(f, "failed", boot).unreported
    BY <2>1 DEF FileType
  <2>3. file' = Failed(f) /\ gate' = "flush"
    BY <1>5 DEF Fail
  <2> HIDE DEF Failed
  <2>4. /\ Elements(file'.unreported) = Elements(file.unreported) \cup {Stamp("failed")}
        /\ file'.job = file.job /\ file'.closed /\ ~Holding'
    BY <1>5, <2>2, <2>3, WithReportAdds DEF Holding
  <2> QED
    BY <1>5, <2>4 DEF Fails, Waiting
<1>6. ASSUME file \in FileType, NEW f \in FileType, f.job = file.job,
             f.restarting = file.restarting, f.closed = file.closed,
             f.unreported = file.unreported, NEW s \in {"notified", "deferred"},
             \/ file' = WithReport(f, s, boot)
             \/ file' = [WithReport(f, s, boot) EXCEPT !.wait = TRUE],
             ~Holding'
      PROVE  Tells
  <2>1. WithReport(f, s, boot) \in FileType
    BY <1>6, WithReportType DEF Open
  <2>2. /\ Elements(WithReport(f, s, boot).unreported) = Elements(file.unreported) \cup {Stamp(s)}
        /\ WithReport(f, s, boot).job = file.job
        /\ WithReport(f, s, boot).restarting = file.restarting
        /\ WithReport(f, s, boot).closed = file.closed
    BY <1>6, WithReportAdds DEF Open
  <2> DEFINE g == WithReport(f, s, boot)
  <2> HIDE DEF g
  <2>3. g \in FileType => /\ [g EXCEPT !.wait = TRUE].job = g.job
                          /\ [g EXCEPT !.wait = TRUE].restarting = g.restarting
                          /\ [g EXCEPT !.wait = TRUE].closed = g.closed
                          /\ [g EXCEPT !.wait = TRUE].unreported = g.unreported
    BY DEF FileType
  <2>4. /\ file'.job = file.job /\ file'.restarting = file.restarting
        /\ file'.closed = file.closed
        /\ Elements(file'.unreported) = Elements(file.unreported) \cup {Stamp(s)}
    BY <1>6, <2>1, <2>2, <2>3 DEF g
  <2>5. file.job # NoJob
    BY <1>6, NoJobAssumption DEF FileType
  <2> QED
    BY <1>6, <2>4, <2>5 DEF Tells, SameFile, Waiting
<1>7. file \in FileType =>
        /\ Deadlined \in FileType
        /\ Deadlined.job = file.job /\ Deadlined.restarting = file.restarting
        /\ Deadlined.closed = file.closed /\ Deadlined.unreported = file.unreported
  BY DEF Deadlined, FileType
<1>8. ASSUME file \in FileType, NEW f \in FileType, f.job = file.job,
             f.restarting = file.restarting, f.closed = file.closed,
             f.unreported = file.unreported, file' = [f EXCEPT !.wait = TRUE],
             Holding' => Holding
      PROVE  Waits
  <2>1. /\ file'.job = file.job /\ file'.restarting = file.restarting
        /\ file'.closed = file.closed /\ file'.unreported = file.unreported
    BY <1>8 DEF FileType
  <2> QED
    BY <1>8, <2>1 DEF Waits, SameFile, Waiting
<1>9. Undecided => file.job # NoJob
  BY DEF Undecided
<1>10. CASE TickClosed
  BY <1>2, <1>10 DEF TickClosed, Holding
<1>11. CASE TickRestarting
  BY <1>1, <1>5, <1>11 DEF TickRestarting, Ticking, Drop, Forgets, Holding
<1>12. CASE TickServer
  BY <1>1, <1>5, <1>12 DEF TickServer, Ticking
<1>13. CASE TickNobody \/ FollowRestart \/ FollowSilent
  BY <1>1, <1>3, <1>4, <1>9, <1>13 DEF TickNobody, FollowRestart, FollowSilent
<1>14. CASE TickAbsent
  <2>1. CASE file.deadline = "over"
    BY <1>1, <1>3, <1>4, <1>9, <1>14, <2>1 DEF TickAbsent
  <2>2. CASE file.deadline # "over"
    <3>1. ~Holding'
      BY <1>14, <2>2 DEF TickAbsent, Holding
    <3>2. file \in FileType
      BY <1>1, <1>3, <1>9, <1>14 DEF TickAbsent
    <3>3. CASE file.deadline = "none"
      <4>1. file' = [WithReport(Deadlined, "notified", boot) EXCEPT !.wait = TRUE]
        BY <1>14, <2>2, <3>3 DEF TickAbsent
      <4> QED
        BY <1>6, <1>7, <3>1, <3>2, <4>1
    <3>4. CASE file.deadline # "none"
      <4>1. file' = [file EXCEPT !.wait = TRUE]
        BY <1>14, <2>2, <3>4 DEF TickAbsent
      <4> QED
        BY <1>8, <3>1, <3>2, <4>1
    <3> QED
      BY <3>3, <3>4
  <2> QED
    BY <2>1, <2>2
<1>15. CASE TickShow
  <2>1. file' = WithReport(Deadlined, "notified", boot) /\ ~Holding'
    BY <1>15 DEF TickShow, Holding
  <2>2. file \in FileType
    BY <1>1, <1>3, <1>9, <1>15 DEF TickShow
  <2> QED
    BY <1>6, <1>7, <2>1, <2>2
<1>16. CASE TickNotShown
  <2>1. file \in FileType /\ Undecided
    BY <1>1, <1>3, <1>9, <1>16 DEF TickNotShown
  <2>2. CASE file.deadline = "over"
    BY <1>4, <1>16, <2>1, <2>2 DEF TickNotShown
  <2>3. CASE file.deadline # "over"
    <3>1. file' = [Deadlined EXCEPT !.wait = TRUE] /\ (Holding' => Holding)
      BY <1>16, <2>3 DEF TickNotShown, Holding
    <3> QED
      BY <1>7, <1>8, <2>1, <3>1
  <2> QED
    BY <2>2, <2>3
<1>17. CASE FollowDefer
  <2>1. file \in FileType
    BY <1>1, <1>3, <1>9, <1>17 DEF FollowDefer
  <2>2. CASE file.deferrals < MaxDeferrals
    <3> DEFINE f == [file EXCEPT !.deferrals = @ + 1, !.wait = TRUE]
    <3>1. /\ f \in FileType /\ f.job = file.job /\ f.restarting = file.restarting
          /\ f.closed = file.closed /\ f.unreported = file.unreported
      <4>1. file.deferrals + 1 \in 0..MaxDeferrals
        BY <2>1, <2>2, BoundsAssumption DEF FileType
      <4> QED
        BY <2>1, <4>1 DEF FileType
    <3>2. file' = WithReport(f, "deferred", boot) /\ ~Holding'
      BY <1>17, <2>2 DEF FollowDefer, Holding
    <3> HIDE DEF f
    <3> QED
      BY <1>6, <2>1, <3>1, <3>2
  <2>3. CASE ~(file.deferrals < MaxDeferrals)
    <3>1. file' = [file EXCEPT !.wait = TRUE] /\ (Holding' => Holding)
      BY <1>17, <2>3 DEF FollowDefer, Holding
    <3> QED
      BY <1>8, <2>1, <3>1
  <2> QED
    BY <2>2, <2>3
<1>18. CASE FollowClosed
  <2>1. file \in FileType
    BY <1>1, <1>3, <1>9, <1>18 DEF FollowClosed
  <2>2. file' = [file EXCEPT !.wait = TRUE] /\ (Holding' => Holding)
    BY <1>18 DEF FollowClosed, Holding
  <2> QED
    BY <1>8, <2>1, <2>2
<1>19. CASE Initiate \/ \E a \in Answers : UserAnswers(a)
  BY <1>2, <1>19 DEF Initiate, UserAnswers, Holding
<1>20. CASE InitiateFails
  <2>1. file.job # NoJob
    BY <1>20 DEF InitiateFails, GateHeld, Restarting
  <2> DEFINE f == [file EXCEPT !.restarting = Never]
  <2>2. f \in FileType /\ f.job = file.job /\ f.unreported = file.unreported
    BY <1>1, <2>1, BoundsAssumption DEF FileType, Never
  <2>3. Fail(f)
    BY <1>20 DEF InitiateFails
  <2> HIDE DEF f
  <2> QED
    BY <1>5, <2>1, <2>2, <2>3
<1>21. CASE WaitOver \/ DeadlineOver
  <2>1. file \in FileType
    BY <1>1, <1>21 DEF WaitOver, DeadlineOver
  <2>2. /\ file'.job = file.job /\ file'.restarting = file.restarting
        /\ file'.closed = file.closed /\ file'.unreported = file.unreported
        /\ gate' = gate
    BY <1>21, <2>1 DEF WaitOver, DeadlineOver, FileType
  <2> QED
    BY <2>2 DEF Waits, SameFile, Waiting, Holding
<1> QED
  BY <1>10, <1>11, <1>12, <1>13, <1>14, <1>15, <1>16, <1>17, <1>18, <1>19, <1>20, <1>21

\* What a report that the backend hears does there.
LEMMA ReportedDoes ==
  ASSUME TypeOK, Known, NEW r \in Reports, Out(r.job), r.state # "pending", Reported(r)
  PROVE  /\ \A j \in Jobs : /\ Over(j) => Over(j)'
                            /\ Out(j) <=> Out(j)'
                            /\ state'[j] \in Open => state[j] \in Open
                            /\ state'[j] = "restarting" => j \in marked'
         /\ Over(r.job)' \/ (r.state # "failed" /\ state[r.job] \in Open)
         /\ marked \subseteq marked' /\ marked' \subseteq marked \cup {r.job}
         /\ \A j \in marked' :
              \/ j \in marked /\ since'[j] = since[j]
              \/ /\ j = r.job /\ state[j] \in Open
                 /\ r.state = "restarting" /\ since'[j] = r.at
<1>1. r.job \in Jobs /\ r.state \in Open \cup {"failed"} /\ r.at \in 0..MaxBoots
  BY DEF Reports
<1>2. CASE Accepts(r)
  <2>1. /\ state[r.job] \in Open
        /\ \A j \in Jobs : state'[j] = IF j = r.job THEN r.state ELSE state[j]
    BY <1>1, <1>2 DEF Reported, Accepts, TypeOK
  <2>2. \/ r.state = "restarting" /\ marked' = marked \cup {r.job}
           /\ \A j \in Jobs : since'[j] = IF j = r.job THEN r.at ELSE since[j]
        \/ r.state # "restarting" /\ UNCHANGED <<since, marked>>
    BY <1>1, <1>2 DEF Reported, TypeOK
  <2>3. marked \subseteq Jobs /\ r.state \in {"notified", "deferred", "delivered", "restarting", "failed"}
    BY <1>1 DEF TypeOK, Open
  <2>4. \A j \in Jobs : Over(j) => Over(j)' /\ (state'[j] \in Open => state[j] \in Open)
    BY <2>1, <2>3 DEF Over, Open, Closed
  <2>5. \A j \in Jobs : state'[j] = "restarting" => j \in marked'
    BY <2>1, <2>2 DEF Known
  <2>6. Over(r.job)' \/ r.state # "failed"
    BY <1>1, <2>1 DEF Over, Closed
  <2>7. \A j \in marked' :
              \/ j \in marked /\ since'[j] = since[j]
              \/ /\ j = r.job /\ state[j] \in Open
                 /\ r.state = "restarting" /\ since'[j] = r.at
    BY <1>1, <2>1, <2>2, <2>3
  <2>8. \A j \in Jobs : Out(j) <=> Out(j)'
    BY <2>1, <2>3 DEF Out
  <2> QED
    BY <2>1, <2>2, <2>4, <2>5, <2>6, <2>7, <2>8
<1>3. CASE ~Accepts(r)
  <2>1. state[r.job] \notin Open /\ UNCHANGED <<state, since, marked>>
    BY <1>3 DEF Reported, Accepts
  <2> QED
    BY <1>1, <2>1 DEF Known, Out, Over, TypeOK
<1> QED
  BY <1>2, <1>3

\* A step of the backend's own that closes some of the open jobs.
Tidies ==
  /\ \A j \in Jobs : state'[j] = state[j] \/ (state[j] \in Open /\ state'[j] \in Closed)
  /\ UNCHANGED <<since, marked, lastBoot, agentVars, worldVars, late, told>>
  /\ \/ UNCHANGED checkin
     \/ /\ checkin.pc = "cleanup" /\ checkin' = [pc |-> "deliver"]
        /\ \A j \in Jobs : state'[j] \in Open => ~Restarted(j)

\* A report reaches the backend while the agent waits for its answer.
Posts(r) ==
  /\ r \in Waiting /\ Reported(r)
  /\ \/ SameFile /\ Waiting' \subseteq Waiting /\ Waiting \subseteq Waiting' \cup {r}
     \/ state[r.job] \notin Open /\ ~Restarting /\ file' = NoFile /\ ~Holding'
  /\ UNCHANGED <<lastBoot, checkin, worldVars, late, told>>

\* Reports get lost or late, the check-in ends or breaks off.
Breaks ==
  /\ Waits /\ late' \subseteq late \cup Waiting
  /\ checkin' \in {checkin, Idle}
  /\ UNCHANGED <<backendVars, worldVars, told>>

FilesAway ==
  /\ file.job # NoJob /\ file.closed /\ Waiting = {}
  /\ file' = NoFile /\ ~Holding'
  /\ UNCHANGED agentElse

Acts == (Waits \/ Tells \/ Begins \/ Fails \/ Forgets) /\ UNCHANGED agentElse

\* The kinds of steps there are.
LEMMA Kinds ==
  ASSUME IInv, [Next]_vars
  PROVE  \/ \E j \in Jobs : Create(j)
         \/ Tidies
         \/ \E r \in late : LateReport(r)
         \/ Collect \/ Ingest \/ ClaimDeliver \/ ClaimSelect \/ Apply
         \/ \E r \in Reports : Posts(r)
         \/ Acts \/ Breaks \/ FilesAway \/ Machine
<1>1. TypeOK /\ GateHeld
  BY DEF IInv
<1>2. ASSUME NEW overdue, state' = CleanedUp(overdue)
      PROVE  \A j \in Jobs : /\ state'[j] = state[j] \/ (state[j] \in Open /\ state'[j] \in Closed)
                             /\ state'[j] \in Open => ~Restarted(j)
  BY <1>2 DEF CleanedUp, Open, Closed
<1>3. CASE List \/ ClaimCleanup
  BY <1>2, <1>3 DEF List, ClaimCleanup, Tidies
<1>4. ASSUME NEW j \in Jobs, Cancel(j) PROVE Tidies
  BY <1>1, <1>4 DEF Cancel, Cancellable, Tidies, TypeOK, Open, Closed
<1>5. CASE PostDone
  <2>1. Report \in Reports /\ file \in FileType
    BY <1>1, <1>5, FileOfJob, ReportType DEF PostDone, Unreported
  <2>2. file.unreported \in Seq(Reports) /\ file.unreported # <<>> /\ file.job # NoJob
    BY <1>5, <2>1 DEF PostDone, Unreported, FileType
  <2>3. /\ Report \in Waiting
        /\ Waiting = {Report} \cup Elements(Tail(file.unreported))
    BY <2>2, TailElements DEF Report, Waiting
  <2>4. CASE file' = Sent /\ UNCHANGED <<prompt, gate>>
    <3> DEFINE q == Tail(file.unreported)
    <3>1. /\ Sent = [file EXCEPT !.unreported = q]
      BY DEF Sent
    <3> HIDE DEF q
    <3>2. /\ file'.job = file.job /\ file'.restarting = file.restarting
          /\ file'.closed = file.closed /\ file'.unreported = q
      BY <2>1, <2>4, <3>1 DEF FileType
    <3>3. SameFile /\ Waiting' = Elements(q)
      BY <2>2, <2>4, <3>2 DEF SameFile, Waiting, Holding
    <3> QED
      BY <1>5, <2>1, <2>3, <3>3 DEF PostDone, Posts, q
  <2>5. CASE ~Accepts(Report) /\ ~Restarting /\ Drop /\ gate' = "free"
    BY <1>5, <2>1, <2>3, <2>5 DEF PostDone, Posts, Accepts, Drop, Holding
  <2> QED
    BY <1>5, <2>4, <2>5 DEF PostDone
<1>6. ASSUME UNCHANGED file, Holding' => Holding PROVE Waits
  BY <1>6 DEF Waits, SameFile, Waiting
<1>7. CASE CheckinLost \/ ReportPending \/ ServiceRestarts \/ UNCHANGED vars
  BY <1>6, <1>7 DEF CheckinLost, ReportPending, ServiceRestarts, vars, agentVars, Breaks, Holding
<1>8. CASE PostFails
  <2>1. Report \in Waiting
    <3>1. file.unreported \in Seq(Reports) /\ file.unreported # <<>> /\ file.job # NoJob
      BY <1>1, <1>8, FileOfJob DEF PostFails, Unreported, FileType
    <3> QED
      BY <3>1, TailElements DEF Report, Waiting
  <2>2. Waits
    BY <1>6, <1>8 DEF PostFails, FlushGivesUp, Holding
  <2> QED
    BY <1>8, <2>1, <2>2 DEF PostFails, Breaks
<1>9. CASE FlushEnds
  <2>1. CASE file.job # NoJob /\ file.closed
    <3>1. file.unreported = <<>>
      BY <1>9, <2>1 DEF FlushEnds, Unreported
    <3>2. Waiting = {}
      BY <3>1 DEF Waiting, Elements
    <3>3. gate' = "free"
      BY <1>1, <1>9, <2>1 DEF FlushEnds, FlushGivesUp, GateHeld
    <3> QED
      BY <1>9, <2>1, <3>2, <3>3 DEF FlushEnds, FilesAway, Drop, agentElse, Holding
  <2>2. CASE ~(file.job # NoJob /\ file.closed)
    <3>1. Waits
      BY <1>6, <1>9, <2>2 DEF FlushEnds, FlushGivesUp, Holding
    <3> QED
      BY <1>9, <3>1 DEF FlushEnds, Breaks
  <2> QED
    BY <2>1, <2>2
<1>10. CASE \/ TickClosed \/ TickRestarting \/ TickServer \/ TickNobody \/ TickAbsent \/ TickShow
            \/ TickNotShown \/ FollowRestart \/ FollowDefer \/ FollowClosed \/ FollowSilent
            \/ Initiate \/ InitiateFails \/ WaitOver \/ DeadlineOver
            \/ \E a \in Answers : UserAnswers(a)
  <2>1. UNCHANGED agentElse
    BY <1>1, <1>10, CoordinatorStep
  <2> QED
    BY <1>1, <1>10, <2>1, CoordinatorDoes DEF Acts
<1> QED
  BY <1>3, <1>4, <1>5, <1>7, <1>8, <1>9, <1>10
  DEF Next, BackendNext, CheckinNext, AgentNext, WorldNext

\* An answer takes a withdrawn job's file away or lays one out for a new job.
LEMMA ApplyDoes ==
  ASSUME TypeOK, Apply
  PROVE  /\ checkin.pc = "answer" /\ checkin' = [pc |-> "report"]
         /\ UNCHANGED <<backendVars, gate, worldVars, late>> /\ ~Holding /\ ~Holding'
         /\ \/ checkin.job = NoJob /\ Undecided /\ file' = NoFile /\ Waiting' = {}
               /\ told' = told \cup {file.job}
            \/ /\ checkin.job \in Jobs /\ file.job # checkin.job /\ ~Restarting
               /\ file'.job = checkin.job /\ file'.restarting = Never /\ ~file'.closed
               /\ Waiting' = {} /\ told' = told
            \/ UNCHANGED <<file, told>> /\ Waiting' = Waiting
               /\ (checkin.job = NoJob => ~Undecided)
<1>1. checkin.job \in Jobs \cup {NoJob}
  BY DEF TypeOK, Apply
<1>2. ASSUME file' = NoFile PROVE Waiting' = {}
  BY <1>2 DEF NoFile, Waiting
<1>3. ASSUME NEW j \in Jobs, file' = Accepted(j)
      PROVE  /\ file'.job = j /\ file'.restarting = Never /\ ~file'.closed
             /\ Waiting' = {}
  BY <1>3 DEF Accepted, Waiting, Elements
<1>4. ASSUME UNCHANGED file PROVE Waiting' = Waiting
  BY <1>4 DEF Waiting
<1>5. /\ checkin.pc = "answer" /\ checkin' = [pc |-> "report"]
      /\ UNCHANGED <<backendVars, gate, worldVars, late>> /\ ~Holding /\ ~Holding'
  BY DEF Apply, Holding
<1>6. CASE checkin.job = NoJob
  BY <1>2, <1>4, <1>5, <1>6 DEF Apply, NullAnswer, Drop, Undecided
<1>7. CASE checkin.job \in Jobs
  BY <1>3, <1>4, <1>5, <1>7, NoJobAssumption DEF Apply
<1> QED
  BY <1>1, <1>6, <1>7

\* What is afoot are reports.
LEMMA AfootType ==
  ASSUME TypeOK
  PROVE  Afoot \subseteq Reports
<1>1. file.job # NoJob => file.unreported \in Seq(Reports)
  BY FileOfJob DEF FileType
<1> QED
  BY <1>1 DEF TypeOK, Afoot, Waiting, Elements

\* A boot leaves the tables and the file as they are, but for what it counts.
LEMMA MachineDoes ==
  ASSUME TypeOK, Machine
  PROVE  /\ boot \in Nat /\ boot' = boot + 1 /\ boot' # Never
         /\ UNCHANGED <<state, marked, lastBoot, file, told>> /\ Waiting' = Waiting
         /\ \A j \in marked : since'[j] = since[j]
         /\ late' = {} /\ ~Holding' /\ checkin' = Idle
         /\ \A j \in Jobs : rebooted'[j] = "restarting" =>
              \/ rebooted[j] = "restarting"
              \/ state[j] \in Open /\ j \in marked /\ since[j] = boot
<1>1. PICK Y \in SUBSET (young \ marked) : Boot(Y)
  BY DEF Machine
<1>2. boot \in Nat /\ boot' = boot + 1 /\ boot' # Never
  BY <1>1, BoundsAssumption DEF TypeOK, Boot, Never
<1>3. \A j \in Jobs : rebooted'[j] = "restarting" =>
              \/ rebooted[j] = "restarting"
              \/ state[j] \in Open /\ j \in marked /\ since[j] = boot
  BY <1>1 DEF Boot
<1>4. \A j \in marked : since'[j] = since[j]
  BY <1>1 DEF Boot, TypeOK
<1>5. UNCHANGED file => Waiting' = Waiting
  BY DEF Waiting
<1> QED
  BY <1>1, <1>2, <1>3, <1>4, <1>5 DEF Boot, Holding

\* What the coordinator's steps leave waiting.
LEMMA ActsDo ==
  ASSUME Acts
  PROVE  /\ UNCHANGED <<backendVars, boot, rebooted, checkin, late, told>>
         /\ Waiting' \subseteq Waiting \cup {Stamp(s) : s \in {"notified", "deferred",
                                                           "restarting", "failed"}}
         /\ Forgets \/ (file'.job = file.job /\ Waiting \subseteq Waiting')
         /\ Waiting' \subseteq Waiting \/ file.job # NoJob
<1>1. Forgets => Waiting' = {}
  BY DEF Forgets, NoFile, Waiting
<1>2. Tells => file.job # NoJob
  BY DEF Tells, SameFile, Waiting, Stamp
<1>3. UNCHANGED <<backendVars, boot, rebooted, checkin, late, told>>
  BY DEF Acts, agentElse, backendVars, worldVars
<1>4. CASE Waits
  BY <1>3, <1>4 DEF Waits, SameFile
<1>5. CASE Tells
  BY <1>2, <1>3, <1>5 DEF Tells, SameFile
<1>6. CASE Begins
  BY <1>3, <1>6 DEF Begins, Undecided
<1>7. CASE Fails
  BY <1>3, <1>7 DEF Fails
<1>8. CASE Forgets
  BY <1>1, <1>3, <1>8
<1> QED
  BY <1>4, <1>5, <1>6, <1>7, <1>8 DEF Acts

\* A report is stamped with the present boot, and a boot only adds to the count.
LEMMA StampedStep == RInv /\ [Next]_vars => Stamped'
<1> SUFFICES ASSUME RInv, [Next]_vars PROVE Stamped'
  OBVIOUS
<1>1. TypeOK /\ Stamped /\ Known /\ IInv
  BY DEF RInv, IInv
<1>2. ASSUME UNCHANGED <<since, marked, boot>>, Afoot' \subseteq Afoot PROVE Stamped'
  BY <1>1, <1>2 DEF Stamped
<1>3. ASSUME NEW j \in Jobs, Create(j) PROVE Stamped'
  <2>1. UNCHANGED <<marked, boot>> /\ Afoot' = Afoot /\ since' = [since EXCEPT ![j] = boot]
    BY <1>3 DEF Create, worldVars, agentVars, Afoot, Waiting
  <2> QED
    BY <1>1, <2>1 DEF Stamped, TypeOK
<1>4. CASE Tidies \/ Collect \/ Ingest \/ ClaimDeliver \/ ClaimSelect
  BY <1>2, <1>4 DEF Tidies, Collect, Ingest, ClaimDeliver, ClaimSelect, worldVars, agentVars,
                    backendVars, Afoot, Waiting
<1>5. ASSUME NEW r \in Reports, r \in Afoot, Reported(r), UNCHANGED boot, Afoot' \subseteq Afoot
      PROVE  Stamped'
  BY <1>1, <1>5, ReportedDoes DEF Stamped, Known
<1>6. ASSUME NEW r \in late, LateReport(r) PROVE Stamped'
  BY <1>1, <1>5, <1>6 DEF LateReport, worldVars, agentVars, Afoot, Waiting, TypeOK
<1>7. ASSUME NEW r \in Reports, Posts(r) PROVE Stamped'
  BY <1>5, <1>7 DEF Posts, worldVars, Afoot, Waiting, NoFile
<1>8. CASE Apply
  BY <1>1, <1>2, <1>8, ApplyDoes DEF Afoot, backendVars, worldVars
<1>9. CASE Acts
  <2>1. \A r \in Afoot' : r \in Afoot \/ r.at = boot
    BY <1>9, ActsDo DEF Afoot, Stamp
  <2>2. boot <= boot /\ UNCHANGED <<since, marked, boot>>
    BY <1>1, <1>9, ActsDo DEF TypeOK, backendVars
  <2> QED
    BY <1>1, <2>1, <2>2 DEF Stamped
<1>10. CASE Breaks \/ FilesAway
  BY <1>2, <1>10 DEF Breaks, FilesAway, Waits, agentElse, backendVars, worldVars, Afoot, Waiting,
                     NoFile
<1>11. CASE Machine
  <2>1. /\ boot \in Nat /\ boot' = boot + 1 /\ marked' = marked /\ Afoot' \subseteq Afoot
        /\ \A j \in marked : since'[j] = since[j]
    BY <1>1, <1>11, MachineDoes DEF Afoot
  <2>2. /\ \A j \in marked : since[j] \in Nat
        /\ \A r \in Afoot : r.at \in Nat
    BY <1>1, AfootType DEF TypeOK, Reports
  <2> QED
    BY <1>1, <2>1, <2>2 DEF Stamped
<1> QED
  BY <1>1, <1>3, <1>4, <1>6, <1>7, <1>8, <1>9, <1>10, <1>11, Kinds

\* But for Apply no step makes the coordinator ask about a job it did not ask about.
LEMMA UndecidedStays ==
  ASSUME TypeOK, Undecided',
         \/ UNCHANGED file
         \/ (\E r \in Reports : Posts(r)) \/ Acts \/ Breaks \/ FilesAway
  PROVE  Undecided /\ file'.job = file.job /\ (Acts => Waits \/ Tells)
<1>1. boot # Never
  BY BoundsAssumption DEF TypeOK, Never
<1>2. SameFile => Undecided /\ file'.job = file.job
  BY DEF SameFile, Undecided, Restarting, Never
<1>3. file' # NoFile
  BY DEF Undecided, NoFile
<1>4. CASE UNCHANGED file /\ ~Acts
  BY <1>4 DEF Undecided, Restarting, Never
<1>5. CASE Acts
  <2>1. ~Begins
    BY <1>1 DEF Begins, Undecided, Restarting, Never
  <2>2. ~Fails
    BY DEF Fails, Undecided
  <2>3. ~Forgets
    BY <1>3 DEF Forgets
  <2> QED
    BY <1>2, <1>5, <2>1, <2>2, <2>3 DEF Acts, Waits, Tells
<1> QED
  BY <1>2, <1>3, <1>4, <1>5 DEF Posts, Breaks, Waits, FilesAway

\* The agent gets its jobs from answers, and a job that was handed out stays so.
LEMMA KnownStep == RInv /\ [Next]_vars => Known'
<1> SUFFICES ASSUME RInv, [Next]_vars PROVE Known'
  OBVIOUS
<1>1. TypeOK /\ Known /\ IInv /\ AnswerTells
  BY DEF RInv, IInv
<1> DEFINE KnownRows == /\ \A j \in marked : Out(j)
                        /\ \A j \in Jobs : state[j] = "restarting" => j \in marked
           Stays == \A j \in Jobs : Out(j) => Out(j)'
<1>2. Afoot \subseteq Reports /\ (file.job # NoJob => file.job \in Jobs) /\ marked \subseteq Jobs
  BY <1>1, AfootType, FileOfJob DEF TypeOK, FileType
<1>3. ASSUME Stays, KnownRows', Afoot' \subseteq Afoot,
             \/ file'.job = file.job /\ Waiting' \subseteq Waiting
             \/ Waiting' = {} /\ (file.job # NoJob => Out(file.job))'
      PROVE  Known'
  <2>1. \A r \in Afoot' : Out(r.job)' /\ r.state # "pending"
    BY <1>1, <1>2, <1>3 DEF Known, Reports
  <2>2. (file.job # NoJob => Out(file.job))'
    BY <1>1, <1>2, <1>3 DEF Known
  <2>3. \A r \in Waiting' : r.job = file'.job
    BY <1>1, <1>3 DEF Known
  <2> QED
    BY <1>3, <2>1, <2>2, <2>3 DEF Known, Out
<1>4. ASSUME UNCHANGED <<state, marked>> PROVE Stays /\ KnownRows'
  BY <1>1, <1>4 DEF Known, Out
<1>5. UNCHANGED <<file, late>> => Afoot' = Afoot /\ Waiting' = Waiting /\ file'.job = file.job
  BY DEF Afoot, Waiting
<1>6. ASSUME NEW j \in Jobs, Create(j) PROVE Known'
  <2>1. /\ UNCHANGED <<file, late, marked>>
        /\ state[j] = "absent" /\ state' = [state EXCEPT ![j] = "pending"]
    BY <1>6 DEF Create, agentVars
  <2>2. Stays /\ KnownRows'
    BY <1>1, <1>2, <2>1 DEF Known, Out, TypeOK
  <2> QED
    BY <1>3, <1>5, <2>1, <2>2
<1>7. CASE Tidies
  <2>1. /\ UNCHANGED <<file, late, marked>>
        /\ \A j \in Jobs : state'[j] = state[j] \/ (state[j] \in Open /\ state'[j] \in Closed)
    BY <1>7 DEF Tidies, agentVars
  <2>2. Stays /\ KnownRows'
    BY <1>1, <1>2, <2>1 DEF Known, Out, Closed
  <2> QED
    BY <1>3, <1>5, <2>1, <2>2
<1>8. CASE ClaimDeliver
  <2>1. /\ UNCHANGED <<file, late, marked>>
        /\ \A j \in Jobs : state'[j] = IF state[j] = "pending" THEN "delivered" ELSE state[j]
    BY <1>8 DEF ClaimDeliver, agentVars
  <2>2. Stays /\ KnownRows'
    BY <1>1, <1>2, <2>1 DEF Known, Out
  <2> QED
    BY <1>3, <1>5, <2>1, <2>2
<1>9. CASE Collect \/ Ingest \/ ClaimSelect
  <2>1. UNCHANGED <<state, marked, file, late>>
    BY <1>9 DEF Collect, Ingest, ClaimSelect, backendVars, agentVars
  <2> QED
    BY <1>3, <1>4, <1>5, <2>1
<1>10. ASSUME NEW r \in Reports, r \in Afoot, Reported(r) PROVE Stays /\ KnownRows'
  <2>1. Out(r.job) /\ r.state # "pending" /\ r.job \in Jobs
    BY <1>1, <1>10 DEF Known, Reports
  <2>2. /\ \A j \in Jobs : (Out(j) <=> Out(j)') /\ (state'[j] = "restarting" => j \in marked')
        /\ marked' \subseteq marked \cup {r.job}
    BY <1>1, <1>10, <2>1, ReportedDoes
  <2>3. \A j \in marked : Out(j)
    BY <1>1 DEF Known
  <2> QED
    BY <1>2, <2>1, <2>2, <2>3
<1>11. ASSUME NEW r \in late, LateReport(r) PROVE Known'
  <2>1. UNCHANGED file /\ late' \subseteq late /\ Reported(r) /\ r \in Reports /\ r \in Afoot
    BY <1>1, <1>11 DEF LateReport, agentVars, TypeOK, Afoot
  <2>2. Waiting' = Waiting /\ Afoot' \subseteq Afoot
    BY <2>1 DEF Waiting, Afoot
  <2> QED
    BY <1>3, <1>10, <2>1, <2>2
<1>12. ASSUME NEW r \in Reports, Posts(r) PROVE Known'
  <2>1. r \in Afoot /\ Reported(r) /\ Waiting' \subseteq Waiting /\ Afoot' \subseteq Afoot
    BY <1>12 DEF Posts, Afoot, NoFile, Waiting
  <2>2. file'.job = file.job \/ (Waiting' = {} /\ file'.job = NoJob)
    BY <1>12 DEF Posts, SameFile, NoFile, Waiting
  <2> QED
    BY <1>3, <1>10, <2>1, <2>2
<1>13. CASE Apply
  <2>1. UNCHANGED <<state, marked>> /\ Afoot' \subseteq Afoot
    BY <1>1, <1>13, ApplyDoes DEF backendVars, Afoot
  <2>2. \/ file'.job = file.job /\ Waiting' = Waiting
        \/ Waiting' = {} /\ (file.job # NoJob => Out(file.job))'
    BY <1>1, <1>13, <2>1, ApplyDoes, NoJobAssumption DEF NoFile, AnswerTells, Out
  <2> QED
    BY <1>3, <1>4, <2>1, <2>2
<1>14. CASE Acts
  <2>1. UNCHANGED <<state, marked, late>>
    BY <1>14, ActsDo DEF backendVars
  <2>2. CASE Forgets
    BY <1>3, <1>4, <2>1, <2>2 DEF Forgets, NoFile, Waiting, Afoot
  <2>3. CASE ~Forgets
    <3>1. /\ file'.job = file.job
          /\ \A r \in Waiting' : r \in Waiting \/ (r.job = file.job /\ file.job # NoJob /\ r.state # "pending")
      BY <1>14, <2>3, ActsDo DEF Stamp
    <3>2. \A r \in Afoot' : Out(r.job)' /\ r.state # "pending"
      BY <1>1, <2>1, <3>1 DEF Known, Afoot, Out
    <3> QED
      BY <1>1, <2>1, <3>1, <3>2 DEF Known, Out
  <2> QED
    BY <2>2, <2>3
<1>15. CASE Breaks \/ FilesAway
  <2>1. UNCHANGED <<state, marked>> /\ Afoot' \subseteq Afoot
    BY <1>15 DEF Breaks, FilesAway, Waits, agentElse, backendVars, Afoot, Waiting, NoFile
  <2>2. \/ file'.job = file.job /\ Waiting' = Waiting
        \/ Waiting' = {} /\ file'.job = NoJob
    BY <1>15 DEF Breaks, FilesAway, Waits, SameFile, Waiting, NoFile
  <2> QED
    BY <1>3, <1>4, <2>1, <2>2
<1>16. CASE Machine
  <2>1. UNCHANGED <<state, marked, file>> /\ Waiting' = Waiting /\ Afoot' \subseteq Afoot
    BY <1>1, <1>16, MachineDoes DEF Afoot
  <2> QED
    BY <1>3, <1>4, <2>1
<1> QED
  BY <1>1, <1>6, <1>7, <1>8, <1>9, <1>11, <1>12, <1>13, <1>14, <1>15, <1>16, Kinds

\* What no step undoes: a job that is over stays over, and only a new one opens.
LEMMA OverStays ==
  ASSUME RInv, [Next]_vars
  PROVE  \A j \in Jobs :
           /\ Over(j) => Over(j)'
           /\ Out(j) => Out(j)'
           /\ state'[j] \in Open => state[j] \in Open \/ Create(j)
           /\ Out(j)' => Out(j) \/ Over(j)' \/ ClaimDeliver
<1>1. TypeOK /\ Known /\ IInv
  BY DEF RInv, IInv
<1> DEFINE Goal == \A j \in Jobs :
           /\ Over(j) => Over(j)'
           /\ Out(j) => Out(j)'
           /\ state'[j] \in Open => state[j] \in Open \/ Create(j)
           /\ Out(j)' => Out(j) \/ Over(j)' \/ ClaimDeliver
<1>2. ASSUME UNCHANGED state PROVE Goal
  BY <1>2 DEF Over, Out
<1>3. ASSUME NEW j \in Jobs, Create(j) PROVE Goal
  <2>1. state[j] = "absent" /\ \A k \in Jobs : state'[k] = IF k = j THEN "pending" ELSE state[k]
    BY <1>1, <1>3 DEF Create, TypeOK
  <2> QED
    BY <1>3, <2>1 DEF Over, Out, Closed
<1>4. CASE Tidies
  <2>1. \A j \in Jobs : state'[j] = state[j] \/ (state[j] \in Open /\ state'[j] \in Closed)
    BY <1>4 DEF Tidies
  <2>2. \A j \in Jobs : (Over(j) => Over(j)') /\ (state'[j] \in Open => state[j] \in Open)
    BY <2>1 DEF Over, Open, Closed
  <2>3. \A j \in Jobs : (Out(j) => Out(j)') /\ (Out(j)' => Out(j) \/ Over(j)')
    BY <2>1 DEF Out, Over, Open, Closed
  <2> QED
    BY <2>1, <2>2, <2>3
<1>5. CASE ClaimDeliver
  <2>1. \A j \in Jobs : state'[j] = IF state[j] = "pending" THEN "delivered" ELSE state[j]
    BY <1>5 DEF ClaimDeliver
  <2> QED
    BY <1>5, <2>1 DEF Over, Out, Open, Closed
<1>6. ASSUME NEW r \in Reports, r \in Afoot, Reported(r) PROVE Goal
  BY <1>1, <1>6, ReportedDoes DEF Known
<1>7. ASSUME NEW r \in late, LateReport(r) PROVE Goal
  BY <1>1, <1>6, <1>7 DEF LateReport, TypeOK, Afoot
<1>8. ASSUME NEW r \in Reports, Posts(r) PROVE Goal
  BY <1>6, <1>8 DEF Posts, Afoot
<1>9. CASE Collect \/ Ingest \/ ClaimSelect \/ Apply \/ Acts \/ Breaks \/ FilesAway \/ Machine
  <2>1. UNCHANGED state
    BY <1>1, <1>9, MachineDoes, ActsDo
    DEF Collect, Ingest, ClaimSelect, Apply, Breaks, FilesAway, backendVars, agentElse
  <2> QED
    BY <1>2, <2>1
<1> QED
  BY <1>1, <1>3, <1>4, <1>5, <1>7, <1>8, <1>9, Kinds

\* idx_restart_jobs_one_open: a job is created only where no other is open.
LEMMA AloneStep == RInv /\ [Next]_vars => Alone'
<1> SUFFICES ASSUME RInv, [Next]_vars PROVE Alone'
  OBVIOUS
<1>1. Alone
  BY DEF RInv
<1>2. ASSUME NEW j \in Jobs, Create(j) PROVE Alone'
  BY <1>2, OverStays DEF Alone, Create, OpenJobs
<1> QED
  BY <1>1, <1>2, OverStays DEF Alone

\* The service, and the check-in with it, ends with the boot.
LEMMA ThisBootStep == RInv /\ [Next]_vars => ThisBoot'
<1> SUFFICES ASSUME RInv, [Next]_vars PROVE ThisBoot'
  OBVIOUS
<1>1. TypeOK /\ IInv /\ ThisBoot
  BY DEF RInv, IInv
<1>2. ASSUME UNCHANGED <<lastBoot, boot>>, checkin' \in {checkin, Idle} PROVE ThisBoot'
  BY <1>1, <1>2 DEF ThisBoot, Idle
<1>3. ASSUME NEW j \in Jobs, Create(j) PROVE ThisBoot'
  BY <1>2, <1>3 DEF Create, worldVars
<1>4. CASE Tidies
  BY <1>1, <1>2, <1>4 DEF Tidies, worldVars, ThisBoot
<1>5. ASSUME NEW r \in late, LateReport(r) PROVE ThisBoot'
  BY <1>2, <1>5 DEF LateReport, worldVars
<1>6. CASE Collect
  BY <1>6 DEF Collect, worldVars, ThisBoot
<1>7. CASE Ingest \/ ClaimDeliver \/ ClaimSelect
  BY <1>1, <1>7 DEF Ingest, ClaimDeliver, ClaimSelect, worldVars, backendVars, ThisBoot
<1>8. CASE Apply
  BY <1>1, <1>8, ApplyDoes DEF worldVars, backendVars, ThisBoot
<1>9. ASSUME NEW r \in Reports, Posts(r) PROVE ThisBoot'
  BY <1>2, <1>9 DEF Posts, worldVars
<1>10. CASE Acts \/ Breaks \/ FilesAway
  BY <1>2, <1>10, ActsDo DEF Breaks, FilesAway, agentElse, worldVars, backendVars
<1>11. CASE Machine
  BY <1>1, <1>11, MachineDoes DEF ThisBoot, Idle
<1> QED
  BY <1>1, <1>3, <1>4, <1>5, <1>6, <1>7, <1>8, <1>9, <1>10, <1>11, Kinds

\* What claim() selected is the open job of the device, and an answer without one means
\* that a job on file is over or on record as restarting. Both stay true under way.
LEMMA AnswerStep == RInv /\ [Next]_vars => AnswerTells'
<1> SUFFICES ASSUME RInv, [Next]_vars PROVE AnswerTells'
  OBVIOUS
<1>1. TypeOK /\ IInv /\ AnswerTells /\ Known /\ Alone
  BY DEF RInv, IInv
<1>2. checkin.pc = "answer" => checkin.job \in Jobs \cup {NoJob}
  BY <1>1 DEF TypeOK
<1>3. file.job # NoJob => file.job \in Jobs
  BY <1>1, FileOfJob DEF FileType
<1>4. ASSUME UNCHANGED checkin, ~ClaimDeliver, marked \subseteq marked',
             Undecided' => Undecided /\ file'.job = file.job
      PROVE  AnswerTells'
  <2>1. CASE checkin.pc = "answer" /\ checkin.job # NoJob
    <3>1. \A j \in Jobs \ {checkin.job} : Out(j)' => Over(j)'
      BY <1>1, <1>4, <2>1, OverStays DEF AnswerTells
    <3>2. Out(checkin.job)'
      BY <1>1, <1>2, <1>4, <2>1, OverStays DEF AnswerTells, Out
    <3> QED
      BY <1>4, <2>1, <3>1, <3>2 DEF AnswerTells
  <2>2. CASE checkin.pc = "answer" /\ checkin.job = NoJob
    <3>1. ASSUME Undecided' PROVE Over(file.job)' \/ file'.job \in marked'
      <4>1. Undecided /\ file'.job = file.job /\ (Over(file.job) \/ file.job \in marked)
        BY <1>1, <1>4, <2>2, <3>1 DEF AnswerTells
      <4>2. file.job \in Jobs
        BY <1>3, <4>1 DEF Undecided
      <4> QED
        BY <1>4, <4>1, <4>2, OverStays DEF Over
    <3> QED
      BY <1>4, <2>2, <3>1 DEF AnswerTells
  <2> QED
    BY <1>4, <2>1, <2>2 DEF AnswerTells
<1>5. UNCHANGED file => (Undecided' => Undecided /\ file'.job = file.job)
  BY <1>1, UndecidedStays
<1>6. ASSUME checkin'.pc # "answer" PROVE AnswerTells'
  BY <1>6 DEF AnswerTells
<1>7. CASE Collect \/ Ingest \/ ClaimDeliver \/ Apply \/ Machine
  BY <1>1, <1>6, <1>7, MachineDoes DEF Collect, Ingest, ClaimDeliver, Apply, Idle
<1>8. ASSUME NEW j \in Jobs, Create(j) PROVE AnswerTells'
  <2>1. ~ClaimDeliver
    <3>1. state'[j] = "pending"
      BY <1>1, <1>8 DEF Create, TypeOK
    <3> QED
      BY <3>1 DEF ClaimDeliver
  <2> QED
    BY <1>4, <1>5, <1>8, <2>1 DEF Create, agentVars
<1>9. CASE Tidies
  BY <1>4, <1>5, <1>6, <1>9 DEF Tidies, ClaimDeliver, agentVars
<1>10. ASSUME NEW r \in Reports, r \in Afoot, Reported(r) PROVE marked \subseteq marked'
  BY <1>1, <1>10, ReportedDoes DEF Known
<1>11. ASSUME NEW r \in late, LateReport(r) PROVE AnswerTells'
  BY <1>1, <1>4, <1>5, <1>6, <1>10, <1>11 DEF LateReport, TypeOK, Afoot, agentVars, ClaimDeliver
<1>12. ASSUME NEW r \in Reports, Posts(r) PROVE AnswerTells'
  BY <1>1, <1>4, <1>6, <1>10, <1>12, UndecidedStays DEF Posts, Afoot, ClaimDeliver
<1>13. CASE Acts \/ Breaks \/ FilesAway
  <2>1. UNCHANGED marked /\ checkin' \in {checkin, Idle}
    BY <1>13, ActsDo DEF Breaks, FilesAway, agentElse, backendVars
  <2> QED
    BY <1>1, <1>4, <1>6, <1>13, <2>1, UndecidedStays DEF ClaimDeliver, Idle
<1>14. CASE ClaimSelect
  <2>1. UNCHANGED <<state, marked, file>> /\ checkin'.pc = "answer"
    BY <1>14 DEF ClaimSelect, backendVars, agentVars
  <2>2. CASE Selected = {}
    <3>1. checkin'.job = NoJob
      BY <1>14, <2>2 DEF ClaimSelect
    <3>2. ASSUME Undecided PROVE Over(file.job) \/ file.job \in marked
      <4>1. file.job \in Jobs /\ Out(file.job)
        BY <1>1, <1>3, <3>2 DEF Undecided, Known
      <4>2. state[file.job] \in {"restarting"} \cup Closed
        BY <1>1, <2>2, <4>1 DEF Selected, Claimable, Out, Open, TypeOK
      <4> QED
        BY <1>1, <4>1, <4>2 DEF Known, Over
    <3> QED
      BY <1>5, <2>1, <3>1, <3>2 DEF AnswerTells, Over
  <2>3. CASE Selected # {}
    <3>1. checkin'.job \in Selected
      BY <1>14, <2>3 DEF ClaimSelect
    <3>2. checkin'.job \in Jobs /\ state[checkin'.job] \in Claimable
      BY <3>1 DEF Selected
    <3>3. \A j \in Jobs \ {checkin'.job} : Out(j) => Over(j)
      BY <1>1, <3>2 DEF Alone, Claimable, Open, Out, Over, TypeOK
    <3> QED
      BY <2>1, <3>2, <3>3, NoJobAssumption DEF AnswerTells, Out, Over, Claimable
  <2> QED
    BY <2>2, <2>3
<1> QED
  BY <1>1, <1>7, <1>8, <1>9, <1>11, <1>12, <1>13, <1>14, Kinds

\* A restart is told of only with the restart on file, and then the file stays decided.
LEMMA QuietStep == RInv /\ [Next]_vars => Quiet'
<1> SUFFICES ASSUME RInv, [Next]_vars, Undecided' PROVE \A r \in Waiting' : r.state # "restarting"
  BY DEF Quiet
<1>1. TypeOK /\ IInv /\ Quiet
  BY DEF RInv, IInv
<1>2. CASE Apply
  BY <1>1, <1>2, ApplyDoes DEF Quiet, Undecided, NoFile, Restarting
<1>3. CASE UNCHANGED file
  BY <1>1, <1>3, UndecidedStays DEF Quiet, Waiting
<1>4. CASE (\E r \in Reports : Posts(r)) \/ Breaks \/ FilesAway
  BY <1>1, <1>4, UndecidedStays DEF Quiet, Posts, Breaks, Waits, FilesAway, NoFile, Waiting
<1>5. CASE Acts
  <2>1. Undecided /\ (Waits \/ Tells)
    BY <1>1, <1>5, UndecidedStays
  <2> QED
    BY <1>1, <2>1 DEF Quiet, Waits, Tells, Stamp
<1> QED
  BY <1>1, <1>2, <1>3, <1>4, <1>5, Kinds, MachineDoes
  DEF Create, Tidies, LateReport, Collect, Ingest, ClaimDeliver, ClaimSelect, agentVars

\* The report that closes a file waits until the backend has answered it.
LEMMA ClosedStep == RInv /\ [Next]_vars => ClosedTells'
<1> SUFFICES ASSUME RInv, [Next]_vars, file'.job # NoJob, file'.closed
             PROVE  Over(file.job)' \/ \E r \in Waiting' : r.state = "failed"
  BY DEF ClosedTells
<1>1. TypeOK /\ IInv /\ ClosedTells /\ Known
  BY DEF RInv, IInv
<1>2. file.job # NoJob => file.job \in Jobs
  BY <1>1, FileOfJob DEF FileType
<1>3. ASSUME file'.job = file.job, file.closed, Waiting \subseteq Waiting'
      PROVE  Over(file.job)' \/ \E r \in Waiting' : r.state = "failed"
  BY <1>1, <1>2, <1>3, OverStays DEF ClosedTells, Over
<1>4. CASE UNCHANGED file
  BY <1>3, <1>4 DEF Waiting
<1>5. CASE Apply
  BY <1>1, <1>3, <1>5, ApplyDoes DEF NoFile
<1>6. CASE Acts
  <2>1. CASE Fails
    <3>1. Stamp("failed") \in Waiting' /\ Stamp("failed").state = "failed"
      BY <2>1 DEF Fails, Stamp
    <3> QED
      BY <3>1
  <2>2. CASE ~Fails
    <3>1. ~Forgets /\ ~Begins
      BY DEF Forgets, Begins, NoFile
    <3> QED
      BY <1>3, <1>6, <2>2, <3>1 DEF Acts, Waits, Tells, SameFile
  <2> QED
    BY <2>1, <2>2
<1>7. CASE Breaks \/ FilesAway
  <2>1. SameFile /\ Waiting' = Waiting
    BY <1>7 DEF Breaks, FilesAway, Waits, NoFile
  <2> QED
    BY <1>3, <2>1 DEF SameFile
<1>8. ASSUME NEW r \in Reports, Posts(r)
      PROVE  Over(file.job)' \/ \E q \in Waiting' : q.state = "failed"
  <2>1. r \in Waiting /\ r \in Afoot /\ Reported(r) /\ SameFile /\ Waiting \subseteq Waiting' \cup {r}
    BY <1>8 DEF Posts, NoFile, Afoot
  <2>2. r.job = file.job /\ file'.job = file.job /\ file.job # NoJob /\ file.closed
    BY <1>1, <2>1 DEF Known, SameFile
  <2>3. Over(r.job)' \/ r.state # "failed"
    BY <1>1, <2>1, ReportedDoes DEF Known
  <2>4. Over(file.job) \/ \E q \in Waiting : q.state = "failed"
    BY <1>1, <2>2 DEF ClosedTells
  <2>5. Over(file.job) => Over(file.job)'
    BY <1>2, <2>2, OverStays DEF Over
  <2> QED
    BY <2>1, <2>2, <2>3, <2>4, <2>5 DEF Over
<1> QED
  BY <1>1, <1>4, <1>5, <1>6, <1>7, <1>8, Kinds, MachineDoes
  DEF Create, Tidies, LateReport, Collect, Ingest, ClaimDeliver, ClaimSelect, agentVars

\* The restarts on record and afoot stay, but for a boot, which puts them in the past.
LEMMA Records ==
  ASSUME RInv, [Next]_vars
  PROVE  /\ marked \subseteq marked'
         /\ Machine => \A j \in Jobs : Past(j)'
         /\ \A j \in Jobs : Past(j) => Past(j)' \/ (Acts /\ Begins /\ file.job = j)
<1>1. TypeOK /\ Known /\ IInv /\ Stamped
  BY DEF RInv, IInv
<1>2. Machine => \A j \in Jobs : Past(j)'
  <2>1. ASSUME Machine PROVE \A j \in Jobs : Past(j)'
    <3>1. /\ boot \in Nat /\ boot' = boot + 1 /\ marked' = marked /\ Afoot' \subseteq Afoot
          /\ \A j \in marked : since'[j] = since[j]
      BY <1>1, <2>1, MachineDoes DEF Afoot
    <3>2. /\ \A j \in marked : since[j] \in Nat
          /\ \A r \in Afoot : r.at \in Nat
      BY <1>1, AfootType DEF TypeOK, Reports
    <3> QED
      BY <1>1, <3>1, <3>2 DEF Stamped, Past
  <2> QED
    BY <2>1
<1> DEFINE Goal == /\ marked \subseteq marked'
                   /\ \A j \in Jobs : Past(j) => Past(j)' \/ (Acts /\ Begins /\ file.job = j)
<1> SUFFICES Goal
  BY <1>2
<1>3. ASSUME UNCHANGED <<since, marked, boot>>,
             \A r \in Afoot' : r \in Afoot \/ r.state # "restarting"
      PROVE  Goal
  BY <1>3 DEF Past
<1>4. ASSUME UNCHANGED <<since, marked, boot>>, Afoot' \subseteq Afoot PROVE Goal
  BY <1>3, <1>4
<1>5. ASSUME NEW k \in Jobs, Create(k) PROVE Goal
  <2>1. UNCHANGED <<marked, boot>> /\ Afoot' = Afoot
        /\ state[k] = "absent" /\ \A j \in Jobs : j # k => since'[j] = since[j]
    BY <1>1, <1>5 DEF Create, worldVars, agentVars, Afoot, Waiting, TypeOK
  <2>2. k \notin marked
    BY <1>1, <2>1 DEF Known, Out
  <2> QED
    BY <2>1, <2>2 DEF Past
<1>6. CASE Tidies \/ Collect \/ Ingest \/ ClaimDeliver \/ ClaimSelect
  <2>1. UNCHANGED <<since, marked, boot>> /\ Afoot' = Afoot
    BY <1>6 DEF Tidies, Collect, Ingest, ClaimDeliver, ClaimSelect, worldVars, agentVars,
                backendVars, Afoot, Waiting
  <2> QED
    BY <1>4, <2>1
<1>7. ASSUME NEW r \in Reports, r \in Afoot, Reported(r), UNCHANGED boot, Afoot' \subseteq Afoot
      PROVE  Goal
  <2>1. /\ marked \subseteq marked'
        /\ \A j \in marked' :
              \/ j \in marked /\ since'[j] = since[j]
              \/ j = r.job /\ r.state = "restarting" /\ since'[j] = r.at
    BY <1>1, <1>7, ReportedDoes DEF Known
  <2>2. \A j \in Jobs : Past(j) => Past(j)'
    BY <1>7, <2>1 DEF Past
  <2> QED
    BY <2>1, <2>2
<1>8. ASSUME NEW r \in late, LateReport(r) PROVE Goal
  BY <1>1, <1>7, <1>8 DEF LateReport, worldVars, agentVars, Afoot, Waiting, TypeOK
<1>9. ASSUME NEW r \in Reports, Posts(r) PROVE Goal
  BY <1>7, <1>9 DEF Posts, worldVars, Afoot, Waiting, NoFile
<1>10. CASE Apply
  <2>1. UNCHANGED <<since, marked, boot>> /\ Afoot' \subseteq Afoot
    BY <1>1, <1>10, ApplyDoes DEF Afoot, backendVars, worldVars
  <2> QED
    BY <1>4, <2>1
<1>11. CASE Acts
  <2>1. UNCHANGED <<since, marked, boot, late>>
    BY <1>11, ActsDo DEF backendVars
  <2>2. CASE Begins
    <3>1. \A r \in Afoot' : r \in Afoot \/ r.job = file.job
      BY <2>1, <2>2 DEF Begins, Afoot, Stamp
    <3> QED
      BY <1>11, <2>1, <2>2, <3>1 DEF Past
  <2>3. CASE ~Begins
    <3>1. \A r \in Waiting' : r \in Waiting \/ r.state # "restarting"
      BY <1>11, <2>3 DEF Acts, Waits, Tells, Fails, Forgets, Stamp, NoFile, Waiting
    <3> QED
      <4>1. \A r \in Afoot' : r \in Afoot \/ r.state # "restarting"
        BY <2>1, <3>1 DEF Afoot
      <4> QED
        BY <1>3, <2>1, <4>1
  <2> QED
    BY <2>2, <2>3
<1>12. CASE Breaks \/ FilesAway
  <2>1. UNCHANGED <<since, marked, boot>> /\ Afoot' \subseteq Afoot
    BY <1>12 DEF Breaks, FilesAway, Waits, agentElse, backendVars, worldVars, Afoot, Waiting,
                 NoFile
  <2> QED
    BY <1>4, <2>1
<1>13. CASE Machine
  BY <1>1, <1>2, <1>13, MachineDoes
<1> QED
  BY <1>1, <1>5, <1>6, <1>8, <1>9, <1>10, <1>11, <1>12, <1>13, Kinds

\* A restart of an open job that may still count is on the agent's file: the file is
\* closed or taken away only with the job over, or with all its restarts in the past.
LEMMA BegunStep == RInv /\ [Next]_vars => Begun'
<1> DEFINE Own(j) == file.job = j /\ (file.restarting = boot \/ file.closed)
<1> SUFFICES ASSUME RInv, [Next]_vars, NEW j \in Jobs, state'[j] \in Open
             PROVE  Past(j)' \/ Own(j)'
  BY DEF Begun
<1>1. TypeOK /\ IInv /\ Known /\ Begun /\ ClosedTells /\ AnswerTells
  BY DEF RInv, IInv
<1>2. CASE Create(j)
  <2>1. UNCHANGED marked /\ Afoot' = Afoot /\ state[j] = "absent"
    BY <1>2 DEF Create, worldVars, agentVars, Afoot, Waiting
  <2> QED
    BY <1>1, <2>1 DEF Known, Out, Past
<1>3. CASE Past(j)
  <2>1. Acts /\ Begins => Own(j)' \/ file.job # j
    BY ActsDo DEF Begins
  <2> QED
    BY <1>3, <2>1, Records
<1>4. CASE ~Past(j) /\ ~Create(j)
  <2>1. state[j] \in Open /\ Own(j) /\ Out(j) /\ ~Over(j)
    <3>1. state[j] \in Open
      BY <1>4, OverStays
    <3>2. Own(j)
      BY <1>1, <1>4, <3>1 DEF Begun
    <3>3. Out(j)
      BY <1>1, <3>2, NoJobAssumption DEF Known
    <3> QED
      BY <3>1, <3>2, <3>3 DEF Over, Open, Closed
  <2>2. boot # Never /\ file.job # NoJob
    BY <1>1, <2>1, BoundsAssumption, NoJobAssumption DEF TypeOK, Never
  <2>3. CASE Apply
    <3>1. Undecided => FALSE
      BY <2>1, <2>2 DEF Undecided, Restarting
    <3>2. ~Restarting /\ checkin.job \in Jobs /\ file.job # checkin.job => FALSE
      <4>1. ASSUME ~Restarting, checkin.job \in Jobs, file.job # checkin.job PROVE FALSE
        BY <1>1, <2>1, <2>3, <4>1, NoJobAssumption DEF AnswerTells, Apply
      <4> QED
        BY <4>1
    <3> QED
      BY <1>1, <2>1, <2>3, <3>1, <3>2, ApplyDoes DEF worldVars
  <2>4. ASSUME SameFile, UNCHANGED boot PROVE Own(j)'
    BY <2>1, <2>2, <2>4 DEF SameFile
  <2>5. ASSUME UNCHANGED <<file, boot>> PROVE Own(j)'
    BY <2>1, <2>5
  <2>6. CASE FilesAway
    BY <1>1, <2>1, <2>6 DEF FilesAway, ClosedTells
  <2>7. ASSUME NEW r \in Reports, Posts(r) PROVE Own(j)'
    BY <1>1, <2>1, <2>4, <2>7 DEF Posts, Known, worldVars
  <2>8. CASE Acts
    <3>1. ~Begins /\ ~Forgets
      <4>1. boot \in Nat
        BY <1>1 DEF TypeOK
      <4> QED
        BY <2>1, <2>2, <4>1 DEF Begins, Undecided, Restarting, Forgets
    <3>2. UNCHANGED boot
      BY <2>8, ActsDo
    <3>3. Fails => Own(j)'
      BY <2>1 DEF Fails
    <3> QED
      BY <2>4, <2>8, <3>1, <3>2, <3>3 DEF Acts, Waits, Tells
  <2>9. CASE Breaks
    BY <2>4, <2>9 DEF Breaks, Waits, worldVars
  <2>10. CASE Machine
    BY <2>10, Records
  <2> QED
    BY <1>1, <2>3, <2>5, <2>6, <2>7, <2>8, <2>9, <2>10, Kinds
    DEF Create, Tidies, LateReport, Collect, Ingest, ClaimDeliver, ClaimSelect, agentVars, worldVars
<1> QED
  BY <1>2, <1>3, <1>4

\* Where the agent does not ask about a job and the answer under way does not carry it,
\* the agent does not come to ask about it, let alone to restart the machine for it.
LEMMA Silence ==
  ASSUME RInv, [Next]_vars, NEW j \in Jobs,
         file.job = j => ~Undecided /\ ~Holding,
         checkin.pc = "answer" => checkin.job # j
  PROVE  /\ file'.job = j => file.job = j /\ ~Undecided' /\ ~Holding'
         /\ ~(Begins /\ file.job = j)
<1>1. TypeOK /\ IInv
  BY DEF RInv, IInv
<1>2. j # NoJob /\ NoFile.job # j
  BY NoJobAssumption DEF NoFile
<1>3. ~(Begins /\ file.job = j)
  BY DEF Begins
<1> SUFFICES ASSUME file'.job = j PROVE file.job = j /\ ~Undecided' /\ ~Holding'
  BY <1>3
<1>4. ASSUME file.job = j, Undecided' => Undecided, Holding' => Holding
      PROVE  ~Undecided' /\ ~Holding'
  BY <1>4
<1>5. CASE UNCHANGED <<file, gate>>
  <2>1. Undecided' => Undecided
    BY <1>5 DEF Undecided, Restarting, Never
  <2> QED
    BY <1>4, <1>5, <2>1 DEF Holding
<1>6. CASE Apply
  <2>1. UNCHANGED file /\ ~Holding'
    BY <1>1, <1>2, <1>6, ApplyDoes
  <2> QED
    BY <1>4, <2>1 DEF Undecided, Restarting, Never
<1>7. CASE (\E r \in Reports : Posts(r)) \/ Breaks \/ FilesAway
  <2>1. SameFile
    BY <1>2, <1>7 DEF Posts, Breaks, Waits, FilesAway
  <2> QED
    BY <1>1, <1>4, <1>7, <2>1, UndecidedStays DEF SameFile
<1>8. CASE Acts
  <2>1. file.job = j /\ ~Begins
    BY <1>2, <1>3, <1>8, ActsDo DEF Forgets
  <2>2. Undecided' => Undecided
    BY <1>1, <1>8, UndecidedStays
  <2>3. Holding' => Holding
    BY <1>8, <2>1 DEF Acts, Waits, Tells, SameFile, Fails, Forgets
  <2> QED
    BY <1>4, <2>1, <2>2, <2>3
<1>9. CASE Machine
  <2>1. UNCHANGED file /\ ~Holding'
    BY <1>1, <1>9, MachineDoes
  <2> QED
    BY <1>4, <2>1 DEF Undecided, Restarting, Never
<1> QED
  BY <1>1, <1>5, <1>6, <1>7, <1>8, <1>9, Kinds
  DEF Create, Tidies, LateReport, Collect, Ingest, ClaimDeliver, ClaimSelect, agentVars

\* A job is finished by the answer that withdraws it, and by the boot its restart is on
\* record for.
LEMMA FinishedGrows ==
  ASSUME RInv, [Next]_vars, NEW j \in Finished'
  PROVE  \/ j \in Finished
         \/ Apply /\ checkin.job = NoJob /\ Undecided /\ file' = NoFile /\ j = file.job
         \/ Machine /\ state[j] \in Open /\ j \in marked /\ since[j] = boot
<1>1. TypeOK /\ IInv
  BY DEF RInv, IInv
<1>2. CASE Apply
  BY <1>1, <1>2, ApplyDoes DEF Finished, worldVars
<1>3. CASE Machine
  BY <1>1, <1>3, MachineDoes DEF Finished
<1>4. CASE UNCHANGED <<told, rebooted>>
  BY <1>4 DEF Finished
<1> QED
  BY <1>1, <1>2, <1>3, <1>4, Kinds, ActsDo
  DEF Create, Tidies, LateReport, Collect, Ingest, ClaimDeliver, ClaimSelect, Posts, Breaks,
      FilesAway, agentElse, worldVars

\* What is finished stays with the backend: closed, or about to be by the next check-in.
LEMMA SpentStep == RInv /\ [Next]_vars => Spent'
<1> SUFFICES ASSUME RInv, [Next]_vars, NEW j \in Finished'
             PROVE  /\ Over(j)' \/ (j \in marked' /\ Past(j)')
                    /\ file'.job = j => ~Undecided' /\ ~Holding'
                    /\ checkin'.pc \in {"deliver", "select"} => Over(j)'
                    /\ checkin'.pc = "answer" => checkin'.job # j
  BY DEF Spent, Finished, Over
<1>1. TypeOK /\ IInv /\ Known /\ Begun /\ AnswerTells /\ ThisBoot /\ Stamped
  BY DEF RInv, IInv
<1>2. j \in Jobs
  <2>1. Finished \subseteq Jobs
    BY <1>1 DEF Finished, TypeOK
  <2> QED
    BY <1>1, <2>1, FileOfJob, FinishedGrows DEF Undecided, FileType, TypeOK
<1>3. CASE j \in Finished
  <2>1. /\ Over(j) \/ (j \in marked /\ Past(j))
        /\ file.job = j => ~Undecided /\ ~Holding
        /\ checkin.pc \in {"deliver", "select"} => Over(j)
        /\ checkin.pc = "answer" => checkin.job # j
    BY <1>3 DEF RInv, Spent
  <2>2. ~(Begins /\ file.job = j) /\ (file'.job = j => ~Undecided' /\ ~Holding')
    BY <1>2, <2>1, Silence
  <2>3. Over(j)' \/ (j \in marked' /\ Past(j)')
    BY <1>2, <2>1, <2>2, OverStays, Records
  <2>4. ASSUME checkin'.pc \in {"deliver", "select"} PROVE Over(j)'
    <3>1. CASE checkin.pc \in {"deliver", "select"}
      BY <1>2, <2>1, <3>1, OverStays
    <3>2. CASE Tidies /\ checkin.pc = "cleanup"
      <4>1. CASE Over(j)
        BY <1>2, <4>1, OverStays
      <4>2. CASE j \in marked /\ Past(j)
        <5>1. lastBoot = boot /\ since[j] < boot
          BY <1>1, <3>2, <4>2 DEF ThisBoot, Past
        <5>2. Restarted(j) /\ Out(j)
          BY <1>1, <1>2, <4>2, <5>1 DEF Restarted, TypeOK, Known
        <5>3. state'[j] \notin Open /\ (state'[j] = state[j] \/ state'[j] \in Closed)
          BY <1>2, <2>4, <3>2, <5>2 DEF Tidies
        <5> QED
          BY <1>1, <1>2, <5>2, <5>3 DEF Out, Over, TypeOK
      <4> QED
        BY <2>1, <4>1, <4>2
    <3>3. CASE checkin.pc \notin {"deliver", "select"} /\ ~(Tidies /\ checkin.pc = "cleanup")
      <4>1. checkin'.pc = checkin.pc
        BY <1>1, <2>4, <3>3, Kinds, ApplyDoes, ActsDo, MachineDoes
        DEF Create, Tidies, LateReport, Collect, Ingest, ClaimDeliver, ClaimSelect, Posts, Breaks,
            FilesAway, agentElse, Idle
      <4> QED
        BY <2>4, <3>3, <4>1
    <3> QED
      BY <3>1, <3>2, <3>3
  <2>5. ASSUME checkin'.pc = "answer" PROVE checkin'.job # j
    <3>1. CASE ClaimSelect
      <4>1. j \notin Selected
        BY <2>1, <3>1 DEF ClaimSelect, Selected, Over, Claimable, Closed
      <4> QED
        BY <1>2, <3>1, <4>1, NoJobAssumption DEF ClaimSelect
    <3>2. CASE ~ClaimSelect
      <4>1. checkin' = checkin
        BY <1>1, <2>5, <3>2, Kinds, ApplyDoes, ActsDo, MachineDoes
        DEF Create, Tidies, LateReport, Collect, Ingest, ClaimDeliver, Posts, Breaks,
            FilesAway, agentElse, Idle
      <4> QED
        BY <2>1, <2>5, <4>1
    <3> QED
      BY <3>1, <3>2
  <2> QED
    BY <2>2, <2>3, <2>4, <2>5
<1>4. CASE Apply /\ checkin.job = NoJob /\ Undecided /\ file' = NoFile /\ j = file.job
  <2>1. checkin.pc = "answer" /\ checkin' = [pc |-> "report"] /\ NoFile.job # j
    BY <1>1, <1>2, <1>4, NoJobAssumption DEF Apply, NoFile
  <2>2. Over(j) \/ j \in marked
    BY <1>1, <1>4, <2>1 DEF AnswerTells
  <2>3. Over(j)' \/ (j \in marked' /\ Past(j)')
    <3>1. CASE Over(j)
      BY <1>2, <3>1, OverStays
    <3>2. CASE j \in marked /\ ~Over(j)
      <4>1. state[j] \in Open
        BY <1>1, <1>2, <3>2 DEF Known, Out, Over, TypeOK
      <4>2. file.restarting # boot /\ ~file.closed
        BY <1>1, <1>4, BoundsAssumption DEF Undecided, Restarting, Never, TypeOK
      <4>3. Past(j)
        BY <1>1, <1>2, <4>1, <4>2 DEF Begun
      <4>4. ~Begins
        BY <1>4, NoJobAssumption, <1>2 DEF Begins, NoFile
      <4> QED
        BY <1>2, <3>2, <4>3, <4>4, Records
    <3> QED
      BY <2>2, <3>1, <3>2
  <2> QED
    BY <1>4, <2>1, <2>3
<1>5. CASE Machine /\ state[j] \in Open /\ j \in marked /\ since[j] = boot
  <2>1. boot \in Nat /\ checkin' = Idle /\ UNCHANGED file /\ ~Holding'
    BY <1>1, <1>5, MachineDoes
  <2>2. file.job = j /\ (file.restarting = boot \/ file.closed)
    BY <1>1, <1>2, <1>5, <2>1 DEF Begun, Past
  <2>3. ~Undecided'
    BY <1>1, <2>1, <2>2, BoundsAssumption DEF Undecided, Restarting, Never, TypeOK
  <2>4. j \in marked' /\ Past(j)'
    BY <1>2, <1>5, Records
  <2> QED
    BY <2>1, <2>3, <2>4 DEF Idle
<1> QED
  BY <1>3, <1>4, <1>5, FinishedGrows

\* A withdrawn job's file is gone, and no later answer brings it back.
LEMMA WithdrawnStep == RInv /\ [Next]_vars => WithdrawnStaysWithdrawn'
<1> SUFFICES ASSUME RInv, [Next]_vars, file'.job \in told' PROVE FALSE
  BY DEF WithdrawnStaysWithdrawn
<1> DEFINE j == file'.job
<1>1. TypeOK /\ IInv /\ WithdrawnStaysWithdrawn
  BY DEF RInv, IInv
<1>2. told' \subseteq Jobs
  BY <1>1, TypeStep DEF TypeOK
<1>3. CASE j \in told
  <2>1. /\ j \in Jobs
        /\ file.job = j => ~Undecided /\ ~Holding
        /\ checkin.pc = "answer" => checkin.job # j
    BY <1>1, <1>2, <1>3 DEF RInv, Spent, Finished
  <2> HIDE DEF j
  <2>2. file.job = j
    BY <2>1, Silence DEF j
  <2> QED
    BY <1>1, <1>3, <2>2 DEF WithdrawnStaysWithdrawn
<1>4. CASE j \notin told
  <2>1. Apply /\ file' = NoFile
    BY <1>1, <1>4, Kinds, ApplyDoes, ActsDo, MachineDoes
    DEF Create, Tidies, LateReport, Collect, Ingest, ClaimDeliver, ClaimSelect, Posts, Breaks,
        FilesAway, agentElse
  <2> QED
    BY <1>2, <2>1, NoJobAssumption DEF NoFile
<1> QED
  BY <1>3, <1>4

\* RInv holds throughout.
LEMMA RestartInvariant == Spec => []RInv
<1>1. Init => RInv
  <2> SUFFICES ASSUME Init PROVE RInv
    OBVIOUS
  <2>1. IInv
    <3>1. TypeOK
      BY BoundsAssumption DEF Init, TypeOK, Idle
    <3> QED
      BY <3>1 DEF Init, IInv, YoungSince, GateHeld
  <2>2. /\ file.job = NoJob /\ Waiting = {} /\ Afoot = {} /\ checkin.pc = "idle"
        /\ marked = {} /\ Finished = {} /\ \A j \in Jobs : state[j] = "absent"
    BY DEF Init, NoFile, Waiting, Afoot, Idle, Finished
  <2>3. Stamped /\ Known /\ ThisBoot /\ AnswerTells /\ Quiet /\ ClosedTells /\ Spent
    BY <2>2 DEF Stamped, Known, ThisBoot, AnswerTells, Quiet, ClosedTells, Spent
  <2>4. Alone /\ Begun
    BY <2>2 DEF Alone, Begun, Open
  <2>5. WithdrawnStaysWithdrawn
    BY DEF Init, WithdrawnStaysWithdrawn
  <2> QED
    BY <2>1, <2>3, <2>4, <2>5 DEF RInv
<1>2. RInv /\ [Next]_vars => RInv'
  BY TypeStep, YoungStep, GateStep, StampedStep, KnownStep, AloneStep, ThisBootStep, AnswerStep,
     QuietStep, ClosedStep, BegunStep, SpentStep, WithdrawnStep DEF RInv, IInv
<1> QED
  BY <1>1, <1>2, PTL DEF Spec

\* NullAnswer withdraws a job for good: no report, late answer or restart of service or
\* machine brings it back to the agent.
THEOREM Withdrawn == Spec => []WithdrawnStaysWithdrawn
<1>1. RInv => WithdrawnStaysWithdrawn
  BY DEF RInv
<1> QED
  BY <1>1, RestartInvariant, PTL

\* The shutdown is never initiated for a job whose restart the backend had on record when
\* the machine last went down: TickRestarting and the check-in's cleanup see to it.
THEOREM RestartIsLast == Spec => []RecordedRestartIsLast
<1>1. RInv => RecordedRestartIsLast
  <2> SUFFICES ASSUME RInv, gate = "initiate" PROVE rebooted[file.job] # "restarting"
    BY DEF RecordedRestartIsLast
  <2>1. TypeOK /\ Holding /\ file.job # NoJob
    BY DEF RInv, IInv, GateHeld, Restarting, Holding
  <2>2. file.job \in Jobs
    BY <2>1, FileOfJob DEF FileType
  <2>3. file.job \notin Finished
    BY <2>1, <2>2 DEF RInv, Spent
  <2> QED
    BY <2>2, <2>3 DEF Finished
<1> QED
  BY <1>1, RestartInvariant, PTL

\* claim() never has to choose between two jobs of the device.
THEOREM NothingToChoose == Spec => []OneOpenJob
<1>1. RInv => OneOpenJob
  <2> SUFFICES ASSUME Alone PROVE OneOpenJob
    BY DEF RInv
  <2>1. CASE OpenJobs = {}
    BY <2>1, FS_EmptySet DEF OneOpenJob
  <2>2. CASE OpenJobs # {}
    <3>1. PICK j \in OpenJobs : TRUE
      BY <2>2
    <3>2. OpenJobs = {j}
      BY <3>1 DEF OpenJobs, Alone
    <3> QED
      BY <3>2, FS_Singleton DEF OneOpenJob
  <2> QED
    BY <2>1, <2>2
<1> QED
  BY <1>1, RestartInvariant, PTL

=============================================================================
