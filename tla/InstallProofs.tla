--------------------------- MODULE InstallProofs ---------------------------
(***************************************************************************)
(* What InstallJobs promises for every number of devices, installations,   *)
(* administrators and overlapping check-ins, and InstallSystem for every   *)
(* number of jobs, overlapping requests, late reports and crashes.         *)
(*                                                                         *)
(* OneOpenJobPerDevice is inductive with TypeOK: the two statements that   *)
(* open a job both look at the rows they write. NothingBeforeItsTime is    *)
(* not: claim() writes the row it has selected without looking at          *)
(* not_before again, and needs ClaimsAreDue.                               *)
(*                                                                         *)
(* The invariants between agent and backend rest on install.json being     *)
(* written before the start is reported and deleted only once the backend  *)
(* has the result or does not want it (Owed), and on the backend knowing   *)
(* nothing of a start before it is reported (Fresh).                       *)
(***************************************************************************)
EXTENDS InstallSystem, TLAPS

-----------------------------------------------------------------------------
(* The table.                                                              *)

\* A claim that has selected a job has selected a row that is due, and a row that
\* was due once stays so.
ClaimsAreDue ==
  \A r \in Requests :
    claim[r].pc \in {"deliver", "resolve", "close"}
      => /\ clock[claim[r].job] # "early"
         /\ state[claim[r].job] # "absent"

IInv ==
  /\ TypeOK
  /\ OneOpenJobPerDevice
  /\ NothingBeforeItsTime
  /\ ClaimsAreDue

-----------------------------------------------------------------------------
(* What is known of a claim by how far it has come.                        *)

\* The program counter of a claim determines which record it is.
LEMMA ClaimByPc ==
  ASSUME NEW c \in ClaimStates
  PROVE  /\ c.pc \in {"cleanup", "select"}
              => c = [pc |-> c.pc, device |-> c.device] /\ c.device \in Devices
         /\ c.pc \in {"deliver", "resolve", "close"}
              => c = [pc |-> c.pc, job |-> c.job] /\ c.job \in Jobs
BY DEF ClaimStates, IdleClaim, Answered, Errored

\* The records a claim goes through are claim states.
LEMMA ClaimRecords ==
  /\ IdleClaim \in ClaimStates
  /\ Errored \in ClaimStates
  /\ Answered({}) \in ClaimStates
  /\ \A j \in Jobs : Answered({j}) \in ClaimStates
  /\ \A d \in Devices, p \in {"cleanup", "select"} : [pc |-> p, device |-> d] \in ClaimStates
  /\ \A j \in Jobs, p \in {"deliver", "resolve", "close"} : [pc |-> p, job |-> j] \in ClaimStates
BY DEF ClaimStates, IdleClaim, Answered, Errored

\* cleanup() writes states the enum has.
LEMMA CleanedUpType ==
  ASSUME TypeOK, NEW j \in Jobs
  PROVE  CleanedUp(j) \in {"absent"} \cup Open \cup Closed
BY DEF TypeOK, CleanedUp, Interrupted, Open, Closed, Undelivered

-----------------------------------------------------------------------------
(* Type correctness.                                                       *)

\* Every step keeps the types.
LEMMA TypeStep == TypeOK /\ [Next]_vars => TypeOK'
<1> SUFFICES ASSUME TypeOK, [Next]_vars PROVE TypeOK'
  OBVIOUS
<1> USE DEF TypeOK
<1>1. ASSUME NEW a \in Admins, NEW D \in SUBSET Devices, NEW S \in SUBSET Updates,
             CreateRead(a, D, S)
      PROVE  TypeOK'
  BY <1>1 DEF CreateRead, Eligible, DialogStates, IdleDialog
<1>2. ASSUME NEW a \in Admins, NEW i \in Installations, NEW I \in SUBSET Devices,
             CreateInsert(a, i, I)
      PROVE  TypeOK'
  <2> dialog[a].scope \in SUBSET Updates
    BY <1>2 DEF CreateInsert, DialogStates, IdleDialog
  <2> QED
    BY <1>2 DEF CreateInsert, DialogStates, IdleDialog, Open
<1>3. ASSUME NEW J, CancelJobs(J) PROVE TypeOK'
  BY <1>3 DEF CancelJobs, Closed
<1>4. CASE List
  BY <1>4, CleanedUpType DEF List, Cleanup
<1>5. ASSUME NEW r \in Requests, NEW d \in Devices, NEW U \in SUBSET Updates,
             NEW behind, Ingest(r, d, U, behind)
      PROVE  TypeOK'
  <2>1. claim' \in [Requests -> ClaimStates]
    BY <1>5, ClaimRecords DEF Ingest
  <2>2. seen' \in [Jobs -> BOOLEAN]
    BY <1>5 DEF Ingest
  <2> QED
    BY <1>5, <2>1, <2>2 DEF Ingest
<1>6. ASSUME NEW r \in Requests, ClaimCleanup(r) PROVE TypeOK'
  <2>1. claim[r].device \in Devices /\ claim[r] = [pc |-> "cleanup", device |-> claim[r].device]
    BY <1>6, ClaimByPc DEF ClaimCleanup
  <2>2. claim' \in [Requests -> ClaimStates]
    <3>1. [claim[r] EXCEPT !.pc = "select"] = [pc |-> "select", device |-> claim[r].device]
      BY <2>1
    <3> QED
      BY <1>6, <2>1, <3>1, ClaimRecords DEF ClaimCleanup
  <2>3. state' \in [Jobs -> {"absent"} \cup Open \cup Closed]
    BY <1>6, CleanedUpType DEF ClaimCleanup, Cleanup
  <2> QED
    BY <1>6, <2>2, <2>3 DEF ClaimCleanup
<1>7. ASSUME NEW r \in Requests, ClaimSelect(r) PROVE TypeOK'
  BY <1>7, ClaimRecords DEF ClaimSelect, Claimable
<1>8. ASSUME NEW r \in Requests, ClaimDeliver(r) PROVE TypeOK'
  <2>1. claim[r].job \in Jobs /\ claim[r] = [pc |-> "deliver", job |-> claim[r].job]
    BY <1>8, ClaimByPc DEF ClaimDeliver
  <2>2. [claim[r] EXCEPT !.pc = "resolve"] = [pc |-> "resolve", job |-> claim[r].job]
    BY <2>1
  <2>3. claim' \in [Requests -> ClaimStates]
    <3>1. \/ claim' = [claim EXCEPT ![r] = [pc |-> "resolve", job |-> claim[r].job]]
          \/ claim' = [claim EXCEPT ![r] = Errored]
      BY <1>8, <2>2 DEF ClaimDeliver
    <3> QED
      BY <2>1, <3>1, ClaimRecords
  <2>4. state' \in [Jobs -> {"absent"} \cup Open \cup Closed]
    BY <1>8, <2>1 DEF ClaimDeliver, Open
  <2> QED
    BY <1>8, <2>3, <2>4 DEF ClaimDeliver
<1>9. ASSUME NEW r \in Requests, ClaimResolve(r) PROVE TypeOK'
  <2>1. claim[r].job \in Jobs /\ claim[r] = [pc |-> "resolve", job |-> claim[r].job]
    BY <1>9, ClaimByPc DEF ClaimResolve
  <2>2. [claim[r] EXCEPT !.pc = "close"] = [pc |-> "close", job |-> claim[r].job]
    BY <2>1
  <2> QED
    BY <1>9, <2>1, <2>2, ClaimRecords DEF ClaimResolve
<1>10. ASSUME NEW r \in Requests, ClaimClose(r) PROVE TypeOK'
  BY <1>10, ClaimRecords DEF ClaimClose, Closed
<1>11. ASSUME NEW r \in Requests, Respond(r) PROVE TypeOK'
  BY <1>11, ClaimRecords DEF Respond
<1>12. ASSUME NEW j \in Jobs, NEW s \in {"running", "done", "failed"}, Report(j, s)
       PROVE  TypeOK'
  BY <1>12 DEF Report, Open, Closed
<1>13. ASSUME NEW j \in Jobs, BecomeDue(j) \/ PassDeadline(j) \/ BecomeStale(j)
       PROVE  TypeOK'
  BY <1>13 DEF BecomeDue, PassDeadline, BecomeStale
<1>14. ASSUME NEW d \in Devices, NEW t \in {"ready", "old", "archived"}, ChangeDevice(d, t)
       PROVE  TypeOK'
  BY <1>14 DEF ChangeDevice
<1>15. CASE UNCHANGED vars
  BY <1>15 DEF vars
<1> QED
  BY <1>1, <1>2, <1>3, <1>4, <1>5, <1>6, <1>7, <1>8, <1>9, <1>10, <1>11, <1>12,
     <1>13, <1>14, <1>15
  DEF Next, Cancel, CancelInstallation

\* The variables of InstallJobs keep their types: no statement writes a state
\* install_job_state does not have.
THEOREM TypeCorrect == Spec => []TypeOK
<1>1. Init => TypeOK
  BY ClaimRecords DEF Init, TypeOK, IdleDialog, DialogStates
<1> QED
  BY <1>1, TypeStep, PTL DEF Spec

-----------------------------------------------------------------------------
(* One open job per device.                                                *)

\* A step that opens no job keeps OneOpenJobPerDevice.
LEMMA OpenShrinks ==
  ASSUME OneOpenJobPerDevice,
         \A j \in Jobs : state'[j] \in Open => state[j] \in Open
  PROVE  OneOpenJobPerDevice'
BY DEF OneOpenJobPerDevice, Jobs, Device, Open

\* cleanup() opens no job, and leaves a closed one as it is.
LEMMA CleanedUpCloses ==
  ASSUME NEW j \in Jobs
  PROVE  /\ CleanedUp(j) \in Open => state[j] \in Open
         /\ state[j] \in Closed => CleanedUp(j) = state[j]
         /\ state[j] \in {"absent", "pending", "cancelled"} /\ clock[j] = "early"
              => CleanedUp(j) = state[j]
BY DEF CleanedUp, Interrupted, Open, Closed, Undelivered

\* Every step keeps OneOpenJobPerDevice.
LEMMA OneOpenStep ==
  TypeOK /\ OneOpenJobPerDevice /\ [Next]_vars => OneOpenJobPerDevice'
<1> SUFFICES ASSUME TypeOK, OneOpenJobPerDevice, [Next]_vars PROVE OneOpenJobPerDevice'
  OBVIOUS
<1>1. ASSUME NEW a \in Admins, NEW i \in Installations, NEW I \in SUBSET Devices,
             CreateInsert(a, i, I)
      PROVE  OneOpenJobPerDevice'
  <2> DEFINE rows == {i} \X Insertable(dialog[a].devices)
  <2>1. \A j \in Jobs : state'[j] = IF j \in rows THEN "pending" ELSE state[j]
    BY <1>1 DEF CreateInsert
  <2>2. \A j \in rows : OpenJobs(Device(j)) = {}
    BY DEF Insertable, Device
  <2>3. SUFFICES ASSUME NEW j \in Jobs, NEW k \in Jobs, Device(j) = Device(k),
                        state'[j] \in Open, state'[k] \in Open
                 PROVE  j = k
    BY DEF OneOpenJobPerDevice, Device, Open, Jobs
  <2>4. CASE j \in rows /\ k \in rows
    BY <2>3, <2>4 DEF Device
  <2>5. CASE j \in rows /\ k \notin rows
    BY <2>1, <2>2, <2>3, <2>5 DEF OpenJobs
  <2>6. CASE j \notin rows /\ k \in rows
    BY <2>1, <2>2, <2>3, <2>6 DEF OpenJobs
  <2>7. CASE j \notin rows /\ k \notin rows
    BY <2>1, <2>3, <2>7 DEF OneOpenJobPerDevice
  <2> QED
    BY <2>4, <2>5, <2>6, <2>7
<1>2. ASSUME NEW r \in Requests, ClaimDeliver(r) PROVE OneOpenJobPerDevice'
  <2> DEFINE job == claim[r].job
  <2>1. CASE OpenJobs(Device(job)) \ {job} = {}
    <3>1. \A j \in Jobs : state'[j] = IF j = job THEN "delivered" ELSE state[j]
      BY <1>2, <2>1 DEF ClaimDeliver, TypeOK
    <3>2. SUFFICES ASSUME NEW j \in Jobs, NEW k \in Jobs, Device(j) = Device(k),
                          state'[j] \in Open, state'[k] \in Open
                   PROVE  j = k
      BY DEF OneOpenJobPerDevice, Device, Open, Jobs
    <3>3. CASE j # job /\ k # job
      BY <3>1, <3>2, <3>3 DEF OneOpenJobPerDevice
    <3>4. CASE j = job \/ k = job
      BY <2>1, <3>1, <3>2, <3>4 DEF OpenJobs
    <3> QED
      BY <3>3, <3>4
  <2>2. CASE OpenJobs(Device(job)) \ {job} # {}
    BY <1>2, <2>2, OpenShrinks DEF ClaimDeliver
  <2> QED
    BY <2>1, <2>2
<1>3. ASSUME NEW J, CancelJobs(J) PROVE OneOpenJobPerDevice'
  BY <1>3, OpenShrinks DEF CancelJobs, Open
<1>4. ASSUME NEW J, Cleanup(J) PROVE OneOpenJobPerDevice'
  BY <1>4, OpenShrinks, CleanedUpCloses DEF Cleanup
<1>5. ASSUME NEW r \in Requests, ClaimClose(r) PROVE OneOpenJobPerDevice'
  BY <1>5, OpenShrinks DEF ClaimClose, TypeOK, Open
<1>6. ASSUME NEW j \in Jobs, NEW s \in {"running", "done", "failed"}, Report(j, s)
      PROVE  OneOpenJobPerDevice'
  BY <1>6, OpenShrinks DEF Report, Reportable, TypeOK, Open
<1>7. CASE UNCHANGED state
  BY <1>7, OpenShrinks
<1> QED
  <2>1. \/ UNCHANGED state
        \/ \E a \in Admins, i \in Installations, I \in SUBSET Devices : CreateInsert(a, i, I)
        \/ \E r \in Requests : ClaimDeliver(r) \/ ClaimClose(r)
        \/ \E J : CancelJobs(J) \/ Cleanup(J)
        \/ \E j \in Jobs, s \in {"running", "done", "failed"} : Report(j, s)
    BY DEF Next, vars, CreateRead, Cancel, CancelInstallation, List, Ingest, ClaimCleanup,
           ClaimSelect, ClaimResolve, Respond, BecomeDue, PassDeadline, BecomeStale,
           ChangeDevice
  <2> QED
    BY <1>1, <1>2, <1>3, <1>4, <1>5, <1>6, <1>7, <2>1

\* A device never has two open jobs: the unique index holds back what a stale
\* eligibility or a stale selection would open.
THEOREM OneOpenJob == Spec => []OneOpenJobPerDevice
<1>1. Init => OneOpenJobPerDevice
  BY DEF Init, OneOpenJobPerDevice, Open
<1> QED
  BY <1>1, OneOpenStep, TypeCorrect, PTL DEF Spec

-----------------------------------------------------------------------------
(* Nothing before its time.                                                *)

\* No job becomes early again except the rows create() inserts.
LEMMA ClockStep ==
  ASSUME TypeOK, [Next]_vars, NEW j \in Jobs, clock'[j] = "early"
  PROVE  \/ clock[j] = "early"
         \/ state[j] = "absent" /\ state'[j] = "pending"
<1>1. ASSUME NEW a \in Admins, NEW i \in Installations, NEW I \in SUBSET Devices,
             CreateInsert(a, i, I)
      PROVE  \/ clock[j] = "early"
             \/ state[j] = "absent" /\ state'[j] = "pending"
  BY <1>1 DEF CreateInsert, Jobs
<1>2. ASSUME NEW k \in Jobs, BecomeDue(k) \/ PassDeadline(k)
      PROVE  clock[j] = "early"
  BY <1>2 DEF BecomeDue, PassDeadline, TypeOK
<1>3. CASE UNCHANGED clock
  BY <1>3
<1> QED
  BY <1>1, <1>2, <1>3
  DEF Next, vars, CreateRead, Cancel, CancelInstallation, CancelJobs, List, Ingest,
      ClaimCleanup, ClaimSelect, ClaimDeliver, ClaimResolve, ClaimClose, Respond, Report,
      BecomeStale, ChangeDevice

\* No row is deleted.
LEMMA RowsStay ==
  ASSUME TypeOK, [Next]_vars, NEW j \in Jobs, state[j] # "absent"
  PROVE  state'[j] # "absent"
<1>1. ASSUME NEW a \in Admins, NEW i \in Installations, NEW I \in SUBSET Devices,
             CreateInsert(a, i, I)
      PROVE  state'[j] # "absent"
  BY <1>1 DEF CreateInsert
<1>2. ASSUME NEW r \in Requests, ClaimDeliver(r) \/ ClaimClose(r)
      PROVE  state'[j] # "absent"
  BY <1>2 DEF ClaimDeliver, ClaimClose, TypeOK
<1>3. ASSUME NEW J, CancelJobs(J) \/ Cleanup(J) PROVE state'[j] # "absent"
  <2>1. CleanedUp(j) # "absent"
    BY DEF CleanedUp
  <2> QED
    BY <1>3, <2>1 DEF CancelJobs, Cleanup
<1>4. ASSUME NEW k \in Jobs, NEW s \in {"running", "done", "failed"}, Report(k, s)
      PROVE  state'[j] # "absent"
  BY <1>4 DEF Report, TypeOK
<1>5. CASE UNCHANGED state
  BY <1>5
<1> QED
  BY <1>1, <1>2, <1>3, <1>4, <1>5
  DEF Next, vars, CreateRead, Cancel, CancelInstallation, List, Ingest, ClaimCleanup,
      ClaimSelect, ClaimResolve, Respond, BecomeDue, PassDeadline, BecomeStale,
      ChangeDevice

\* What a step does to the state of a job that is neither handed out nor run.
LEMMA EarlyStep ==
  ASSUME TypeOK, ClaimsAreDue, [Next]_vars, NEW j \in Jobs,
         clock[j] = "early", state[j] \in {"absent", "pending", "cancelled"}
  PROVE  state'[j] \in {"absent", "pending", "cancelled"}
<1> DEFINE Fine == state'[j] \in {"absent", "pending", "cancelled"}
<1>1. ASSUME NEW a \in Admins, NEW i \in Installations, NEW I \in SUBSET Devices,
             CreateInsert(a, i, I)
      PROVE  Fine
  BY <1>1 DEF CreateInsert
<1>2. ASSUME NEW r \in Requests, ClaimDeliver(r) \/ ClaimClose(r) PROVE Fine
  <2>1. claim[r].job # j
    BY <1>2 DEF ClaimDeliver, ClaimClose, ClaimsAreDue
  <2> QED
    BY <1>2, <2>1 DEF ClaimDeliver, ClaimClose, TypeOK
<1>3. ASSUME NEW J, CancelJobs(J) \/ Cleanup(J) PROVE Fine
  BY <1>3, CleanedUpCloses DEF CancelJobs, Cleanup
<1>4. ASSUME NEW k \in Jobs, NEW s \in {"running", "done", "failed"}, Report(k, s)
      PROVE  Fine
  BY <1>4 DEF Report, Reportable, TypeOK
<1>5. CASE UNCHANGED state
  BY <1>5
<1> QED
  BY <1>1, <1>2, <1>3, <1>4, <1>5
  DEF Next, vars, CreateRead, Cancel, CancelInstallation, List, Ingest, ClaimCleanup,
      ClaimSelect, ClaimResolve, Respond, BecomeDue, PassDeadline, BecomeStale,
      ChangeDevice

\* A claim in a later step holds the job it held before, or one it just selected.
LEMMA ClaimJobStep ==
  ASSUME TypeOK, [Next]_vars, NEW r \in Requests,
         claim'[r].pc \in {"deliver", "resolve", "close"}
  PROVE  \/ /\ claim[r].pc \in {"deliver", "resolve", "close"}
            /\ claim'[r].job = claim[r].job
         \/ /\ claim'[r].job \in Jobs
            /\ clock[claim'[r].job] = "due" /\ UNCHANGED clock
            /\ state[claim'[r].job] # "absent"
<1> DEFINE Held == /\ claim[r].pc \in {"deliver", "resolve", "close"}
                   /\ claim'[r].job = claim[r].job
           Due  == /\ claim'[r].job \in Jobs
                   /\ clock[claim'[r].job] = "due" /\ UNCHANGED clock
                   /\ state[claim'[r].job] # "absent"
<1>1. CASE claim'[r] = claim[r]
  BY <1>1
<1>2. ASSUME NEW q \in Requests, ClaimSelect(q), claim'[r] # claim[r] PROVE Held \/ Due
  <2>1. q = r
    BY <1>2 DEF ClaimSelect, TypeOK
  <2>2. PICK j \in Claimable(claim[r].device) :
               claim' = [claim EXCEPT ![r] = [pc |-> "deliver", job |-> j]]
    BY <1>2, <2>1 DEF ClaimSelect, TypeOK, Answered
  <2> QED
    BY <1>2, <2>2 DEF Claimable, ClaimSelect, TypeOK, Undelivered
<1>3. ASSUME NEW q \in Requests, ClaimDeliver(q) \/ ClaimResolve(q), claim'[r] # claim[r]
      PROVE  Held \/ Due
  <2>1. q = r
    BY <1>3 DEF ClaimDeliver, ClaimResolve, TypeOK
  <2>2. claim[r] = [pc |-> claim[r].pc, job |-> claim[r].job]
        /\ claim[r].pc \in {"deliver", "resolve"}
    BY <1>3, <2>1, ClaimByPc DEF ClaimDeliver, ClaimResolve, TypeOK
  <2>3. CASE ClaimDeliver(r)
    <3>1. \/ claim'[r] = [pc |-> "resolve", job |-> claim[r].job]
          \/ claim'[r] = Errored
      <4>1. \/ claim' = [claim EXCEPT ![r].pc = "resolve"]
            \/ claim' = [claim EXCEPT ![r] = Errored]
        BY <2>3 DEF ClaimDeliver
      <4> QED
        BY <2>2, <4>1 DEF TypeOK
    <3> QED
      BY <2>2, <3>1 DEF Errored
  <2>4. CASE ClaimResolve(r)
    <3>1. \/ claim'[r] = [pc |-> "close", job |-> claim[r].job]
          \/ claim'[r] = Answered({claim[r].job})
      <4>1. \/ claim' = [claim EXCEPT ![r].pc = "close"]
            \/ claim' = [claim EXCEPT ![r] = Answered({claim[r].job})]
        BY <2>4 DEF ClaimResolve
      <4> QED
        BY <2>2, <4>1 DEF TypeOK
    <3> QED
      BY <2>2, <3>1 DEF Answered
  <2> QED
    BY <1>3, <2>1, <2>3, <2>4
<1>4. ASSUME NEW q \in Requests, claim'[r] # claim[r],
             ClaimCleanup(q) \/ ClaimClose(q) \/ Respond(q)
      PROVE  FALSE
  <2>1. q = r
    BY <1>4 DEF ClaimCleanup, ClaimClose, Respond, TypeOK
  <2>2. claim'[r].pc \notin {"deliver", "resolve", "close"}
    <3>1. CASE ClaimCleanup(r)
      <4>1. claim[r] = [pc |-> "cleanup", device |-> claim[r].device]
        BY <3>1, ClaimByPc DEF ClaimCleanup, TypeOK
      <4>2. claim'[r] = [pc |-> "select", device |-> claim[r].device]
        BY <3>1, <4>1 DEF ClaimCleanup, TypeOK
      <4> QED
        BY <4>2
    <3>2. CASE ClaimClose(r) \/ Respond(r)
      BY <3>2 DEF ClaimClose, Respond, TypeOK, Answered, IdleClaim
    <3> QED
      BY <1>4, <2>1, <3>1, <3>2
  <2> QED
    BY <2>2
<1>5. ASSUME NEW q \in Requests, NEW d \in Devices, NEW U \in SUBSET Updates, NEW behind,
             Ingest(q, d, U, behind), claim'[r] # claim[r]
      PROVE  FALSE
  <2>1. \/ claim' = [claim EXCEPT ![q] = [pc |-> "cleanup", device |-> d]]
        \/ claim' = [claim EXCEPT ![q] = Answered({})]
    BY <1>5 DEF Ingest
  <2> QED
    BY <1>5, <2>1 DEF TypeOK, Answered
<1> QED
  BY <1>1, <1>2, <1>3, <1>4, <1>5
  DEF Next, vars, CreateRead, CreateInsert, Cancel, CancelInstallation, CancelJobs, List,
      Report, BecomeDue, PassDeadline, BecomeStale, ChangeDevice

\* The inductive invariant.
LEMMA InvStep == IInv /\ [Next]_vars => IInv'
<1> SUFFICES ASSUME IInv, [Next]_vars PROVE IInv'
  OBVIOUS
<1>1. TypeOK' /\ OneOpenJobPerDevice'
  BY TypeStep, OneOpenStep DEF IInv
<1>2. NothingBeforeItsTime'
  <2> SUFFICES ASSUME NEW j \in Jobs, clock'[j] = "early"
               PROVE  state'[j] \in {"absent", "pending", "cancelled"}
    BY DEF NothingBeforeItsTime, Jobs
  <2> QED
    BY ClockStep, EarlyStep DEF IInv, NothingBeforeItsTime
<1>3. ClaimsAreDue'
  <2> SUFFICES ASSUME NEW r \in Requests, claim'[r].pc \in {"deliver", "resolve", "close"}
               PROVE  clock'[claim'[r].job] # "early" /\ state'[claim'[r].job] # "absent"
    BY DEF ClaimsAreDue
  <2>1. CASE /\ claim'[r].job \in Jobs
             /\ clock[claim'[r].job] = "due" /\ UNCHANGED clock
             /\ state[claim'[r].job] # "absent"
    BY <2>1, RowsStay DEF IInv
  <2>2. CASE claim[r].pc \in {"deliver", "resolve", "close"} /\ claim'[r].job = claim[r].job
    <3>1. /\ claim[r].job \in Jobs
          /\ clock[claim[r].job] # "early"
          /\ state[claim[r].job] # "absent"
      BY <2>2, ClaimByPc DEF IInv, TypeOK, ClaimsAreDue
    <3>2. clock'[claim[r].job] # "early"
      BY <3>1, ClockStep DEF IInv
    <3>3. state'[claim[r].job] # "absent"
      BY <3>1, RowsStay DEF IInv
    <3> QED
      BY <2>2, <3>2, <3>3
  <2> QED
    BY <2>1, <2>2, ClaimJobStep DEF IInv
<1> QED
  BY <1>1, <1>2, <1>3 DEF IInv

\* IInv holds throughout.
LEMMA Invariant == Spec => []IInv
<1>1. Init => IInv
  <2> SUFFICES ASSUME Init PROVE IInv
    OBVIOUS
  <2>1. TypeOK
    BY ClaimRecords DEF Init, TypeOK, IdleDialog, DialogStates
  <2>2. ClaimsAreDue
    BY DEF Init, ClaimsAreDue, IdleClaim
  <2> QED
    BY <2>1, <2>2 DEF Init, IInv, OneOpenJobPerDevice, NothingBeforeItsTime, Open
<1> QED
  BY <1>1, InvStep, PTL DEF Spec

\* The agent gets nothing before its time: a job that is not due is pending or was
\* cancelled, whatever claims, cancellations and reports overlap.
THEOREM NotBeforeItsTime == Spec => []NothingBeforeItsTime
<1>1. IInv => NothingBeforeItsTime
  BY DEF IInv
<1> QED
  BY <1>1, Invariant, PTL

-----------------------------------------------------------------------------
(* Closed jobs.                                                            *)

\* A closed job changes its state only by the write of a claim that selected it
\* while it was open.
THEOREM ClosedStays == Spec => ClosedChangesOnlyByClaim
<1> DEFINE ByClaim(j) == \E r \in Requests : /\ claim[r].pc \in {"deliver", "close"}
                                             /\ claim[r].job = j
                                             /\ claim'[r] # claim[r]
           Guarded == \A j \in Jobs :
                        state[j] \in Closed /\ state'[j] # state[j] => ByClaim(j)
<1>1. TypeOK /\ [Next]_vars => Guarded
  <2> SUFFICES ASSUME TypeOK, [Next]_vars, NEW j \in Jobs,
                      state[j] \in Closed, state'[j] # state[j]
               PROVE  ByClaim(j)
    OBVIOUS
  <2>1. ASSUME NEW a \in Admins, NEW i \in Installations, NEW I \in SUBSET Devices,
               CreateInsert(a, i, I)
        PROVE  FALSE
    BY <2>1 DEF CreateInsert, Closed, Jobs
  <2>2. ASSUME NEW r \in Requests, ClaimDeliver(r) \/ ClaimClose(r) PROVE ByClaim(j)
    <3>1. claim[r].job = j
      BY <2>2 DEF ClaimDeliver, ClaimClose, TypeOK
    <3>2. claim[r].pc \in {"deliver", "close"}
      BY <2>2 DEF ClaimDeliver, ClaimClose
    <3>3. claim'[r].pc \in {"resolve", "answer"}
      <4>1. CASE ClaimDeliver(r)
        <5>1. claim' = [claim EXCEPT ![r].pc = "resolve"]
          BY <4>1 DEF ClaimDeliver
        <5>2. claim[r] = [pc |-> "deliver", job |-> claim[r].job]
          BY <4>1, ClaimByPc DEF ClaimDeliver, TypeOK
        <5>3. claim'[r] = [claim[r] EXCEPT !.pc = "resolve"]
          BY <5>1 DEF TypeOK
        <5> QED
          BY <5>2, <5>3
      <4>2. CASE ClaimClose(r)
        BY <4>2 DEF ClaimClose, TypeOK, Answered
      <4> QED
        BY <2>2, <4>1, <4>2
    <3> QED
      BY <3>1, <3>2, <3>3
  <2>3. ASSUME NEW J, CancelJobs(J) PROVE FALSE
    BY <2>3 DEF CancelJobs, Undelivered, Closed
  <2>4. ASSUME NEW J, Cleanup(J) PROVE FALSE
    BY <2>4, CleanedUpCloses DEF Cleanup
  <2>5. ASSUME NEW k \in Jobs, NEW s \in {"running", "done", "failed"}, Report(k, s)
        PROVE  FALSE
    BY <2>5 DEF Report, Reportable, TypeOK, Closed
  <2> QED
    BY <2>1, <2>2, <2>3, <2>4, <2>5
    DEF Next, vars, CreateRead, Cancel, CancelInstallation, List, Ingest, ClaimCleanup,
        ClaimSelect, ClaimResolve, Respond, BecomeDue, PassDeadline, BecomeStale,
        ChangeDevice
<1> QED
  BY <1>1, TypeCorrect, PTL DEF Spec, ClosedChangesOnlyByClaim

-----------------------------------------------------------------------------
(* The table implements JobSlot.                                           *)

\* A step that opens no job, and after which no closed one is anything else, gives
\* up the places of the jobs it closes.
LEMMA ReleaseStep ==
  ASSUME \A j \in Jobs : /\ state[j] \in Open => state'[j] \in Open \cup Closed
                         /\ state[j] \in Closed => state'[j] \in Closed
                         /\ state[j] \notin Open \cup Closed => state'[j] = state[j]
  PROVE  Slot!Next
<1> DEFINE J == {j \in Jobs : state[j] \in Open /\ state'[j] \in Closed}
<1>1. Jobs' = Jobs /\ Open' = Open /\ Closed' = Closed
  BY DEF Jobs, Open, Closed
<1>2. Open \cap Closed = {}
  BY DEF Open, Closed
<1>3. Slot!Release(J)
  BY <1>1, <1>2 DEF Slot!Release
<1> QED
  <2>1. J \in SUBSET Jobs
    OBVIOUS
  <2> QED
    BY <1>3, <2>1, Zenon DEF Slot!Next, Slot!FinalNext, Slot!Release

\* A claim that writes its job delivers one that is open, or takes a place nobody has
\* taken meanwhile.
LEMMA DeliverStep ==
  ASSUME TypeOK, ClaimsAreDue, NEW r \in Requests, ClaimDeliver(r)
  PROVE  Slot!Next
<1> DEFINE job == claim[r].job
<1>1. job \in Jobs /\ state[job] \in Open \cup Closed
  BY ClaimByPc DEF ClaimDeliver, ClaimsAreDue, TypeOK
<1>2. CASE state' # state /\ state[job] \in Closed
  <2>1. /\ OpenJobs(Device(job)) \ {job} = {}
        /\ \A j \in Jobs : state'[j] = IF j = job THEN "delivered" ELSE state[j]
    BY <1>2 DEF ClaimDeliver, TypeOK
  <2>2. "delivered" \in Open /\ "delivered" \notin Closed /\ Open \cap Closed = {}
    BY DEF Open, Closed
  <2>3. Jobs' = Jobs /\ Open' = Open /\ Closed' = Closed
    BY DEF Jobs, Open, Closed
  <2>4. \A j \in Jobs : state[j] \in Open => Device(j) # Device(job)
    BY <1>2, <2>1, <2>2 DEF OpenJobs
  <2>5. Slot!Retake(job)
    BY <1>1, <1>2, <2>1, <2>2, <2>3, <2>4 DEF Slot!Retake, Slot!Vacant
  <2> QED
    BY <1>1, <2>5 DEF Slot!Next, Slot!Retake
<1>3. CASE state' = state \/ state[job] \in Open
  <2>1. \A j \in Jobs : \/ state'[j] = state[j]
                        \/ state[j] \in Open /\ state'[j] = "delivered"
    BY <1>3 DEF ClaimDeliver, TypeOK
  <2> QED
    BY <2>1, ReleaseStep DEF Open, Closed
<1> QED
  BY <1>1, <1>2, <1>3

\* The rows create() inserts take places that are vacant.
LEMMA InsertStep ==
  ASSUME NEW a \in Admins, NEW i \in Installations, NEW I \in SUBSET Devices,
         TypeOK, CreateInsert(a, i, I)
  PROVE  Slot!Next
<1> DEFINE rows == {i} \X Insertable(dialog[a].devices)
<1>1. /\ \A j \in Jobs : state'[j] = IF j \in rows THEN "pending" ELSE state[j]
      /\ \A d \in Devices : state[<<i, d>>] = "absent"
  BY DEF CreateInsert
<1>2. Insertable(dialog[a].devices) \subseteq Devices
  BY DEF CreateInsert, Insertable, TypeOK, DialogStates, IdleDialog
<1>3. rows \subseteq Jobs /\ \A j \in rows : state[j] = "absent"
  BY <1>1, <1>2 DEF Jobs
<1>4. /\ Jobs' = Jobs /\ Open' = Open /\ Closed' = Closed
      /\ "pending" \in Open /\ "pending" \notin Closed
      /\ "absent" \notin Open /\ "absent" \notin Closed
  BY DEF Jobs, Open, Closed
<1>5. \A j \in rows : /\ \A k \in Jobs : state[k] \in Open => Device(k) # Device(j)
                      /\ \A k \in rows : Device(k) = Device(j) => k = j
  BY DEF Insertable, OpenJobs, Device
<1>6. Slot!Take(rows)
  BY <1>1, <1>3, <1>4, <1>5 DEF Slot!Take, Slot!Vacant
<1> QED
  <2> HIDE DEF rows
  <2>1. rows \in SUBSET Jobs
    BY <1>3
  <2> QED
    BY <1>6, <2>1, Zenon DEF Slot!Next, Slot!FinalNext, Slot!Take

\* The table of install jobs is a JobSlot: no statement, whatever it overlaps with,
\* lets a job into a place that is taken.
THEOREM TableIsSlot == Spec => ImplementsSlot
<1>1. Init => Slot!Init
  BY DEF Init, Slot!Init, Open, Closed
<1>2. IInv /\ [Next]_vars => [Slot!Next]_Slot!vars
  <2> SUFFICES ASSUME IInv, [Next]_vars PROVE Slot!Next
    OBVIOUS
  <2>1. ASSUME NEW J, CancelJobs(J) PROVE Slot!Next
    BY <2>1, ReleaseStep DEF CancelJobs, Undelivered, Open, Closed
  <2>2. ASSUME NEW J, Cleanup(J) PROVE Slot!Next
    <3>1. \A j \in Jobs : \/ CleanedUp(j) = state[j]
                          \/ state[j] \in Open /\ CleanedUp(j) \in Closed
      BY DEF CleanedUp, Interrupted, Undelivered, Open, Closed
    <3> QED
      BY <2>2, <3>1, ReleaseStep DEF Cleanup
  <2>3. ASSUME NEW r \in Requests, ClaimClose(r) PROVE Slot!Next
    <3>1. claim[r].job \in Jobs /\ state[claim[r].job] # "absent"
      BY <2>3, ClaimByPc DEF ClaimClose, IInv, TypeOK, ClaimsAreDue
    <3> QED
      BY <2>3, <3>1, ReleaseStep DEF ClaimClose, IInv, TypeOK, Closed
  <2>4. ASSUME NEW j \in Jobs, NEW s \in {"running", "done", "failed"}, Report(j, s)
        PROVE  Slot!Next
    BY <2>4, ReleaseStep DEF Report, Reportable, IInv, TypeOK, Open, Closed
  <2>5. CASE UNCHANGED state
    BY <2>5, ReleaseStep
  <2> QED
    BY <2>1, <2>2, <2>3, <2>4, <2>5, InsertStep, DeliverStep
    DEF Next, IInv, vars, CreateRead, Cancel, CancelInstallation, List, Ingest, ClaimCleanup,
        ClaimSelect, ClaimResolve, Respond, BecomeDue, PassDeadline, BecomeStale,
        ChangeDevice
<1> QED
  BY <1>1, <1>2, Invariant, PTL DEF Spec, ImplementsSlot, Slot!Spec

\* A table that implements JobSlot never has two open jobs of one device, and no job that is
\* open and over: that is what the unique index is relied on for.
THEOREM SlotIsExclusive == Slot!Spec => []Slot!Exclusive
<1>1. Slot!Init => Slot!Exclusive
  BY DEF Slot!Init, Slot!Exclusive
<1>2. Slot!Exclusive /\ [Slot!Next]_Slot!vars => Slot!Exclusive'
  <2> SUFFICES ASSUME Slot!Exclusive, [Slot!Next]_Slot!vars PROVE Slot!Exclusive'
    OBVIOUS
  <2>1. ASSUME NEW J \in SUBSET Jobs, Slot!Take(J) PROVE Slot!Exclusive'
    BY <2>1 DEF Slot!Take, Slot!Vacant, Slot!Exclusive
  <2>2. ASSUME NEW J \in SUBSET Jobs, Slot!Release(J) PROVE Slot!Exclusive'
    BY <2>2 DEF Slot!Release, Slot!Exclusive
  <2>3. ASSUME NEW j \in Jobs, Slot!Retake(j) PROVE Slot!Exclusive'
    BY <2>3 DEF Slot!Retake, Slot!Vacant, Slot!Exclusive
  <2>4. CASE UNCHANGED Slot!vars
    BY <2>4 DEF Slot!vars, Slot!Exclusive
  <2> QED
    BY <2>1, <2>2, <2>3, <2>4 DEF Slot!Next, Slot!FinalNext
<1> QED
  BY <1>1, <1>2, PTL DEF Slot!Spec

-----------------------------------------------------------------------------
(* Agent and table.                                                        *)

\* A job that was handed out at some time.
Out(j) == state[j] \notin {"absent", "pending"}

\* The backend answers with jobs it has handed out ...
ClaimsAreOut ==
  \A r \in Requests :
    /\ claim[r].pc \in {"resolve", "close"} => Out(claim[r].job)
    /\ claim[r].pc = "answer" => \A j \in claim[r].jobs : Out(j)

\* ... and the agent knows no others.
AgentKnows ==
  /\ \A m \in marker : Out(m.job)
  /\ cycle.pc \in {"outcome", "accept"} => \A j \in cycle.jobs : Out(j)

\* Queued snapshots were collected after the moments they are compared with.
SnapshotsAreOurs == \A s \in queue : s.late \subseteq StaleJobs(Self)

Starting(j) == cycle = [pc |-> "start", job |-> j]
Busy(j) == Installing(j) \/ Starting(j)

\* While a job is started, installed and reported, the marker is its marker.
Phases ==
  /\ \A j \in Jobs : Starting(j) => /\ run = NoRun
                                    /\ marker = Mark(j, "running")
                                    /\ runs[j] < MaxRuns
  /\ \A j \in Jobs : Installing(j) => marker = Mark(j, "running")
  /\ run.phase = "reporting" =>
       marker = Mark(run.job, "done") \/ marker = Mark(run.job, "failed")

\* Of a job that was started, or whose start is still to be reported, the agent
\* holds the marker until it is closed.
Owed ==
  \A j \in OwnJobs \ reopened :
    runs[j] >= 1 \/ (\E m \in late : m.job = j /\ m.state = "running")
      => Marked(j) \/ state[j] \in Closed

\* A job that is not running either never was, or is on the agent's mind.
Fresh ==
  \A j \in OwnJobs \ reopened :
    state[j] \in {"absent", "pending", "delivered"} => age[j] = "unstarted" \/ Marked(j)

SeenStarted == \A j \in Jobs : seen[j] => age[j] # "unstarted"

\* No snapshot collected hours after the start of a job reaches the backend, or
\* waits to, while the agent is busy with it.
BusyUnseen ==
  \A j \in OwnJobs \ reopened :
    Busy(j) /\ state[j] \in {"delivered", "running"}
      => ~seen[j] /\ \A s \in queue : j \notin s.late

\* A job that is started again is one the backend has closed.
StartIsFirst ==
  \A j \in OwnJobs \ reopened : Starting(j) /\ runs[j] >= 1 => state[j] \in Closed

SInv ==
  /\ IInv
  /\ SysTypeOK
  /\ ClaimsAreOut
  /\ AgentKnows
  /\ SnapshotsAreOurs
  /\ Phases
  /\ RunningIsBacked
  /\ Owed
  /\ Fresh
  /\ SeenStarted
  /\ BusyUnseen
  /\ StartIsFirst

-----------------------------------------------------------------------------
(* The backend's part of a step.                                           *)

\* A report and its answer: the report is taken, or it changes nothing and is refused,
\* lost or still under way.
LEMMA PostOutcome ==
  ASSUME NEW j \in Jobs, NEW s, NEW answer \in Answers, Post(j, s, answer)
  PROVE  \/ Report(j, s) /\ late' = late /\ answer # "gone"
         \/ /\ UNCHANGED vars /\ answer # "ok"
            /\ answer = "gone" => ~Reportable(j)
            /\ \/ late' = late
               \/ answer = "error" /\ late' = late \cup {[job |-> j, state |-> s]}
BY DEF Post, Answers

\* What the agent reports is about its job and in a state the backend knows.
LEMMA Reports ==
  ASSUME SInv
  PROVE  /\ \A m \in marker \cup late : m.job \in Jobs /\ m.state \in {"running", "done", "failed"}
         /\ \A m \in marker \cup late : m = [job |-> m.job, state |-> m.state]
         /\ cycle.pc = "start" => cycle.job \in Jobs /\ cycle = [pc |-> "start", job |-> cycle.job]
BY DEF SInv, SysTypeOK, IdleCycle

\* Every step of the system is a step of the backend or leaves it alone.
LEMMA BackendSees == SInv /\ [SysNext]_sysVars => [Next]_vars
<1> SUFFICES ASSUME SInv, [SysNext]_sysVars PROVE [Next]_vars
  OBVIOUS
<1> DEFINE Results == {"running", "done", "failed"}
<1>1. ASSUME NEW j \in Jobs, NEW s \in Results, Report(j, s) PROVE Next
  BY <1>1 DEF Next
<1>2. ASSUME NEW j \in Jobs, NEW s \in Results, NEW answer \in Answers, Post(j, s, answer)
      PROVE  [Next]_vars
  BY <1>1, <1>2, PostOutcome
<1>3. CASE Backend
  BY <1>3 DEF Backend, Server, Next
<1>4. CASE Agent
  <2>1. ASSUME NEW r \in Requests, Send(r) PROVE [Next]_vars
    <3>1. PICK s \in queue : Ingest(r, Self, s.updates, s.late)
      BY <2>1 DEF Send
    <3>2. s.updates \in SUBSET Updates /\ s.late \in SUBSET StaleJobs(Self) /\ Self \in Devices
      BY SelfAssumption DEF SInv, SysTypeOK, SnapshotsAreOurs
    <3> QED
      BY <3>1, <3>2 DEF Next
  <2>2. CASE Receive
    <3>1. cycle.request \in Requests
      BY <2>2 DEF Receive, SInv, SysTypeOK, IdleCycle
    <3> QED
      BY <2>2, <3>1 DEF Receive, Next
  <2>3. ASSUME NEW answer \in Answers, ReportOutcome(answer) PROVE [Next]_vars
    BY <2>3, <1>2, Reports DEF ReportOutcome
  <2>4. ASSUME NEW answer \in Answers, Start(answer) PROVE [Next]_vars
    BY <2>4, <1>2, Reports DEF Start
  <2>5. ASSUME NEW answer \in Answers, RunReport(answer) PROVE [Next]_vars
    BY <2>5, <1>2, Reports DEF RunReport
  <2> QED
    BY <1>4, <2>1, <2>2, <2>3, <2>4, <2>5
    DEF Agent, Own, CycleStart, SendFails, ReceiveFails, MarkInterrupted, NoOutcome,
        AcceptLater, AcceptNeedsReboot, Accept, Install, Crash
<1>5. CASE Outside
  <2>1. ASSUME NEW r \in Requests, Unheard(r) PROVE [Next]_vars
    BY <2>1 DEF Unheard, Next
  <2>2. ASSUME NEW m \in late, LateReport(m) PROVE [Next]_vars
    BY <2>2, <1>1, Reports DEF LateReport
  <2> QED
    BY <1>5, <2>1, <2>2 DEF Outside, Own, Offer
<1>6. CASE UNCHANGED sysVars
  BY <1>6 DEF sysVars
<1> QED
  BY <1>3, <1>4, <1>5, <1>6 DEF SysNext

-----------------------------------------------------------------------------
(* What a step of the backend does to a job.                               *)

\* A job that was handed out is never waiting again.
LEMMA OutStays ==
  ASSUME TypeOK, [Next]_vars, NEW j \in Jobs, Out(j)
  PROVE  Out(j)'
<1> USE DEF Out
<1>1. ASSUME NEW a \in Admins, NEW i \in Installations, NEW I \in SUBSET Devices,
             CreateInsert(a, i, I)
      PROVE  Out(j)'
  BY <1>1 DEF CreateInsert, Jobs
<1>2. ASSUME NEW r \in Requests, ClaimDeliver(r) \/ ClaimClose(r) PROVE Out(j)'
  BY <1>2 DEF ClaimDeliver, ClaimClose, TypeOK
<1>3. ASSUME NEW J, CancelJobs(J) \/ Cleanup(J) PROVE Out(j)'
  <2>1. CleanedUp(j) \notin {"absent", "pending"}
    BY DEF CleanedUp
  <2> QED
    BY <1>3, <2>1 DEF CancelJobs, Cleanup
<1>4. ASSUME NEW k \in Jobs, NEW s \in {"running", "done", "failed"}, Report(k, s)
      PROVE  Out(j)'
  BY <1>4 DEF Report, TypeOK
<1>5. CASE UNCHANGED state
  BY <1>5
<1> QED
  BY <1>1, <1>2, <1>3, <1>4, <1>5
  DEF Next, vars, CreateRead, Cancel, CancelInstallation, List, Ingest, ClaimCleanup,
      ClaimSelect, ClaimResolve, Respond, BecomeDue, PassDeadline, BecomeStale,
      ChangeDevice

\* started_at is set once, by the first report.
LEMMA AgeStep ==
  ASSUME TypeOK, [Next]_vars, NEW j \in Jobs
  PROVE  /\ age[j] # "unstarted" => age'[j] # "unstarted"
         /\ age[j] = "unstarted" /\ age'[j] # "unstarted" => state'[j] \in {"running", "done", "failed"}
         /\ age[j] = "stale" => age'[j] = "stale"
<1> DEFINE Goal == /\ age[j] # "unstarted" => age'[j] # "unstarted"
                   /\ age[j] = "unstarted" /\ age'[j] # "unstarted"
                        => state'[j] \in {"running", "done", "failed"}
                   /\ age[j] = "stale" => age'[j] = "stale"
<1>1. ASSUME NEW k \in Jobs, NEW s \in {"running", "done", "failed"}, Report(k, s)
      PROVE  Goal
  BY <1>1 DEF Report, TypeOK
<1>2. ASSUME NEW k \in Jobs, BecomeStale(k) PROVE Goal
  BY <1>2 DEF BecomeStale, TypeOK
<1>3. CASE UNCHANGED age
  BY <1>3
<1> QED
  BY <1>1, <1>2, <1>3
  DEF Next, vars, CreateRead, CreateInsert, Cancel, CancelInstallation, CancelJobs, List,
      Ingest, ClaimCleanup, ClaimSelect, ClaimDeliver, ClaimResolve, ClaimClose, Respond,
      BecomeDue, PassDeadline, ChangeDevice

\* Claims go on to answer with what they have handed out.
LEMMA ClaimsOutStep ==
  ASSUME TypeOK, ClaimsAreOut, [Next]_vars
  PROVE  ClaimsAreOut'
<1> DEFINE Later(j) == state'[j] \notin {"absent", "pending"}
           Goal(r) == /\ claim'[r].pc \in {"resolve", "close"} => Later(claim'[r].job)
                      /\ claim'[r].pc = "answer" => \A j \in claim'[r].jobs : Later(j)
<1> SUFFICES ASSUME NEW r \in Requests
             PROVE  Goal(r)
  BY DEF ClaimsAreOut, Out
<1>0. \A j \in Jobs : Out(j) => Later(j)
  BY OutStays DEF Out
<1>1. CASE claim'[r] = claim[r]
  <2>1. CASE claim[r].pc \in {"resolve", "close"}
    BY <1>1, <2>1, <1>0, ClaimByPc DEF ClaimsAreOut, TypeOK
  <2>2. CASE claim[r].pc = "answer"
    <3>1. claim[r].jobs \subseteq Jobs
      BY <2>2 DEF TypeOK, ClaimStates, IdleClaim, Answered, Errored
    <3> QED
      BY <1>1, <2>2, <3>1, <1>0 DEF ClaimsAreOut, TypeOK
  <2> QED
    BY <1>1, <2>1, <2>2
<1>2. ASSUME NEW q \in Requests, ClaimDeliver(q), claim'[r] # claim[r] PROVE Goal(r)
  <2>1. q = r /\ claim[r] = [pc |-> "deliver", job |-> claim[r].job] /\ claim[r].job \in Jobs
    BY <1>2, ClaimByPc DEF ClaimDeliver, TypeOK
  <2>2. CASE state' = [state EXCEPT ![claim[r].job] = "delivered"]
             /\ claim' = [claim EXCEPT ![r].pc = "resolve"]
    <3>1. claim'[r] = [pc |-> "resolve", job |-> claim[r].job]
      BY <2>1, <2>2 DEF TypeOK
    <3> QED
      BY <2>1, <2>2, <3>1 DEF TypeOK, Out
  <2>3. CASE claim' = [claim EXCEPT ![r] = Errored]
    BY <2>3 DEF TypeOK, Errored
  <2> QED
    BY <1>2, <2>1, <2>2, <2>3 DEF ClaimDeliver
<1>3. ASSUME NEW q \in Requests, ClaimResolve(q), claim'[r] # claim[r] PROVE Goal(r)
  <2>1. /\ q = r /\ claim[r] = [pc |-> "resolve", job |-> claim[r].job]
        /\ claim[r].job \in Jobs /\ Later(claim[r].job)
    BY <1>3, ClaimByPc, <1>0 DEF ClaimResolve, TypeOK, ClaimsAreOut
  <2>2. \/ claim' = [claim EXCEPT ![r].pc = "close"]
        \/ claim' = [claim EXCEPT ![r] = Answered({claim[r].job})]
    BY <1>3, <2>1 DEF ClaimResolve
  <2>3. \/ claim'[r] = [pc |-> "close", job |-> claim[r].job]
        \/ claim'[r] = [pc |-> "answer", jobs |-> {claim[r].job}]
    BY <2>1, <2>2 DEF TypeOK, Answered
  <2>4. CASE claim'[r] = [pc |-> "close", job |-> claim[r].job]
    BY <2>1, <2>4
  <2>5. CASE claim'[r] = [pc |-> "answer", jobs |-> {claim[r].job}]
    BY <2>1, <2>5
  <2> QED
    BY <2>3, <2>4, <2>5
<1>4. ASSUME NEW q \in Requests, claim'[r] # claim[r],
             ClaimSelect(q) \/ ClaimClose(q) \/ Respond(q)
      PROVE  Goal(r)
  <2>1. \/ claim'[r] = IdleClaim
        \/ claim'[r] = Answered({})
        \/ \E j \in Jobs : claim'[r] = [pc |-> "deliver", job |-> j]
    BY <1>4 DEF ClaimSelect, Claimable, ClaimClose, Respond, TypeOK
  <2>2. CASE claim'[r] = IdleClaim
    BY <2>2 DEF IdleClaim
  <2>3. CASE claim'[r] = Answered({})
    BY <2>3 DEF Answered
  <2>4. ASSUME NEW j \in Jobs, claim'[r] = [pc |-> "deliver", job |-> j] PROVE Goal(r)
    BY <2>4
  <2> QED
    BY <2>1, <2>2, <2>3, <2>4
<1>5. ASSUME NEW q \in Requests, ClaimCleanup(q), claim'[r] # claim[r] PROVE Goal(r)
  <2>1. q = r /\ claim[r] = [pc |-> "cleanup", device |-> claim[r].device]
    BY <1>5, ClaimByPc DEF ClaimCleanup, TypeOK
  <2>2. claim'[r] = [pc |-> "select", device |-> claim[r].device]
    BY <1>5, <2>1 DEF ClaimCleanup, TypeOK
  <2> QED
    BY <2>2
<1>6. ASSUME NEW q \in Requests, NEW d \in Devices, NEW U \in SUBSET Updates, NEW L,
             Ingest(q, d, U, L), claim'[r] # claim[r]
      PROVE  Goal(r)
  <2>1. \/ claim'[r] = [pc |-> "cleanup", device |-> d]
        \/ claim'[r] = Answered({})
    BY <1>6 DEF Ingest, TypeOK
  <2> QED
    BY <2>1 DEF Answered
<1> QED
  BY <1>1, <1>2, <1>3, <1>4, <1>5, <1>6
  DEF Next, vars, CreateRead, CreateInsert, Cancel, CancelInstallation, CancelJobs, List,
      Report, BecomeDue, PassDeadline, BecomeStale, ChangeDevice

-----------------------------------------------------------------------------
(* Types and phases of the agent.                                          *)

\* A step of the backend leaves the agent alone.
LEMMA BackendQuiet == Backend \/ UNCHANGED sysVars => UNCHANGED agentVars
BY DEF Backend, Server, sysVars

\* What the agent is doing, and what it says of the job it does it for.
LEMMA Doing ==
  ASSUME SInv
  PROVE  /\ cycle.pc = "start" => Starting(cycle.job)
         /\ run.phase = "installing" => Installing(run.job) /\ run.job \in Jobs
         /\ run.phase = "reporting" => run = [phase |-> "reporting", job |-> run.job] /\ run.job \in Jobs
         /\ run.phase = "none" => run = NoRun
         /\ run.phase \in {"none", "installing", "reporting"}
BY Reports DEF SInv, SysTypeOK, Starting, Installing, NoRun

\* The agent's variables keep their types.
LEMMA SysTypeStep == SInv /\ [SysNext]_sysVars => SysTypeOK'
<1> SUFFICES ASSUME SInv, [SysNext]_sysVars PROVE SysTypeOK'
  OBVIOUS
<1> DEFINE Results == {"running", "done", "failed"}
           Cycles == {IdleCycle, [pc |-> "send"]}
                       \cup [pc : {"await"}, request : Requests]
                       \cup [pc : {"outcome", "accept"}, jobs : {{}} \cup {{j} : j \in Jobs}]
                       \cup [pc : {"start"}, job : Jobs]
           Runs == {NoRun} \cup [phase : {"installing", "reporting"}, job : Jobs]
           Notes(M) == \A m \in M : m \in [job : Jobs, state : Results]
           AgentTypes == /\ cycle \in Cycles
                         /\ run \in Runs
                         /\ Notes(marker)
                         /\ \A m, n \in marker : m = n
                         /\ \A s \in queue : s \in [updates : SUBSET Updates, late : SUBSET Jobs]
                         /\ avail \in SUBSET Updates
                         /\ Notes(late)
                         /\ runs \in [Jobs -> 0..MaxRuns]
                         /\ outcome \in [Jobs -> {"none", "done", "failed", "interrupted"}]
<1>1. TypeOK'
  BY BackendSees, TypeStep DEF SInv, IInv
<1>2. reopened' \subseteq Jobs
  <2>1. Reopening \/ UNCHANGED reopened
    BY DEF SysNext, Backend, Server, Agent, Outside, Own, sysVars
  <2> QED
    BY <2>1 DEF Reopening, Jobs, SInv, SysTypeOK
<1>3. AgentTypes
  BY DEF SInv, SysTypeOK
<1>4. SUFFICES AgentTypes'
  BY <1>1, <1>2 DEF SysTypeOK
<1>5. CASE Backend \/ UNCHANGED sysVars
  BY <1>3, <1>5, BackendQuiet DEF agentVars
<1>6. ASSUME NEW j \in Jobs, NEW s \in Results, NEW answer \in Answers, Post(j, s, answer)
      PROVE  Notes(late')
  BY <1>3, <1>6, PostOutcome
<1>7. \A j \in Jobs, s \in Results : Notes(Mark(j, s)) /\ \A m, n \in Mark(j, s) : m = n
  BY DEF Mark
<1>8. /\ IdleCycle \in Cycles /\ NoRun \in Runs
      /\ \A j \in Jobs : [pc |-> "start", job |-> j] \in Cycles
      /\ \A J \in {{}} \cup {{j} : j \in Jobs} :
           [pc |-> "outcome", jobs |-> J] \in Cycles /\ [pc |-> "accept", jobs |-> J] \in Cycles
      /\ \A j \in Jobs, p \in {"installing", "reporting"} : [phase |-> p, job |-> j] \in Runs
  OBVIOUS
<1>9. cycle.pc \in {"outcome", "accept"} => cycle.jobs \in {{}} \cup {{j} : j \in Jobs}
  BY <1>3 DEF IdleCycle
<1>10. cycle.pc \in {"outcome", "accept"} => AfterOutcome \in Cycles
  BY <1>8, <1>9 DEF AfterOutcome
<1>11. CASE CycleStart
  <2>1. Snapshot \in [updates : SUBSET Updates, late : SUBSET Jobs]
    BY <1>3 DEF Snapshot, StaleJobs
  <2> QED
    BY <1>3, <1>11, <2>1 DEF CycleStart
<1>12. ASSUME NEW r \in Requests, Send(r) PROVE AgentTypes'
  BY <1>3, <1>12 DEF Send
<1>13. CASE SendFails \/ ReceiveFails \/ AcceptLater
  BY <1>3, <1>13 DEF SendFails, ReceiveFails, AcceptLater
<1>14. CASE Receive
  <2>1. cycle.request \in Requests
    BY <1>3, <1>14 DEF Receive, IdleCycle
  <2>2. claim[cycle.request].jobs \in {{}} \cup {{j} : j \in Jobs}
    BY <1>14, <2>1 DEF Receive, SInv, IInv, TypeOK, ClaimStates, IdleClaim, Answered, Errored
  <2> QED
    BY <1>3, <1>8, <1>14, <2>2 DEF Receive
<1>15. CASE MarkInterrupted
  <2>1. PICK m \in marker : m.state = "running" /\ marker' = Mark(m.job, "failed")
    BY <1>15 DEF MarkInterrupted
  <2>2. m.job \in Jobs
    BY <1>3
  <2> QED
    BY <1>3, <1>7, <1>15, <2>1, <2>2 DEF MarkInterrupted
<1>16. ASSUME NEW answer \in Answers, ReportOutcome(answer) PROVE AgentTypes'
  <2>1. Notes(late')
    BY <1>6, <1>16, Reports DEF ReportOutcome
  <2>2. marker' \subseteq marker
    BY <1>16 DEF ReportOutcome, AfterReport
  <2> QED
    BY <1>3, <1>10, <1>16, <2>1, <2>2 DEF ReportOutcome
<1>17. CASE NoOutcome
  BY <1>3, <1>10, <1>17 DEF NoOutcome
<1>18. CASE AcceptNeedsReboot
  <2>1. PICK j \in cycle.jobs : marker' = Mark(j, "failed")
    BY <1>18 DEF AcceptNeedsReboot
  <2>2. j \in Jobs
    BY <1>9, <1>18 DEF AcceptNeedsReboot
  <2> QED
    BY <1>3, <1>7, <1>8, <1>18, <2>1, <2>2 DEF AcceptNeedsReboot
<1>19. CASE Accept
  <2>1. PICK j \in cycle.jobs : marker' = Mark(j, "running") /\ cycle' = [pc |-> "start", job |-> j]
    BY <1>19 DEF Accept
  <2>2. j \in Jobs
    BY <1>9, <1>19 DEF Accept
  <2> QED
    BY <1>3, <1>7, <1>8, <1>19, <2>1, <2>2 DEF Accept
<1>20. ASSUME NEW answer \in Answers, Start(answer) PROVE AgentTypes'
  <2>1. cycle.job \in Jobs /\ runs[cycle.job] < MaxRuns
    BY <1>20, Reports, Doing DEF Start, SInv, Phases
  <2>2. Notes(late')
    BY <1>6, <1>20, <2>1 DEF Start
  <2>3. runs' \in [Jobs -> 0..MaxRuns]
    BY <1>3, <1>20, <2>1, BoundsAssumption DEF Start
  <2>4. run' \in Runs /\ marker' \subseteq marker
    BY <1>3, <1>8, <1>20, <2>1 DEF Start
  <2> QED
    BY <1>3, <1>8, <1>20, <2>2, <2>3, <2>4 DEF Start
<1>21. ASSUME NEW result \in {"done", "failed"}, Install(result) PROVE AgentTypes'
  <2>1. run = [phase |-> "installing", job |-> run.job] /\ run.job \in Jobs
    BY <1>21, Doing DEF Install, Installing
  <2>2. run' = [phase |-> "reporting", job |-> run.job]
    BY <1>21, <2>1 DEF Install
  <2>3. avail' \in SUBSET Updates
    BY <1>3, <1>21 DEF Install
  <2> QED
    BY <1>3, <1>7, <1>8, <1>21, <2>1, <2>2, <2>3 DEF Install
<1>22. ASSUME NEW answer \in Answers, RunReport(answer) PROVE AgentTypes'
  <2>1. Notes(late')
    BY <1>6, <1>22, Reports DEF RunReport
  <2>2. marker' \subseteq marker
    BY <1>22 DEF RunReport, AfterReport
  <2> QED
    BY <1>3, <1>8, <1>22, <2>1, <2>2 DEF RunReport
<1>23. CASE Crash
  <2>1. run.phase = "installing" => run.job \in Jobs
    BY Doing
  <2> QED
    BY <1>3, <1>8, <1>23, <2>1 DEF Crash
<1>24. ASSUME NEW r \in Requests, Unheard(r) PROVE AgentTypes'
  BY <1>3, <1>24 DEF Unheard, agentVars
<1>25. ASSUME NEW m \in late, LateReport(m) PROVE AgentTypes'
  BY <1>3, <1>25 DEF LateReport
<1>26. ASSUME NEW u \in Updates, Offer(u) PROVE AgentTypes'
  BY <1>3, <1>26 DEF Offer
<1> QED
  BY <1>5, <1>11, <1>12, <1>13, <1>14, <1>15, <1>16, <1>17, <1>18, <1>19, <1>20, <1>21,
     <1>22, <1>23, <1>24, <1>25, <1>26
  DEF SysNext, Agent, Outside, Own

-----------------------------------------------------------------------------
(* The phases of a job, and what the agent knows.                          *)

\* A marker written by a step is that of the job the step is about.
LEMMA PhasesStep == SInv /\ [SysNext]_sysVars => Phases'
<1> SUFFICES ASSUME SInv, [SysNext]_sysVars PROVE Phases'
  OBVIOUS
<1>1. Phases /\ SysTypeOK
  BY DEF SInv
<1>2. Backend \/ UNCHANGED sysVars => Phases'
  BY <1>1, BackendQuiet DEF agentVars, Phases, Starting, Installing, NoRun, Mark
<1>3. ASSUME UNCHANGED <<run, marker, runs>>, cycle' = cycle \/ cycle'.pc # "start"
      PROVE  Phases'
  BY <1>1, <1>3 DEF Phases, Starting, Installing, NoRun, Mark
<1>4. cycle.pc \in {"outcome", "accept"} => AfterOutcome.pc # "start"
  BY DEF AfterOutcome, IdleCycle
<1>5. ASSUME CycleStart \/ SendFails \/ Receive \/ ReceiveFails \/ NoOutcome \/ AcceptLater
      PROVE  Phases'
  BY <1>3, <1>4, <1>5
  DEF CycleStart, SendFails, Receive, ReceiveFails, NoOutcome, AcceptLater, IdleCycle
<1>6. ASSUME NEW r \in Requests, Send(r) \/ Unheard(r) PROVE Phases'
  BY <1>3, <1>6 DEF Send, Unheard, agentVars
<1>7. CASE MarkInterrupted
  BY <1>1, <1>7 DEF MarkInterrupted, IsRunning, Phases, Starting, Installing, NoRun
<1>8. ASSUME NEW answer \in Answers, ReportOutcome(answer) PROVE Phases'
  <2>1. run' = NoRun /\ cycle'.pc # "start"
    BY <1>4, <1>8 DEF ReportOutcome, IsRunning
  <2> QED
    BY <2>1 DEF Phases, Starting, Installing, NoRun
<1>9. CASE AcceptNeedsReboot
  BY <1>9 DEF AcceptNeedsReboot, MayAccept, IsRunning, Phases, Starting, Installing, NoRun
<1>10. CASE Accept
  <2>1. PICK j \in cycle.jobs : /\ runs[j] < MaxRuns
                                /\ marker' = Mark(j, "running")
                                /\ cycle' = [pc |-> "start", job |-> j]
    BY <1>10 DEF Accept
  <2>2. run' = NoRun /\ runs' = runs
    BY <1>10 DEF Accept, MayAccept, IsRunning
  <2>3. \A k \in Jobs : Starting(k)' => k = j
    BY <2>1 DEF Starting
  <2> QED
    BY <2>1, <2>2, <2>3 DEF Phases, Installing, NoRun, Mark
<1>11. ASSUME NEW answer \in Answers, Start(answer) PROVE Phases'
  <2>1. /\ cycle.job \in Jobs /\ marker = Mark(cycle.job, "running") /\ run = NoRun
        /\ cycle'.pc = "idle"
    BY <1>1, <1>11, Doing, Reports DEF Start, Phases, IdleCycle
  <2>2. \/ run' = NoRun
        \/ run' = [phase |-> "installing", job |-> cycle.job] /\ marker' = marker
    BY <1>11, <2>1 DEF Start
  <2> QED
    BY <2>1, <2>2 DEF Phases, Starting, Installing, NoRun, Mark
<1>12. ASSUME NEW result \in {"done", "failed"}, Install(result) PROVE Phases'
  <2>1. run = [phase |-> "installing", job |-> run.job] /\ run.job \in Jobs
    BY <1>12, Doing DEF Install, Installing
  <2>2. run' = [phase |-> "reporting", job |-> run.job] /\ marker' = Mark(run.job, result)
    BY <1>12, <2>1 DEF Install
  <2>3. \A j \in Jobs : ~Starting(j)'
    BY <1>1, <1>12, <2>1 DEF Install, Phases, Starting, NoRun
  <2> QED
    BY <2>2, <2>3 DEF Phases, Installing, Mark
<1>13. ASSUME NEW answer \in Answers, RunReport(answer) PROVE Phases'
  <2>1. \A j \in Jobs : ~Starting(j)'
    BY <1>1, <1>13 DEF RunReport, Phases, Starting, NoRun
  <2> QED
    BY <1>13, <2>1 DEF RunReport, Phases, Installing, NoRun
<1>14. CASE Crash
  BY <1>14 DEF Crash, Phases, Starting, Installing, NoRun, IdleCycle
<1>15. ASSUME NEW m \in late, LateReport(m) PROVE Phases'
  BY <1>3, <1>15 DEF LateReport
<1>16. ASSUME NEW u \in Updates, Offer(u) PROVE Phases'
  BY <1>3, <1>16 DEF Offer
<1> QED
  BY <1>2, <1>5, <1>6, <1>7, <1>8, <1>9, <1>10, <1>11, <1>12, <1>13, <1>14, <1>15, <1>16
  DEF SysNext, Agent, Outside, Own

\* The agent learns of jobs only from answers, which name jobs that are out.
LEMMA KnowsStep == SInv /\ [SysNext]_sysVars => AgentKnows'
<1> SUFFICES ASSUME SInv, [SysNext]_sysVars PROVE AgentKnows'
  OBVIOUS
<1> DEFINE Later(j) == state'[j] \notin {"absent", "pending"}
           Marks == \A m \in marker' : Later(m.job)
           Asked == cycle'.pc \in {"outcome", "accept"} => \A j \in cycle'.jobs : Later(j)
<1>1. SUFFICES Marks /\ Asked
  BY DEF AgentKnows, Out
<1>2. \A j \in Jobs : Out(j) => Later(j)
  BY OutStays, BackendSees DEF SInv, SysTypeOK, Out
<1>3. \A m \in marker : Later(m.job)
  BY <1>2, Reports DEF SInv, AgentKnows
<1>4. cycle.pc \in {"outcome", "accept"} => \A j \in cycle.jobs : j \in Jobs /\ Later(j)
  <2>1. cycle.pc \in {"outcome", "accept"} => cycle.jobs \in {{}} \cup {{j} : j \in Jobs}
    BY DEF SInv, SysTypeOK, IdleCycle
  <2> QED
    BY <1>2, <2>1 DEF SInv, AgentKnows
<1>5. ASSUME marker' \subseteq marker,
             cycle'.pc \in {"outcome", "accept"} => cycle' = cycle \/ cycle'.jobs = {}
      PROVE  Marks /\ Asked
  BY <1>3, <1>4, <1>5
<1>6. cycle.pc = "outcome" => AfterOutcome.pc = "idle" \/ AfterOutcome.jobs = cycle.jobs
  BY DEF AfterOutcome, IdleCycle
<1>7. ASSUME marker' \subseteq marker, cycle.pc = "outcome", cycle' = AfterOutcome
      PROVE  Marks /\ Asked
  BY <1>3, <1>4, <1>6, <1>7
<1>8. CASE Backend \/ UNCHANGED sysVars
  BY <1>5, <1>8, BackendQuiet DEF agentVars
<1>9. CASE CycleStart \/ SendFails \/ ReceiveFails \/ AcceptLater \/ Crash
  BY <1>5, <1>9 DEF CycleStart, SendFails, ReceiveFails, AcceptLater, Crash, IdleCycle
<1>10. ASSUME NEW r \in Requests, Send(r) \/ Unheard(r) PROVE Marks /\ Asked
  BY <1>5, <1>10 DEF Send, Unheard, agentVars
<1>11. CASE Receive
  <2>1. cycle.request \in Requests
    BY <1>11 DEF Receive, SInv, SysTypeOK, IdleCycle
  <2>2. \A j \in claim[cycle.request].jobs : j \in Jobs /\ Out(j)
    BY <1>11, <2>1 DEF Receive, SInv, IInv, TypeOK, ClaimStates, IdleClaim, Answered, Errored,
                       ClaimsAreOut
  <2> QED
    BY <1>2, <1>3, <1>11, <2>2 DEF Receive
<1>12. CASE MarkInterrupted
  BY <1>3, <1>4, <1>12 DEF MarkInterrupted, Mark
<1>13. ASSUME NEW answer \in Answers, ReportOutcome(answer) PROVE Marks /\ Asked
  BY <1>7, <1>13 DEF ReportOutcome, AfterReport
<1>14. CASE NoOutcome
  BY <1>7, <1>14 DEF NoOutcome
<1>15. CASE AcceptNeedsReboot \/ Accept
  BY <1>4, <1>15 DEF AcceptNeedsReboot, Accept, Mark
<1>16. ASSUME NEW answer \in Answers, Start(answer) PROVE Marks /\ Asked
  <2>1. marker' \subseteq marker
    BY <1>16 DEF Start
  <2> QED
    BY <1>5, <1>16, <2>1 DEF Start, IdleCycle
<1>17. ASSUME NEW result \in {"done", "failed"}, Install(result) PROVE Marks /\ Asked
  <2>1. run.job \in Jobs /\ Later(run.job)
    <3>1. run.job \in Jobs /\ marker = Mark(run.job, "running")
      BY <1>17, Doing DEF Install, SInv, Phases
    <3>2. [job |-> run.job, state |-> "running"] \in marker
      BY <3>1 DEF Mark
    <3> QED
      BY <1>3, <3>1, <3>2
  <2> QED
    BY <1>4, <1>17, <2>1 DEF Install, Mark
<1>18. ASSUME NEW answer \in Answers, RunReport(answer) PROVE Marks /\ Asked
  BY <1>5, <1>18 DEF RunReport, AfterReport
<1>19. ASSUME NEW m \in late, LateReport(m) PROVE Marks /\ Asked
  BY <1>5, <1>19 DEF LateReport
<1>20. ASSUME NEW u \in Updates, Offer(u) PROVE Marks /\ Asked
  BY <1>5, <1>20 DEF Offer
<1> QED
  BY <1>8, <1>9, <1>10, <1>11, <1>12, <1>13, <1>14, <1>15, <1>16, <1>17, <1>18, <1>19, <1>20
  DEF SysNext, Agent, Outside, Own

\* A step queues a snapshot of the present, or keeps what was queued.
LEMMA QueueStep ==
  ASSUME [SysNext]_sysVars, NEW s \in queue'
  PROVE  s \in queue \/ (s = Snapshot /\ CycleStart /\ MayCollect)
<1>1. CASE CycleStart
  BY <1>1 DEF CycleStart
<1>2. CASE queue' \subseteq queue
  BY <1>2
<1> QED
  BY <1>1, <1>2, BackendQuiet
  DEF SysNext, Agent, Outside, Own, agentVars, Send, SendFails, Receive, ReceiveFails, Unheard,
      MarkInterrupted, ReportOutcome, NoOutcome, AcceptLater, AcceptNeedsReboot, Accept, Start,
      Install, RunReport, Crash, LateReport, Offer

\* What was stale when a snapshot was collected is stale.
LEMMA SnapshotsStep == SInv /\ [SysNext]_sysVars => SnapshotsAreOurs'
<1> SUFFICES ASSUME SInv, [SysNext]_sysVars, NEW s \in queue'
             PROVE  s.late \subseteq StaleJobs(Self)'
  BY DEF SnapshotsAreOurs
<1>1. StaleJobs(Self) \subseteq StaleJobs(Self)'
  <2>1. \A j \in Jobs : age[j] = "stale" => age'[j] = "stale"
    BY AgeStep, BackendSees DEF SInv, SysTypeOK
  <2> QED
    BY <2>1 DEF StaleJobs, Jobs, Device
<1>2. s.late \subseteq StaleJobs(Self)
  BY QueueStep DEF SInv, SnapshotsAreOurs, Snapshot
<1> QED
  BY <1>1, <1>2

-----------------------------------------------------------------------------
(* What a step may do to what the invariants relate.                       *)

\* A job becomes running by the report of its start or by a late one.
LEMMA NewlyRunning ==
  ASSUME SInv, [SysNext]_sysVars, NEW j \in Jobs, state'[j] = "running", state[j] # "running"
  PROVE  \/ Starting(j) /\ Installing(j)'
         \/ \E m \in late : m.job = j /\ m.state = "running"
<1> DEFINE Goal == \/ Starting(j) /\ Installing(j)'
                   \/ \E m \in late : m.job = j /\ m.state = "running"
<1>1. ASSUME NEW k \in Jobs, NEW s, Report(k, s) PROVE k = j /\ s = "running"
  BY <1>1 DEF Report, SInv, SysTypeOK, TypeOK
<1>2. state' # state
  OBVIOUS
<1>3. ASSUME NEW k \in Jobs, NEW s, NEW answer \in Answers, Post(k, s, answer)
      PROVE  k = j /\ s = "running" /\ answer # "gone"
  <2>1. Report(k, s) /\ answer # "gone"
    BY <1>2, <1>3, PostOutcome DEF vars
  <2> QED
    BY <1>1, <2>1
<1>4. ASSUME NEW answer \in Answers, Start(answer) PROVE Goal
  <2>1. cycle.job = j /\ answer # "gone"
    BY <1>3, <1>4, Reports DEF Start
  <2>2. Starting(j)
    BY <1>4, <2>1, Doing DEF Start
  <2>3. run' = [phase |-> "installing", job |-> j]
    BY <1>4, <2>1 DEF Start
  <2> QED
    BY <2>2, <2>3 DEF Installing
<1>5. ASSUME NEW answer \in Answers, ReportOutcome(answer) PROVE FALSE
  BY <1>3, <1>5, Reports DEF ReportOutcome
<1>6. ASSUME NEW answer \in Answers, RunReport(answer) PROVE FALSE
  <2>1. \A m \in marker : m.state # "running"
    BY <1>6 DEF RunReport, SInv, Phases, Mark
  <2> QED
    BY <1>3, <1>6, <2>1, Reports DEF RunReport
<1>7. ASSUME NEW m \in late, LateReport(m) PROVE Goal
  <2>1. Report(m.job, m.state)
    BY <1>2, <1>7 DEF LateReport, vars
  <2> QED
    BY <1>1, <2>1, Reports
<1>8. CASE Backend
  <2>1. ASSUME NEW a \in Admins, NEW i \in Installations, NEW I \in SUBSET Devices,
               CreateInsert(a, i, I)
        PROVE  FALSE
    BY <2>1 DEF CreateInsert
  <2>2. ASSUME NEW r \in Requests, ClaimDeliver(r) \/ ClaimClose(r) PROVE FALSE
    BY <2>2 DEF ClaimDeliver, ClaimClose, SInv, SysTypeOK, TypeOK
  <2>3. ASSUME NEW J, CancelJobs(J) \/ Cleanup(J) PROVE FALSE
    BY <2>3 DEF CancelJobs, Cleanup, CleanedUp
  <2> QED
    BY <1>2, <1>8, <2>1, <2>2, <2>3
    DEF Backend, Server, CreateRead, Cancel, List, ClaimCleanup, ClaimSelect, ClaimResolve,
        BecomeDue, PassDeadline, BecomeStale
<1> QED
  BY <1>2, <1>4, <1>5, <1>6, <1>7, <1>8
  DEF SysNext, Agent, Outside, Own, sysVars, vars, CycleStart, Send, Ingest, SendFails, Receive,
      Respond, ReceiveFails, Unheard, MarkInterrupted, NoOutcome, AcceptLater,
      AcceptNeedsReboot, Accept, Install, Crash, Offer

\* A report that the backend took or did not want has closed its job.
LEMMA SettledCloses ==
  ASSUME SInv, NEW j \in Jobs, Out(j), NEW s \in {"running", "done", "failed"},
         NEW answer \in Answers, answer # "error", Post(j, s, answer),
         s = "running" => answer = "gone"
  PROVE  state'[j] \in Closed
<1>1. CASE Report(j, s) /\ answer # "gone"
  BY <1>1 DEF Report, SInv, SysTypeOK, TypeOK, Closed
<1>2. CASE UNCHANGED vars /\ ~Reportable(j)
  BY <1>2 DEF vars, Reportable, Out, SInv, SysTypeOK, TypeOK, Open, Closed
<1> QED
  BY <1>1, <1>2, PostOutcome DEF Answers

\* A marker stays until its job is closed.
LEMMA MarkStays ==
  ASSUME SInv, [SysNext]_sysVars, NEW j \in Jobs, Marked(j)
  PROVE  Marked(j)' \/ state'[j] \in Closed
<1> DEFINE Goal == Marked(j)' \/ state'[j] \in Closed
<1>1. PICK m \in marker : m.job = j
  BY DEF Marked
<1>2. marker = {m} /\ Out(j) /\ m.state \in {"running", "done", "failed"}
  BY <1>1, Reports DEF SInv, SysTypeOK, AgentKnows
<1>3. CASE UNCHANGED marker
  BY <1>3 DEF Marked
<1>4. CASE MarkInterrupted
  BY <1>1, <1>2, <1>4 DEF MarkInterrupted, Marked, Mark
<1>5. ASSUME NEW answer \in Answers, ReportOutcome(answer) \/ RunReport(answer) PROVE Goal
  <2>1. m.state # "running" /\ Post(j, m.state, answer)
    BY <1>1, <1>2, <1>5 DEF ReportOutcome, RunReport, SInv, Phases, Mark
  <2>2. CASE answer = "error"
    BY <1>3, <1>5, <2>2 DEF ReportOutcome, RunReport, AfterReport
  <2>3. CASE answer # "error"
    BY <1>2, <2>1, <2>3, SettledCloses
  <2> QED
    BY <2>2, <2>3
<1>6. ASSUME NEW answer \in Answers, Start(answer) PROVE Goal
  <2>1. CASE answer = "gone"
    <3>1. cycle.job = j
      BY <1>1, <1>6, Doing, Reports DEF Start, SInv, Phases, Mark
    <3> QED
      BY <1>2, <1>6, <2>1, <3>1, SettledCloses DEF Start
  <2>2. CASE answer # "gone"
    BY <1>3, <1>6, <2>2 DEF Start
  <2> QED
    BY <2>1, <2>2
<1>7. ASSUME NEW result \in {"done", "failed"}, Install(result) PROVE Goal
  <2>1. marker = Mark(run.job, "running") /\ marker' = Mark(run.job, result)
    BY <1>7, Doing DEF Install, SInv, Phases
  <2> QED
    BY <1>1, <2>1 DEF Marked, Mark
<1>8. CASE AcceptNeedsReboot \/ Accept
  BY <1>1, <1>8 DEF AcceptNeedsReboot, Accept, MayAccept
<1> QED
  BY <1>3, <1>4, <1>5, <1>6, <1>7, <1>8, BackendQuiet
  DEF SysNext, Agent, Outside, Own, agentVars, CycleStart, Send, SendFails, Receive, ReceiveFails,
      NoOutcome, AcceptLater, Crash, Unheard, LateReport, Offer

\* A job is started, and its start reported, in the step that begins to install it.
LEMMA Started ==
  ASSUME SInv, [SysNext]_sysVars, NEW j \in Jobs,
         \/ runs'[j] # runs[j]
         \/ \E m \in late' \ late : m.job = j /\ m.state = "running"
  PROVE  Starting(j) /\ Installing(j)'
<1> DEFINE Goal == Starting(j) /\ Installing(j)'
<1>1. ASSUME NEW k \in Jobs, NEW s, NEW answer \in Answers, Post(k, s, answer)
      PROVE  \A m \in late' \ late : m.job = k /\ m.state = s /\ answer = "error"
  BY <1>1, PostOutcome
<1>2. CASE UNCHANGED runs /\ \A m \in late' \ late : m.state # "running"
  BY <1>2
<1>3. ASSUME NEW answer \in Answers, Start(answer) PROVE Goal
  <2>1. cycle.job \in Jobs /\ Starting(cycle.job)
    BY <1>3, Reports, Doing DEF Start
  <2>2. answer # "gone" /\ cycle.job = j
    BY <1>1, <1>3, <2>1 DEF Start, SInv, SysTypeOK
  <2>3. run' = [phase |-> "installing", job |-> j]
    BY <1>3, <2>2 DEF Start
  <2> QED
    BY <2>1, <2>2, <2>3 DEF Installing
<1>4. ASSUME NEW answer \in Answers, ReportOutcome(answer) PROVE Goal
  BY <1>1, <1>2, <1>4, Reports DEF ReportOutcome
<1>5. ASSUME NEW answer \in Answers, RunReport(answer) PROVE Goal
  <2>1. \A m \in marker : m.state # "running"
    BY <1>5 DEF RunReport, SInv, Phases, Mark
  <2> QED
    BY <1>1, <1>2, <1>5, <2>1, Reports DEF RunReport
<1> QED
  BY <1>2, <1>3, <1>4, <1>5, BackendQuiet
  DEF SysNext, Agent, Outside, Own, agentVars, CycleStart, Send, SendFails, Receive, ReceiveFails,
      MarkInterrupted, NoOutcome, AcceptLater, AcceptNeedsReboot, Accept, Install, Crash,
      Unheard, LateReport, Offer

\* The backend sees a job's device alive hours after its start only by a snapshot
\* that was queued.
LEMMA SeenStep ==
  ASSUME SInv, [SysNext]_sysVars, NEW j \in Jobs, seen'[j], ~seen[j]
  PROVE  \E s \in queue : j \in s.late
<1>1. seen' # seen
  OBVIOUS
<1>2. ASSUME NEW k \in Jobs, NEW s, NEW answer \in Answers, Post(k, s, answer) PROVE FALSE
  BY <1>1, <1>2, PostOutcome DEF Report, vars
<1>3. ASSUME NEW r \in Requests, Send(r) PROVE \E s \in queue : j \in s.late
  BY <1>3 DEF Send, Ingest
<1>4. ASSUME NEW answer \in Answers, Start(answer) \/ ReportOutcome(answer) \/ RunReport(answer)
      PROVE  FALSE
  BY <1>2, <1>4, Reports DEF Start, ReportOutcome, RunReport
<1> QED
  BY <1>1, <1>3, <1>4
  DEF SysNext, Backend, Server, Agent, Outside, Own, sysVars, vars, CreateRead, CreateInsert,
      Cancel, CancelJobs, List, ClaimCleanup, ClaimSelect, ClaimDeliver, ClaimResolve,
      ClaimClose, BecomeDue, PassDeadline, BecomeStale, CycleStart, SendFails, Receive, Respond,
      ReceiveFails, Unheard, MarkInterrupted, NoOutcome, AcceptLater, AcceptNeedsReboot,
      Accept, Install, Crash, LateReport, Report, Offer

\* The agent turns to a job only with no marker left of another.
LEMMA BecomesBusy ==
  ASSUME SInv, [SysNext]_sysVars, NEW j \in Jobs, Busy(j)'
  PROVE  \/ Busy(j) /\ (Starting(j)' => Starting(j) /\ runs' = runs)
         \/ marker = {} /\ UNCHANGED <<vars, queue, runs>>
<1> DEFINE Goal == \/ Busy(j) /\ (Starting(j)' => Starting(j) /\ runs' = runs)
                   \/ marker = {} /\ UNCHANGED <<vars, queue, runs>>
<1>1. CASE UNCHANGED <<cycle, run, runs>>
  BY <1>1 DEF Busy, Starting, Installing
<1>2. CASE cycle'.pc # "start" /\ UNCHANGED run
  BY <1>2 DEF Busy, Starting, Installing
<1>3. CASE cycle'.pc # "start" /\ run'.phase # "installing"
  BY <1>3 DEF Busy, Starting, Installing
<1>4. AfterOutcome.pc # "start"
  BY DEF AfterOutcome, IdleCycle
<1>5. CASE CycleStart \/ SendFails \/ Receive \/ ReceiveFails \/ NoOutcome \/ AcceptLater
           \/ AcceptNeedsReboot
  BY <1>2, <1>4, <1>5 DEF CycleStart, SendFails, Receive, ReceiveFails, NoOutcome, AcceptLater,
                          AcceptNeedsReboot, IdleCycle
<1>6. ASSUME NEW r \in Requests, Send(r) \/ Unheard(r) PROVE Goal
  BY <1>1, <1>2, <1>6 DEF Send, Unheard, agentVars
<1>7. ASSUME NEW answer \in Answers, ReportOutcome(answer) PROVE Goal
  BY <1>2, <1>4, <1>7 DEF ReportOutcome
<1>8. CASE Accept
  BY <1>8 DEF Accept, MayAccept
<1>9. ASSUME NEW answer \in Answers, Start(answer) PROVE Goal
  <2>1. Starting(cycle.job) /\ cycle.job \in Jobs /\ cycle'.pc = "idle"
    BY <1>9, Doing, Reports DEF Start, IdleCycle
  <2>2. run' = run \/ run' = [phase |-> "installing", job |-> cycle.job]
    BY <1>9, <2>1 DEF Start
  <2> QED
    BY <2>1, <2>2 DEF Busy, Starting, Installing
<1>10. ASSUME NEW result \in {"done", "failed"}, Install(result) PROVE Goal
  <2>1. run.phase = "installing" /\ run' = [run EXCEPT !.phase = "reporting"] /\ cycle' = cycle
        /\ runs' = runs
    BY <1>10 DEF Install
  <2>2. run'.phase = "reporting"
    BY <2>1, Doing DEF Installing
  <2> QED
    BY <2>1, <2>2 DEF Busy, Starting, Installing
<1>11. ASSUME NEW answer \in Answers, RunReport(answer) PROVE Goal
  BY <1>11 DEF RunReport, Busy, Starting, Installing, NoRun
<1>12. CASE Crash
  BY <1>3, <1>12 DEF Crash, NoRun, IdleCycle
<1> QED
  BY <1>1, <1>5, <1>6, <1>7, <1>8, <1>9, <1>10, <1>11, <1>12, BackendQuiet
  DEF SysNext, Agent, Outside, Own, agentVars, MarkInterrupted, LateReport, Offer

-----------------------------------------------------------------------------
(* The inductive invariant.                                                *)

\* A closed job stays as it is, or counts as reopened from then on.
LEMMA ClosedStep ==
  ASSUME SInv, [SysNext]_sysVars, NEW j \in OwnJobs \ reopened'
  PROVE  /\ j \in OwnJobs \ reopened
         /\ state[j] \in Closed => state'[j] = state[j]
<1>1. Reopening \/ UNCHANGED <<state, reopened>>
  BY DEF SysNext, Backend, Server, Agent, Outside, Own, sysVars, vars
<1> QED
  BY <1>1 DEF Reopening, OwnJobs

\* Every step keeps RunningIsBacked and Owed: a new debt is marked at once, and a
\* marker goes only with its job closed.
LEMMA OwedStep == SInv /\ [SysNext]_sysVars => RunningIsBacked' /\ Owed'
<1> SUFFICES ASSUME SInv, [SysNext]_sysVars PROVE RunningIsBacked' /\ Owed'
  OBVIOUS
<1>1. ASSUME NEW j \in Jobs, Installing(j)' PROVE Marked(j)'
  <2>1. marker' = {[job |-> j, state |-> "running"]}
    BY <1>1, PhasesStep DEF Phases, Mark, Jobs
  <2> QED
    BY <2>1 DEF Marked
<1>2. RunningIsBacked'
  <2> SUFFICES ASSUME NEW j \in OwnJobs \ reopened', state'[j] = "running"
               PROVE  Marked(j)'
    BY DEF RunningIsBacked, OwnJobs, Jobs, Device
  <2>1. j \in Jobs /\ j \in OwnJobs \ reopened /\ state[j] \notin Closed
    BY ClosedStep DEF OwnJobs, Closed
  <2>2. CASE state[j] = "running"
    <3>1. Marked(j)
      BY <2>1, <2>2 DEF SInv, RunningIsBacked
    <3> QED
      BY <2>1, <3>1, MarkStays DEF Closed
  <2>3. CASE Starting(j) /\ Installing(j)'
    BY <1>1, <2>1, <2>3
  <2>4. CASE \E m \in late : m.job = j /\ m.state = "running"
    <3>1. Marked(j)
      BY <2>1, <2>4 DEF SInv, Owed
    <3> QED
      BY <2>1, <3>1, MarkStays DEF Closed
  <2> QED
    BY <2>1, <2>2, <2>3, <2>4, NewlyRunning
<1>3. Owed'
  <2> SUFFICES ASSUME NEW j \in OwnJobs \ reopened',
                      runs'[j] >= 1 \/ \E m \in late' : m.job = j /\ m.state = "running"
               PROVE  Marked(j)' \/ state'[j] \in Closed
    BY DEF Owed, OwnJobs, Jobs, Device, Closed
  <2>1. /\ j \in Jobs /\ j \in OwnJobs \ reopened
        /\ state[j] \in Closed => state'[j] \in Closed
    BY ClosedStep DEF OwnJobs
  <2>2. CASE runs[j] >= 1 \/ \E m \in late : m.job = j /\ m.state = "running"
    <3>1. Marked(j) \/ state[j] \in Closed
      BY <2>1, <2>2 DEF SInv, Owed
    <3> QED
      BY <2>1, <3>1, MarkStays
  <2>3. CASE runs'[j] # runs[j] \/ \E m \in late' \ late : m.job = j /\ m.state = "running"
    BY <1>1, <2>1, <2>3, Started
  <2> QED
    BY <2>2, <2>3
<1> QED
  BY <1>2, <1>3

\* Every step keeps Fresh and SeenStarted.
LEMMA FreshStep == SInv /\ [SysNext]_sysVars => Fresh' /\ SeenStarted'
<1> SUFFICES ASSUME SInv, [SysNext]_sysVars PROVE Fresh' /\ SeenStarted'
  OBVIOUS
<1>1. TypeOK /\ [Next]_vars
  BY BackendSees DEF SInv, SysTypeOK
<1>2. Fresh'
  <2> SUFFICES ASSUME NEW j \in OwnJobs \ reopened',
                      state'[j] \in {"absent", "pending", "delivered"}
               PROVE  age'[j] = "unstarted" \/ Marked(j)'
    BY DEF Fresh, OwnJobs, Jobs, Device
  <2>1. j \in Jobs /\ j \in OwnJobs \ reopened /\ state[j] \notin Closed
    BY ClosedStep DEF OwnJobs, Closed
  <2>2. CASE Marked(j)
    BY <2>1, <2>2, MarkStays DEF Closed
  <2>3. CASE age[j] = "unstarted"
    BY <1>1, <2>1, <2>3, AgeStep
  <2>4. state[j] \in {"absent", "pending", "delivered", "running"}
    BY <1>1, <2>1 DEF TypeOK, Open
  <2> QED
    BY <2>1, <2>2, <2>3, <2>4 DEF SInv, Fresh, RunningIsBacked
<1>3. SeenStarted'
  <2> SUFFICES ASSUME NEW j \in Jobs, seen'[j] PROVE age'[j] # "unstarted"
    BY DEF SeenStarted, Jobs
  <2>1. CASE seen[j]
    BY <1>1, <2>1, AgeStep DEF SInv, SeenStarted
  <2>2. CASE ~seen[j]
    <3>1. age[j] = "stale"
      BY <2>2, SeenStep DEF SInv, SnapshotsAreOurs, StaleJobs
    <3> QED
      BY <1>1, <3>1, AgeStep
  <2> QED
    BY <2>1, <2>2
<1> QED
  BY <1>2, <1>3

\* Every step keeps BusyUnseen: no snapshot is collected while the agent is busy with a
\* job, and none was collected after a start that was never reported.
LEMMA BusyStep == SInv /\ [SysNext]_sysVars => BusyUnseen'
<1> SUFFICES ASSUME SInv, [SysNext]_sysVars,
                    NEW j \in OwnJobs \ reopened', Busy(j)', state'[j] \in {"delivered", "running"}
             PROVE  ~seen'[j] /\ \A s \in queue' : j \notin s.late
  BY DEF BusyUnseen, OwnJobs, Jobs, Device
<1>1. j \in Jobs /\ j \in OwnJobs \ reopened /\ state[j] \notin Closed
  BY ClosedStep DEF OwnJobs, Closed
<1>2. CASE Busy(j)
  <2>1. IsRunning \/ cycle.pc = "start"
    BY <1>1, <1>2 DEF Busy, Starting, Installing, IsRunning, NoRun, SInv, Phases
  <2>2. marker = Mark(j, "running")
    BY <1>1, <1>2 DEF Busy, SInv, Phases
  <2>3. [job |-> j, state |-> "running"] \in marker
    BY <2>2 DEF Mark
  <2>4. Out(j)
    BY <2>3 DEF SInv, AgentKnows
  <2>5. state[j] \in {"delivered", "running"}
    BY <1>1, <2>4 DEF Out, SInv, SysTypeOK, TypeOK, Open
  <2>6. ~seen[j] /\ \A s \in queue : j \notin s.late
    BY <1>1, <1>2, <2>5 DEF SInv, BusyUnseen
  <2>7. ~seen'[j]
    BY <1>1, <2>6, SeenStep
  <2>8. ~(CycleStart /\ MayCollect)
    BY <2>1 DEF CycleStart, MayCollect, IdleCycle
  <2> QED
    BY <2>6, <2>7, <2>8, QueueStep
<1>3. CASE marker = {} /\ UNCHANGED <<vars, queue, runs>>
  <2>1. state[j] = "delivered"
    BY <1>1, <1>3 DEF vars, SInv, RunningIsBacked, Marked
  <2>2. age[j] = "unstarted"
    BY <1>1, <1>3, <2>1 DEF SInv, Fresh, Marked
  <2>3. ~seen[j] /\ \A s \in queue : j \notin s.late
    BY <1>1, <2>2 DEF SInv, SeenStarted, SnapshotsAreOurs, StaleJobs
  <2> QED
    BY <1>3, <2>3 DEF vars
<1> QED
  BY <1>1, <1>2, <1>3, BecomesBusy

\* Every step keeps StartIsFirst.
LEMMA FirstStep == SInv /\ [SysNext]_sysVars => StartIsFirst'
<1> SUFFICES ASSUME SInv, [SysNext]_sysVars,
                    NEW j \in OwnJobs \ reopened', Starting(j)', runs'[j] >= 1
             PROVE  state'[j] \in Closed
  BY DEF StartIsFirst, OwnJobs, Jobs, Device, Closed
<1>1. /\ j \in Jobs /\ j \in OwnJobs \ reopened
      /\ state[j] \in Closed => state'[j] \in Closed
  BY ClosedStep DEF OwnJobs
<1>2. Busy(j)'
  BY DEF Busy
<1>3. CASE Starting(j) /\ runs' = runs
  BY <1>1, <1>3 DEF SInv, StartIsFirst
<1>4. CASE marker = {} /\ UNCHANGED <<vars, queue, runs>>
  BY <1>1, <1>4 DEF vars, SInv, Owed, Marked
<1> QED
  BY <1>1, <1>2, <1>3, <1>4, BecomesBusy

\* SInv holds throughout.
LEMMA SystemInvariant == SysSpec => []SInv
<1>1. SysInit => SInv
  <2> SUFFICES ASSUME SysInit PROVE SInv
    OBVIOUS
  <2>1. IInv
    <3>1. TypeOK
      BY ClaimRecords DEF SysInit, Init, TypeOK, IdleDialog, DialogStates
    <3>2. ClaimsAreDue
      BY DEF SysInit, Init, ClaimsAreDue, IdleClaim
    <3> QED
      BY <3>1, <3>2
      DEF SysInit, Init, IInv, OneOpenJobPerDevice, NothingBeforeItsTime, Open
  <2>2. SysTypeOK
    BY <2>1, BoundsAssumption DEF SysInit, SysTypeOK, IInv
  <2>3. ClaimsAreOut
    BY DEF SysInit, Init, ClaimsAreOut, IdleClaim
  <2>4. AgentKnows /\ SnapshotsAreOurs /\ Phases /\ StartIsFirst
    BY DEF SysInit, AgentKnows, SnapshotsAreOurs, Phases, StartIsFirst, Starting, Installing,
           IdleCycle, NoRun
  <2>5. RunningIsBacked /\ Owed /\ Fresh /\ SeenStarted /\ BusyUnseen
    BY DEF SysInit, Init, OwnJobs, RunningIsBacked, Owed, Fresh, SeenStarted, BusyUnseen
  <2> QED
    BY <2>1, <2>2, <2>3, <2>4, <2>5 DEF SInv
<1>2. SInv /\ [SysNext]_sysVars => SInv'
  <2> SUFFICES ASSUME SInv, [SysNext]_sysVars PROVE SInv'
    OBVIOUS
  <2>1. IInv'
    BY BackendSees, InvStep DEF SInv
  <2>2. ClaimsAreOut'
    BY BackendSees, ClaimsOutStep DEF SInv, SysTypeOK
  <2> QED
    BY <2>1, <2>2, SysTypeStep, PhasesStep, KnowsStep, SnapshotsStep, OwedStep, FreshStep,
       BusyStep, FirstStep
    DEF SInv
<1> QED
  BY <1>1, <1>2, PTL DEF SysSpec

-----------------------------------------------------------------------------
(* Theorems.                                                               *)

\* The variables of agent and backend keep their types; install.json holds one record.
THEOREM SystemTypes == SysSpec => []SysTypeOK
<1>1. SInv => SysTypeOK
  BY DEF SInv
<1> QED
  BY <1>1, SystemInvariant, PTL

\* As long as the backend has a job as running, the agent holds its marker - for every
\* number of crashes, lost answers and late reports.
THEOREM Backed == SysSpec => []RunningIsBacked
<1>1. SInv => RunningIsBacked
  BY DEF SInv
<1> QED
  BY <1>1, SystemInvariant, PTL

\* The backend never takes for interrupted what the agent is just installing.
THEOREM NotInterrupted == SysSpec => []InterruptedIsNotInstalling
<1>1. SInv => InterruptedIsNotInstalling
  BY DEF SInv, BusyUnseen, InterruptedIsNotInstalling, Interrupted, Busy
<1> QED
  BY <1>1, SystemInvariant, PTL

\* A job the backend did not reopen is recorded as running for one start at most.
THEOREM NoRerun == SysSpec => NoRecordedRerun
<1> DEFINE Guarded == \A j \in OwnJobs \ reopened' :
                        runs[j] >= 1 /\ runs'[j] > runs[j] => state'[j] # "running"
<1>1. SInv /\ [SysNext]_sysVars => Guarded
  <2> SUFFICES ASSUME SInv, [SysNext]_sysVars, NEW j \in OwnJobs \ reopened',
                      runs[j] >= 1, runs'[j] > runs[j]
               PROVE  state'[j] # "running"
    OBVIOUS
  <2>1. j \in Jobs /\ j \in OwnJobs \ reopened /\ runs'[j] # runs[j]
    BY ClosedStep DEF OwnJobs, SInv, SysTypeOK
  <2>2. state[j] \in Closed
    BY <2>1, Started DEF SInv, StartIsFirst
  <2> QED
    BY <2>2, ClosedStep DEF Closed
<1> QED
  BY <1>1, SystemInvariant, PTL DEF SysSpec, NoRecordedRerun

\* The system is an implementation of the backend's specification: what is proved of
\* InstallJobs holds of the backend this agent talks to.
THEOREM SystemIsBackend == SysSpec => ImplementsBackend
<1>1. SysInit => Init
  BY DEF SysInit
<1> QED
  BY <1>1, BackendSees, SystemInvariant, PTL DEF SysSpec, Spec, ImplementsBackend

\* So the rows this agent works on keep to one place per device, and no conclusion from a
\* marker or a snapshot lets a job begin before its time.
THEOREM SystemKeepsSlot ==
  SysSpec => ImplementsSlot /\ []OneOpenJobPerDevice /\ []NothingBeforeItsTime
BY SystemIsBackend, TableIsSlot, OneOpenJob, NotBeforeItsTime, PTL DEF ImplementsBackend

=============================================================================
