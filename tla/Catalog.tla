------------------------------ MODULE Catalog ------------------------------
(***************************************************************************)
(* The rows of the update catalogue that the check-ins of several devices  *)
(* share. checkin.service.ts writes all entries of a snapshot in one       *)
(* INSERT ... ON CONFLICT DO UPDATE, which locks one row after the other,  *)
(* in the order of the VALUES, until the transaction ends; whatever fails  *)
(* in the transaction rejects the snapshot, and AgentCycle.Settle throws a *)
(* rejected snapshot away.                                                 *)
(*                                                                         *)
(* Abstractions. One snapshot per device, all of them well-formed. The     *)
(* order of the entries is the order in which Windows lists its history,   *)
(* the installed and the open updates. Locks, waiting and the detection of *)
(* a deadlock are PostgreSQL's. What else the transaction does touches     *)
(* rows of its device only and is left out.                                *)
(***************************************************************************)
EXTENDS Naturals, Sequences, FiniteSets, SequencesExt

CONSTANTS
  Devices,  \* devices that check in at the same time
  Updates   \* rows of the catalogue

VARIABLES
  tx,       \* tx[d]: the entries still to be written, or how the transaction ended
  holder,   \* holder[u]: the devices whose transaction has locked the row
  queue     \* the devices that still keep their snapshot

vars == <<tx, holder, queue>>

\* mergeCatalogEntries(): every update once, in the order of its first mention.
Orders == UNION {SetToSeqs(S) : S \in SUBSET Updates}

Init ==
  /\ tx \in [Devices -> {[pc |-> "write", todo |-> o] : o \in Orders}]
  /\ holder = [u \in Updates |-> {}]
  /\ queue = Devices

NextRow(d) == Head(tx[d].todo)
Writing(d) == tx[d].pc = "write" /\ tx[d].todo # <<>>

Write(d) ==
  /\ Writing(d) /\ holder[NextRow(d)] = {}
  /\ holder' = [holder EXCEPT ![NextRow(d)] = {d}]
  /\ tx' = [tx EXCEPT ![d].todo = Tail(@)]
  /\ UNCHANGED queue

Ends(d, outcome) ==
  /\ tx' = [tx EXCEPT ![d] = [pc |-> outcome]]
  /\ holder' = [u \in Updates |-> holder[u] \ {d}]
  /\ UNCHANGED queue

Commit(d) == tx[d].pc = "write" /\ tx[d].todo = <<>> /\ Ends(d, "accepted")

WaitsFor(d, e) == Writing(d) /\ holder[NextRow(d)] = {e}

\* Two transactions that wait for each other: PostgreSQL aborts one of them, and
\* ingest() answers "rejected".
Abort(d) == (\E e \in Devices \ {d} : WaitsFor(d, e) /\ WaitsFor(e, d)) /\ Ends(d, "rejected")

\* Settle: whatever has been answered leaves the queue.
Settle(d) ==
  /\ d \in queue /\ tx[d].pc \in {"accepted", "rejected"}
  /\ queue' = queue \ {d}
  /\ UNCHANGED <<tx, holder>>

Step == \E d \in Devices : Write(d) \/ Commit(d) \/ Abort(d) \/ Settle(d)
Spec == Init /\ [][Step]_vars

\* "Ein abgelehnter Snapshot wird durch Wiederholen nicht besser"
\* (AgentCycle.cs:318-320): the agent throws away nothing that the backend would
\* take if it were sent again.
NothingGoodThrownAway == \A d \in Devices \ queue : tx[d].pc = "accepted"
=============================================================================
