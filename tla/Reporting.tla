----------------------------- MODULE Reporting -----------------------------
(***************************************************************************)
(* What a device knows of its updates and how the backend learns of it:    *)
(* the agent collects a snapshot, keeps it in its queue and sends the      *)
(* queue in batches (AgentCycle, SnapshotCollector, SnapshotQueue); the    *)
(* backend takes each snapshot in a transaction of its own and derives the *)
(* state of every update and the events of the time line from it           *)
(* (checkin.service.ts).                                                   *)
(*                                                                         *)
(* Abstractions.                                                           *)
(*  - One device. A snapshot is its collectedAt, the updates Windows       *)
(*    offers and the part of the Windows history since the marker; host,   *)
(*    catalogue metadata and the list of installed updates are left out.   *)
(*  - clock counts what happens: a collection begins or Windows ends an    *)
(*    attempt, each at a moment of its own, so collectedAt stands for      *)
(*    snapshot_id too.                                                     *)
(*  - The queue is a table that is read in the order of collected_at, and  *)
(*    the backend handles what it gets in that order: what is queued, to   *)
(*    be sent or to be handled is a set whose earliest snapshot is next.   *)
(*  - "ok" stands for both result codes that mean success, "pending" for a *)
(*    failure code with WU_E_UH_POSTREBOOTSTILLPENDING.                    *)
(*  - A request is a connection that handles its snapshots one after the   *)
(*    other and goes on when the agent has given it up. Between the first  *)
(*    insert and the commit a transaction holds its snapshot_id and the    *)
(*    catalogue rows of its updates; another one that needs them waits.    *)
(***************************************************************************)
EXTENDS Naturals, FiniteSets

CONSTANTS
  Updates,      \* updates that Windows may offer
  Conns,        \* requests the backend handles at once
  QueueMax,     \* AgentOptions.QueueMaxSnapshots
  BatchMax,     \* AgentOptions.BatchMaxSnapshots
  MaxTime,      \* bound: collections and attempts
  MaxLate,      \* bound: requests the agent gives up or that break off
  MaxRejects,   \* bound: transactions the database aborts
  MaxForbidden  \* bound: requests answered 403

ASSUME QueueAssumption == QueueMax \in Nat \ {0} /\ BatchMax \in Nat \ {0}
ASSUME TimeAssumption == MaxTime \in Nat

VARIABLES
  clock,      \* the last moment that has a number
  offered,    \* the updates Windows offers
  history,    \* the attempts Windows has ended
  left,       \* ghost, left[u]: why Windows does not offer u (any more)
  queue,      \* queue.db: the snapshots
  marker,     \* last_history_utc
  cycle,      \* how far AgentCycle.RunAsync has come
  conn,       \* conn[c]: the request the backend handles on c
  checkins,   \* device_checkins: the snapshot_ids taken
  state,      \* device_update_states
  events,     \* device_update_events
  newest,     \* ghost: the snapshot with the latest collectedAt taken so far
  dropped,    \* ghost: the attempts of snapshots that were rejected or thrown away
  disordered, \* ghost: the agent has not heard that a snapshot was rejected, or one was
              \* rejected or dropped while a request it had given up was handled
  late, rejects, forbidden  \* what the bounds count

windows == <<clock, offered, history, left>>
agent   == <<queue, marker, cycle>>
tables  == <<checkins, state, events, newest>>
counts  == <<late, rejects, forbidden>>
vars == <<windows, agent, conn, tables, dropped, disordered, counts>>

Codes == {"ok", "failed", "pending"}
Ok(e) == e.code # "failed"
Idle == [pc |-> "idle"]
None == [at |-> 0, open |-> {}, history |-> {}]   \* before the first snapshot

Init ==
  /\ clock = 0 /\ offered = {} /\ history = {} /\ left = [u \in Updates |-> "none"]
  /\ queue = {} /\ marker = 0 /\ cycle = Idle
  /\ conn = [c \in Conns |-> Idle]
  /\ checkins = {} /\ state = [u \in Updates |-> "unknown"] /\ events = {}
  /\ newest = None /\ dropped = {} /\ disordered = FALSE
  /\ late = 0 /\ rejects = 0 /\ forbidden = 0

-----------------------------------------------------------------------------
(* Windows.                                                                *)

Offer(u) ==
  /\ u \notin offered
  /\ offered' = offered \cup {u} /\ left' = [left EXCEPT ![u] = "none"]
  /\ UNCHANGED <<clock, history, agent, conn, tables, dropped, disordered, counts>>

\* Superseded, declined, or gone with the update source.
Withdraw(u) ==
  /\ u \in offered
  /\ offered' = offered \ {u} /\ left' = [left EXCEPT ![u] = "withdrawn"]
  /\ UNCHANGED <<clock, history, agent, conn, tables, dropped, disordered, counts>>

\* An update that waits for the restart is still offered.
Attempt(u, code) ==
  /\ u \in offered /\ clock < MaxTime
  /\ clock' = clock + 1
  /\ history' = history \cup {[update |-> u, at |-> clock + 1, code |-> code]}
  /\ IF code = "ok" THEN /\ offered' = offered \ {u}
                         /\ left' = [left EXCEPT ![u] = "installed"]
                    ELSE UNCHANGED <<offered, left>>
  /\ UNCHANGED <<agent, conn, tables, dropped, disordered, counts>>

-----------------------------------------------------------------------------
(* The agent's cycle.                                                      *)

Since(h, t) == {e \in h : e.at > t}
AttemptsOf(snapshots) == UNION {s.history : s \in snapshots}

\* ORDER BY collected_at ASC
Earliest(snapshots) == {s \in snapshots : \A t \in snapshots : s.at <= t.at}

\* collectedAt is the beginning of the collection, not its end.
Collect ==
  /\ cycle.pc = "idle" /\ clock < MaxTime
  /\ clock' = clock + 1
  /\ cycle' = [pc |-> "search", at |-> clock + 1]
  /\ UNCHANGED <<offered, history, left, queue, marker, conn, tables, dropped, disordered, counts>>

\* First what is offered, then the history.
Search ==
  /\ cycle.pc = "search"
  /\ cycle' = [pc |-> "read", at |-> cycle.at, open |-> offered]
  /\ UNCHANGED <<windows, queue, marker, conn, tables, dropped, disordered, counts>>

\* The list of installed updates is read after this, which takes its time.
ReadHistory ==
  /\ cycle.pc = "read"
  /\ cycle' = [pc |-> "store", snapshot |-> [at |-> cycle.at, open |-> cycle.open,
                                           history |-> Since(history, marker)]]
  /\ UNCHANGED <<windows, queue, marker, conn, tables, dropped, disordered, counts>>

\* The end of the collection as the marker.
MarkerAfterEnd(s) == clock

\* SnapshotQueue.Enqueue writes the marker with the snapshot.
MarkerAfter(s) == s.at

\* SnapshotQueue.Prune keeps the newest, the one just stored among them; what goes is
\* the oldest, by number or by age.
Kept(q) == {k \in SUBSET q : /\ Cardinality(k) < QueueMax
                            /\ \A s \in k, t \in q \ k : t.at < s.at}

Late(c) == conn[c].pc = "run" /\ ~(cycle.pc = "wait" /\ cycle.conn = c)

Drop(snapshots) ==
  /\ dropped' = dropped \cup AttemptsOf(snapshots)
  /\ disordered' = (disordered \/ (snapshots # {} /\ \E c \in Conns : Late(c)))

Enqueue ==
  /\ cycle.pc = "store"
  /\ \E kept \in Kept(queue) : /\ queue' = kept \cup {cycle.snapshot}
                              /\ Drop(queue \ kept)
  /\ marker' = MarkerAfter(cycle.snapshot)
  /\ cycle' = [pc |-> "flush"]
  /\ UNCHANGED <<windows, conn, tables, counts>>

\* Windows does not answer, or an installation runs: the queue is sent all the same.
CollectFails ==
  /\ cycle.pc \in {"idle", "search", "read", "store"}
  /\ cycle' = [pc |-> "flush"]
  /\ UNCHANGED <<windows, queue, marker, conn, tables, dropped, disordered, counts>>

\* FlushAsync peeks at the whole queue and sends it in batches.
Peek ==
  /\ cycle.pc = "flush"
  /\ cycle' = IF queue = {} THEN Idle ELSE [pc |-> "send", pending |-> queue]
  /\ UNCHANGED <<windows, queue, marker, conn, tables, dropped, disordered, counts>>

\* A batch ends with BatchMaxSnapshots or, sooner, with BatchMaxBytes.
Batches(pending) == {b \in SUBSET pending : /\ b # {} /\ Cardinality(b) <= BatchMax
                                           /\ \A s \in b, t \in pending \ b : s.at < t.at}

Send(c) ==
  /\ cycle.pc = "send" /\ conn[c].pc = "idle"
  /\ \E batch \in Batches(cycle.pending) :
       /\ conn' = [conn EXCEPT ![c] = [pc |-> "run", todo |-> batch, result |-> {}, tx |-> {}]]
       /\ cycle' = [pc |-> "wait", conn |-> c, pending |-> cycle.pending \ batch]
  /\ UNCHANGED <<windows, queue, marker, tables, dropped, disordered, counts>>

\* The backend is out of reach: the snapshots stay in the queue.
Unreachable ==
  /\ cycle.pc = "send"
  /\ cycle' = Idle
  /\ UNCHANGED <<windows, queue, marker, conn, tables, dropped, disordered, counts>>

\* The device is archived: everything peeked at is dropped.
Forbidden ==
  /\ cycle.pc = "send" /\ forbidden < MaxForbidden
  /\ forbidden' = forbidden + 1
  /\ queue' = {} /\ Drop(queue)
  /\ cycle' = Idle
  /\ UNCHANGED <<windows, marker, conn, tables, late, rejects>>

\* Snapshots with a result go.
UnsettledAccepted(q, result) ==
  {s \in q : \A r \in result : r.at # s.at \/ r.outcome = "duplicate"}

\* What Settle keeps: everything without a result. A rejected snapshot goes too.
Unsettled(q, result) == {s \in q : \A r \in result : r.at # s.at}

Settle ==
  /\ cycle.pc = "wait"
  /\ conn[cycle.conn].pc = "run" /\ conn[cycle.conn].todo = {}
  /\ queue' = Unsettled(queue, conn[cycle.conn].result)
  /\ conn' = [conn EXCEPT ![cycle.conn] = Idle]
  /\ cycle' = IF cycle.pending = {} THEN Idle ELSE [pc |-> "send", pending |-> cycle.pending]
  /\ UNCHANGED <<windows, marker, tables, dropped, disordered, counts>>

Rejecting(c) == \E r \in conn[c].result : r.outcome = "rejected"

\* The agent's timeout, or the answer is lost; the request goes on.
GiveUp ==
  /\ cycle.pc = "wait" /\ late < MaxLate
  /\ late' = late + 1
  /\ cycle' = Idle
  /\ disordered' = (disordered \/ Rejecting(cycle.conn))
  /\ UNCHANGED <<windows, queue, marker, conn, tables, dropped, rejects, forbidden>>

\* The service ends; whatever is not in queue.db is gone. While it waits for an
\* answer, this is GiveUp.
Stop ==
  /\ cycle.pc \notin {"idle", "wait"} /\ late < MaxLate
  /\ late' = late + 1
  /\ cycle' = Idle
  /\ UNCHANGED <<windows, queue, marker, conn, tables, dropped, disordered, rejects, forbidden>>

-----------------------------------------------------------------------------
(* The backend.                                                            *)

Touched(s) == s.open \cup {e.update : e \in s.history}

\* A check beforehand instead of the constraint: nobody waits for snapshot_id.
MustWaitNot(c, s) == FALSE

\* INSERT ... ON CONFLICT DO NOTHING waits for a transaction that is inserting the
\* same snapshot_id, and upsertCatalog() for one that holds a row it needs.
MustWait(c, s) ==
  \E d \in Conns \ {c} : conn[d].pc = "run" /\
    \E t \in conn[d].tx : t.at = s.at \/ Touched(t) \cap Touched(s) # {}

Answered(c, s, outcome) ==
  conn' = [conn EXCEPT ![c].todo = @ \ Earliest(@), ![c].tx = {},
                       ![c].result = @ \cup {[at |-> s.at, outcome |-> outcome]}]

Duplicate(c) ==
  /\ conn[c].pc = "run" /\ conn[c].tx = {}
  /\ \E s \in Earliest(conn[c].todo) : s.at \in checkins /\ Answered(c, s, "duplicate")
  /\ UNCHANGED <<windows, agent, tables, dropped, disordered, counts>>

\* insertCheckin() to loadExistingStates(): the states are read here and written
\* at the commit.
Begin(c) ==
  /\ conn[c].pc = "run" /\ conn[c].tx = {}
  /\ \E s \in Earliest(conn[c].todo) :
       /\ s.at \notin checkins /\ ~MustWait(c, s)
       /\ conn' = [conn EXCEPT ![c].tx =
            {[at |-> s.at, open |-> s.open, history |-> s.history, existing |-> state]}]
  /\ UNCHANGED <<windows, agent, tables, dropped, disordered, counts>>

Attempts(s, u) == {e \in s.history : e.update = u}

\* computeTransitions: latestHistoryPerUpdate() sorts the attempts and keeps them all.
\* The first one makes the target; for those after it the target is there already,
\* as if the update were still offered, and only their result code is noted.
Deciding(s, u) ==
  CHOOSE e \in Attempts(s, u) : \A f \in Attempts(s, u) : e.at <= f.at

\* Vanished before explained.
TargetGoneFirst(s, existing, u) ==
  IF u \in s.open THEN "available"
  ELSE IF existing[u] = "available" THEN "superseded"
  ELSE IF Attempts(s, u) # {} THEN IF Ok(Deciding(s, u)) THEN "installed" ELSE "failed"
  ELSE "untouched"

Target(s, existing, u) ==
  IF u \in s.open THEN "available"
  ELSE IF Attempts(s, u) # {} THEN IF Ok(Deciding(s, u)) THEN "installed" ELSE "failed"
  ELSE IF existing[u] = "available" THEN "superseded"
  ELSE "untouched"

\* Every snapshot that lists an update announces it.
AppearsAlways(s, existing, u) == u \in s.open

Appears(s, existing, u) == u \in s.open /\ existing[u] # "available"

NewEvents(s, existing) ==
  {[update |-> u, type |-> "appeared", at |-> s.at] :
     u \in {u \in Updates : Appears(s, existing, u)}}
  \cup {[update |-> e.update, type |-> IF Ok(e) THEN "installed" ELSE "failed", at |-> e.at] :
          e \in s.history}
  \cup {[update |-> u, type |-> "disappeared", at |-> s.at] :
          u \in {u \in Updates : Target(s, existing, u) = "superseded"}}

\* writeStates, writeEvents, touchDevice and the commit.
Commit(c) ==
  /\ conn[c].pc = "run"
  /\ \E t \in conn[c].tx :
       /\ checkins' = checkins \cup {t.at}
       /\ state' = [u \in Updates |->
            LET target == Target(t, t.existing, u)
            IN  IF target = "untouched" THEN state[u] ELSE target]
       /\ events' = events \cup NewEvents(t, t.existing)
       /\ newest' = IF t.at >= newest.at
                    THEN [at |-> t.at, open |-> t.open, history |-> t.history] ELSE newest
       /\ Answered(c, t, "accepted")
  /\ UNCHANGED <<windows, agent, dropped, disordered, counts>>

\* Any error in the transaction, one of the database too, rejects the snapshot.
Reject(c) ==
  /\ conn[c].pc = "run" /\ rejects < MaxRejects
  /\ \E t \in conn[c].tx : /\ Answered(c, t, "rejected")
                          /\ dropped' = dropped \cup t.history
  /\ rejects' = rejects + 1
  /\ disordered' = (disordered \/ \E d \in Conns : Late(d))
  /\ UNCHANGED <<windows, agent, tables, late, forbidden>>

\* A request nobody waits for is over.
Over(c) ==
  /\ Late(c) /\ conn[c].todo = {}
  /\ conn' = [conn EXCEPT ![c] = Idle]
  /\ UNCHANGED <<windows, agent, tables, dropped, disordered, counts>>

\* The backend restarts: the transaction is rolled back, the agent gets an error.
BreaksOff(c) ==
  /\ conn[c].pc = "run" /\ late < MaxLate
  /\ late' = late + 1
  /\ conn' = [conn EXCEPT ![c] = Idle]
  /\ cycle' = IF Late(c) THEN cycle ELSE Idle
  /\ disordered' = (disordered \/ Rejecting(c))
  /\ UNCHANGED <<windows, queue, marker, tables, dropped, rejects, forbidden>>

-----------------------------------------------------------------------------

WindowsNext ==
  \E u \in Updates : \/ Offer(u) \/ Withdraw(u)
                     \/ \E code \in Codes : Attempt(u, code)

AgentNext ==
  \/ Collect \/ Search \/ ReadHistory \/ Enqueue \/ CollectFails \/ Peek
  \/ \E c \in Conns : Send(c)
  \/ Unreachable \/ Forbidden \/ Settle \/ GiveUp \/ Stop

ConnNext(c) == Duplicate(c) \/ Begin(c) \/ Commit(c) \/ Over(c)
BackendNext == \E c \in Conns : ConnNext(c) \/ Reject(c) \/ BreaksOff(c)

Next == WindowsNext \/ AgentNext \/ BackendNext
Spec == Init /\ [][Next]_vars

\* The timer starts cycles and the backend handles what has reached it.
CycleNext == CollectFails \/ Collect \/ Search \/ ReadHistory \/ Enqueue \/ Peek \/ (\E c \in Conns : Send(c)) \/ Settle
LiveSpec == Spec /\ WF_vars(CycleNext) /\ \A c \in Conns : WF_vars(ConnNext(c))

-----------------------------------------------------------------------------

States == {"unknown", "available", "installed", "failed", "superseded"}
Outcomes == {"accepted", "duplicate", "rejected"}
Types == {"appeared", "installed", "failed", "disappeared"}
Moments == 1 .. clock
Snapshots == [at: Moments, open: SUBSET Updates, history: SUBSET history]
Results == [at: Moments, outcome: Outcomes]
Transactions == [at: Moments, open: SUBSET Updates, history: SUBSET history,
                 existing: [Updates -> States]]
Requests == [pc: {"run"}, todo: SUBSET Snapshots, result: SUBSET Results, tx: SUBSET Transactions]

TypeOK ==
  /\ clock \in 0 .. MaxTime /\ marker \in 0 .. clock
  /\ offered \subseteq Updates
  /\ history \subseteq [update: Updates, at: Moments, code: Codes]
  /\ left \in [Updates -> {"none", "withdrawn", "installed"}]
  /\ queue \subseteq Snapshots /\ IsFiniteSet(queue) /\ Cardinality(queue) <= QueueMax
  /\ \/ cycle \in [pc: {"idle", "flush"}] \cup [pc: {"search"}, at: Moments]
     \/ cycle \in [pc: {"read"}, at: Moments, open: SUBSET Updates]
     \/ cycle \in [pc: {"store"}, snapshot: Snapshots]
     \/ cycle \in [pc: {"send"}, pending: SUBSET Snapshots]
     \/ cycle \in [pc: {"wait"}, conn: Conns, pending: SUBSET Snapshots]
  /\ conn \in [Conns -> {Idle} \cup Requests]
  /\ checkins \subseteq Moments /\ state \in [Updates -> States]
  /\ events \subseteq [update: Updates, type: Types, at: Moments]
  /\ newest \in [at: 0 .. clock, open: SUBSET Updates, history: SUBSET history]
  /\ dropped \subseteq history /\ disordered \in BOOLEAN

\* Every attempt before the marker has reached the time line, is in the queue, or
\* was in a snapshot that was dropped: marker and queue never get out of step,
\* wherever the agent stops and whatever is sent twice (SnapshotQueue.cs:23-28).
NothingLost ==
  \A e \in history : e.at <= marker =>
    \/ [update |-> e.update, type |-> IF Ok(e) THEN "installed" ELSE "failed", at |-> e.at]
         \in events
    \/ e \in AttemptsOf(queue) \cup dropped

\* What the newest snapshot lists is open, and nothing else is: no snapshot is
\* taken after a newer one, though two requests with the same snapshots may be
\* handled at once - unless one of them has left out a snapshot of the other.
NewestWins == ~disordered => {u \in Updates : state[u] = "available"} = newest.open

\* An update is called superseded only if Windows withdrew it: one that was
\* installed is explained by the history of the same snapshot or of one before.
\* Speaks of moments when the backend knows all attempts.
SupersededWasWithdrawn ==
  \A u \in Updates :
    /\ state[u] = "superseded" /\ ~disordered /\ u \notin offered
    /\ \A e \in history : e.update = u => e.at <= newest.at /\ e \notin dropped
    => left[u] = "withdrawn"

\* In the time line no update appears twice without having gone, failed or been
\* installed in between.
TimelineAlternates ==
  ~disordered =>
    \A a, b \in {e \in events : e.type = "appeared"} :
      a.update = b.update /\ a.at < b.at =>
        \E e \in events : e.update = a.update /\ e.type # "appeared" /\ a.at < e.at /\ e.at <= b.at

\* Requests fail, are rejected or given up for a while.
Disturbed == Unreachable \/ Forbidden \/ GiveUp \/ Stop \/ \E c \in Conns : BreaksOff(c)

\* Once the backend can be reached for good, the queue is sent off again and again:
\* nothing in it blocks what comes after, rejected or not.
QueueDrains == <>[][~Disturbed]_vars => []<>(queue = {})

\* Refuted: "Fuer den Zustand zaehlt der letzte [Versuch]" (checkin.service.ts:402-406). Of
\* two attempts in one snapshot the second finds the target of the first and leaves it.
LatestAttemptCounts ==
  \A u \in Updates \ newest.open : ~disordered /\ Attempts(newest, u) # {} =>
    \E e \in Attempts(newest, u) :
      /\ \A f \in Attempts(newest, u) : f.at <= e.at
      /\ state[u] = IF Ok(e) THEN "installed" ELSE "failed"
=============================================================================
