-------------------------- MODULE ReportingProofs --------------------------
(***************************************************************************)
(* What Reporting promises for every number of updates, requests, queue    *)
(* and batch, and for any course of faults: its types; that every attempt  *)
(* Windows ended is in the time line, under way or accounted for; and,     *)
(* unless a rejection went unheard, that the newest snapshot decides the   *)
(* states, that the time line is plausible and that what was installed is  *)
(* never shown as superseded.                                              *)
(*                                                                         *)
(* BInv holds whatever the order: a snapshot and its copies agree, the     *)
(* marker separates what is stored from what is being collected, and an    *)
(* attempt the backend does not know is in the first snapshot after it.    *)
(* OInv holds until disordered: what is in the queue and not yet taken is  *)
(* newer than all that was taken, although requests that were given up go  *)
(* on beside the one the agent waits for.                                  *)
(***************************************************************************)
EXTENDS Reporting, FiniteSetTheorems, TLAPS

-----------------------------------------------------------------------------
(* What the backend has of each request.                                    *)

Running(c) == conn[c].pc = "run"
Todo(c) == IF Running(c) THEN conn[c].todo ELSE {}
Result(c) == IF Running(c) THEN conn[c].result ELSE {}
Tx(c) == IF Running(c) THEN conn[c].tx ELSE {}

\* What a step makes of the request on c, the others being left alone.
Turns(c, run, todo, result, tx) ==
  /\ Running(c)' = run /\ Todo(c)' = todo /\ Result(c)' = result /\ Tx(c)' = tx
  /\ \A d \in Conns \ {c} : /\ Running(d)' = Running(d) /\ Todo(d)' = Todo(d)
                            /\ Result(d)' = Result(d) /\ Tx(d)' = Tx(d)

LEMMA RequestTyped ==
  ASSUME TypeOK, NEW c \in Conns
  PROVE  /\ Running(c) \in BOOLEAN
         /\ Todo(c) \subseteq Snapshots /\ Result(c) \subseteq Results /\ Tx(c) \subseteq Transactions
         /\ Running(c) => conn[c] \in Requests
         /\ ~Running(c) => conn[c] = Idle /\ Todo(c) = {} /\ Result(c) = {} /\ Tx(c) = {}
<1>1. conn[c] = Idle \/ conn[c] \in Requests
  BY DEF TypeOK
<1>2. CASE conn[c] = Idle
  BY <1>2 DEF Running, Todo, Result, Tx, Idle
<1>3. CASE conn[c] \in Requests
  BY <1>3 DEF Running, Todo, Result, Tx, Requests
<1>4. QED BY <1>1, <1>2, <1>3

LEMMA SendTurns ==
  ASSUME TypeOK, NEW c \in Conns, NEW batch,
         conn' = [conn EXCEPT ![c] = [pc |-> "run", todo |-> batch, result |-> {}, tx |-> {}]]
  PROVE  Turns(c, TRUE, batch, {}, {})
<1>1. conn'[c] = [pc |-> "run", todo |-> batch, result |-> {}, tx |-> {}]
  BY DEF TypeOK
<1>2. \A d \in Conns \ {c} : conn'[d] = conn[d]
  BY DEF TypeOK
<1>3. QED BY <1>1, <1>2 DEF Turns, Running, Todo, Result, Tx

LEMMA EndTurns ==
  ASSUME TypeOK, NEW c \in Conns, conn' = [conn EXCEPT ![c] = Idle]
  PROVE  Turns(c, FALSE, {}, {}, {})
<1>1. conn'[c] = Idle
  BY DEF TypeOK
<1>2. \A d \in Conns \ {c} : conn'[d] = conn[d]
  BY DEF TypeOK
<1>3. QED BY <1>1, <1>2 DEF Turns, Running, Todo, Result, Tx, Idle

LEMMA AnsweredTurns ==
  ASSUME TypeOK, NEW c \in Conns, Running(c), NEW s, NEW outcome, Answered(c, s, outcome)
  PROVE  Turns(c, TRUE, Todo(c) \ Earliest(Todo(c)),
               Result(c) \cup {[at |-> s.at, outcome |-> outcome]}, {})
<1>1. conn[c] \in Requests
  BY RequestTyped
<1>2. /\ conn'[c].pc = "run" /\ conn'[c].todo = conn[c].todo \ Earliest(conn[c].todo)
      /\ conn'[c].result = conn[c].result \cup {[at |-> s.at, outcome |-> outcome]}
      /\ conn'[c].tx = {}
  BY <1>1 DEF TypeOK, Answered, Requests
<1>3. \A d \in Conns \ {c} : conn'[d] = conn[d]
  BY DEF TypeOK, Answered
<1>4. QED BY <1>2, <1>3 DEF Turns, Running, Todo, Result, Tx

LEMMA BeginTurns ==
  ASSUME TypeOK, NEW c \in Conns, Running(c), NEW tx, conn' = [conn EXCEPT ![c].tx = tx]
  PROVE  Turns(c, TRUE, Todo(c), Result(c), tx)
<1>1. conn[c] \in Requests
  BY RequestTyped
<1>2. /\ conn'[c].pc = "run" /\ conn'[c].todo = conn[c].todo
      /\ conn'[c].result = conn[c].result /\ conn'[c].tx = tx
  BY <1>1 DEF TypeOK, Requests
<1>3. \A d \in Conns \ {c} : conn'[d] = conn[d]
  BY DEF TypeOK
<1>4. QED BY <1>2, <1>3 DEF Turns, Running, Todo, Result, Tx

-----------------------------------------------------------------------------
(* Types.                                                                   *)

LEMMA Moment ==
  ASSUME TypeOK
  PROVE  /\ clock \in Nat /\ marker \in Nat /\ newest.at \in Nat
         /\ Moments \subseteq Nat
BY TimeAssumption DEF TypeOK, Moments

LEMMA CycleTyped ==
  ASSUME TypeOK
  PROVE  /\ cycle.pc \in {"idle", "flush", "search", "read", "store", "send", "wait"}
         /\ cycle.pc = "search" => cycle \in [pc: {"search"}, at: Moments]
         /\ cycle.pc = "read" => cycle \in [pc: {"read"}, at: Moments, open: SUBSET Updates]
         /\ cycle.pc = "store" => cycle \in [pc: {"store"}, snapshot: Snapshots]
         /\ cycle.pc = "send" => cycle \in [pc: {"send"}, pending: SUBSET Snapshots]
         /\ cycle.pc = "wait" => cycle \in [pc: {"wait"}, conn: Conns, pending: SUBSET Snapshots]
BY DEF TypeOK

\* The types only grow: with the clock, and with what Windows has ended.
LEMMA TypesGrow ==
  ASSUME TypeOK, clock' \in Nat, clock <= clock', history \subseteq history'
  PROVE  /\ Moments \subseteq Moments' /\ 0 .. clock \subseteq 0 .. clock'
         /\ Snapshots \subseteq Snapshots' /\ Results \subseteq Results'
         /\ Transactions \subseteq Transactions' /\ Requests \subseteq Requests'
<1>1. Moments \subseteq Moments' /\ 0 .. clock \subseteq 0 .. clock'
  BY Moment DEF Moments
<1>2. Snapshots \subseteq Snapshots' /\ Results \subseteq Results' /\ Transactions \subseteq Transactions'
  BY <1>1 DEF Snapshots, Results, Transactions
<1>3. Requests \subseteq Requests'
  BY <1>2 DEF Requests
<1>4. QED BY <1>1, <1>2, <1>3

LEMMA CycleStays ==
  ASSUME TypeOK, clock' \in Nat, clock <= clock', history \subseteq history', UNCHANGED cycle
  PROVE  \/ cycle' \in [pc: {"idle", "flush"}] \cup [pc: {"search"}, at: Moments']
         \/ cycle' \in [pc: {"read"}, at: Moments', open: SUBSET Updates]
         \/ cycle' \in [pc: {"store"}, snapshot: Snapshots']
         \/ cycle' \in [pc: {"send"}, pending: SUBSET Snapshots']
         \/ cycle' \in [pc: {"wait"}, conn: Conns, pending: SUBSET Snapshots']
<1>1. Moments \subseteq Moments' /\ Snapshots \subseteq Snapshots'
  BY TypesGrow
<1>2. CASE cycle \in [pc: {"idle", "flush"}] \cup [pc: {"search"}, at: Moments]
  BY <1>1, <1>2
<1>3. CASE cycle \in [pc: {"read"}, at: Moments, open: SUBSET Updates]
  BY <1>1, <1>3
<1>4. CASE cycle \in [pc: {"store"}, snapshot: Snapshots]
  BY <1>1, <1>4
<1>5. CASE cycle \in [pc: {"send"}, pending: SUBSET Snapshots]
  BY <1>1, <1>5
<1>6. CASE cycle \in [pc: {"wait"}, conn: Conns, pending: SUBSET Snapshots]
  BY <1>1, <1>6
<1>7. QED BY <1>2, <1>3, <1>4, <1>5, <1>6 DEF TypeOK

LEMMA ConnStays ==
  ASSUME TypeOK, clock' \in Nat, clock <= clock', history \subseteq history', UNCHANGED conn
  PROVE  conn' \in [Conns -> {Idle} \cup Requests']
<1>1. Requests \subseteq Requests'
  BY TypesGrow
<1>2. QED BY <1>1 DEF TypeOK

LEMMA TypeInit == Init => TypeOK
<1>1. SUFFICES ASSUME Init PROVE TypeOK
  OBVIOUS
<1>2. IsFiniteSet(queue) /\ Cardinality(queue) = 0
  BY <1>1, FS_EmptySet DEF Init
<1>3. clock \in 0 .. MaxTime /\ marker \in 0 .. clock /\ offered \subseteq Updates
  BY <1>1, TimeAssumption DEF Init
<1>4. left \in [Updates -> {"none", "withdrawn", "installed"}] /\ state \in [Updates -> States]
  BY <1>1 DEF Init, States
<1>5. cycle \in [pc: {"idle", "flush"}] /\ conn \in [Conns -> {Idle} \cup Requests]
  BY <1>1 DEF Init, Idle
<1>6. newest \in [at: 0 .. clock, open: SUBSET Updates, history: SUBSET history]
  BY <1>1 DEF Init, None
<1>7. /\ history = {} /\ queue = {} /\ checkins = {} /\ events = {} /\ dropped = {}
      /\ disordered = FALSE
  BY <1>1 DEF Init
<1>8. history \subseteq [update: Updates, at: Moments, code: Codes] /\ queue \subseteq Snapshots
  BY <1>7
<1>9. checkins \subseteq Moments /\ events \subseteq [update: Updates, type: Types, at: Moments]
  BY <1>7
<1>10. dropped \subseteq history /\ disordered \in BOOLEAN
  BY <1>7
<1>11. IsFiniteSet(queue) /\ Cardinality(queue) <= QueueMax
  BY <1>2, QueueAssumption
<1>12. QED BY <1>3, <1>4, <1>5, <1>6, <1>8, <1>9, <1>10, <1>11 DEF TypeOK

LEMMA TypesSame ==
  ASSUME UNCHANGED <<clock, history>>
  PROVE  /\ Moments' = Moments /\ Snapshots' = Snapshots /\ Results' = Results
         /\ Transactions' = Transactions /\ Requests' = Requests
<1>1. Moments' = Moments /\ Snapshots' = Snapshots /\ Results' = Results /\ Transactions' = Transactions
  BY DEF Moments, Snapshots, Results, Transactions
<1>2. QED BY <1>1 DEF Requests

\* A step of the agent or the backend, whatever it does to cycle, queue and requests.
LEMMA TypeFrom ==
  ASSUME TypeOK, UNCHANGED <<windows, tables>>,
         marker' \in 0 .. clock,
         queue' \subseteq Snapshots, IsFiniteSet(queue'), Cardinality(queue') <= QueueMax,
         \/ cycle' \in [pc: {"idle", "flush"}] \cup [pc: {"search"}, at: Moments]
         \/ cycle' \in [pc: {"read"}, at: Moments, open: SUBSET Updates]
         \/ cycle' \in [pc: {"store"}, snapshot: Snapshots]
         \/ cycle' \in [pc: {"send"}, pending: SUBSET Snapshots]
         \/ cycle' \in [pc: {"wait"}, conn: Conns, pending: SUBSET Snapshots],
         conn' \in [Conns -> {Idle} \cup Requests],
         dropped' \subseteq history, disordered' \in BOOLEAN
  PROVE  TypeOK'
<1>1. /\ clock' = clock /\ offered' = offered /\ history' = history /\ left' = left
      /\ checkins' = checkins /\ state' = state /\ events' = events /\ newest' = newest
  BY DEF windows, tables
<1>2. Moments' = Moments /\ Snapshots' = Snapshots /\ Requests' = Requests
  BY <1>1, TypesSame
<1>3. QED BY <1>1, <1>2 DEF TypeOK

LEMMA CycleSame ==
  ASSUME TypeOK, UNCHANGED <<clock, history, cycle>>
  PROVE  \/ cycle' \in [pc: {"idle", "flush"}] \cup [pc: {"search"}, at: Moments]
         \/ cycle' \in [pc: {"read"}, at: Moments, open: SUBSET Updates]
         \/ cycle' \in [pc: {"store"}, snapshot: Snapshots]
         \/ cycle' \in [pc: {"send"}, pending: SUBSET Snapshots]
         \/ cycle' \in [pc: {"wait"}, conn: Conns, pending: SUBSET Snapshots]
BY DEF TypeOK

\* A step at a moment of its own.
LEMMA TypeLater ==
  ASSUME TypeOK, UNCHANGED <<queue, marker, conn, tables, dropped, disordered>>,
         clock' \in 0 .. MaxTime, clock <= clock', history \subseteq history',
         offered' \subseteq Updates, left' \in [Updates -> {"none", "withdrawn", "installed"}],
         history' \subseteq [update: Updates, at: Moments', code: Codes],
         \/ cycle' \in [pc: {"idle", "flush"}] \cup [pc: {"search"}, at: Moments']
         \/ cycle' \in [pc: {"read"}, at: Moments', open: SUBSET Updates]
         \/ cycle' \in [pc: {"store"}, snapshot: Snapshots']
         \/ cycle' \in [pc: {"send"}, pending: SUBSET Snapshots']
         \/ cycle' \in [pc: {"wait"}, conn: Conns, pending: SUBSET Snapshots']
  PROVE  TypeOK'
<1>1. /\ queue' = queue /\ marker' = marker /\ conn' = conn
      /\ checkins' = checkins /\ state' = state /\ events' = events /\ newest' = newest
      /\ dropped' = dropped /\ disordered' = disordered
  BY DEF tables
<1>2. clock' \in Nat
  BY TimeAssumption
<1>3. /\ Moments \subseteq Moments' /\ 0 .. clock \subseteq 0 .. clock' /\ Snapshots \subseteq Snapshots'
  BY <1>2, TypesGrow
<1>4. conn' \in [Conns -> {Idle} \cup Requests']
  BY <1>1, <1>2, ConnStays
<1>5. /\ marker' \in 0 .. clock' /\ queue' \subseteq Snapshots' /\ checkins' \subseteq Moments'
      /\ IsFiniteSet(queue') /\ Cardinality(queue') <= QueueMax
  BY <1>1, <1>3 DEF TypeOK
<1>6. events' \subseteq [update: Updates, type: Types, at: Moments']
  BY <1>1, <1>3 DEF TypeOK
<1>7. /\ newest' \in [at: 0 .. clock', open: SUBSET Updates, history: SUBSET history']
      /\ dropped' \subseteq history'
  BY <1>1, <1>3 DEF TypeOK
<1>8. state' \in [Updates -> States] /\ disordered' \in BOOLEAN
  BY <1>1 DEF TypeOK
<1>9. QED BY <1>4, <1>5, <1>6, <1>7, <1>8 DEF TypeOK

LEMMA AnsweredTyped ==
  ASSUME TypeOK, NEW c \in Conns, Running(c), NEW s, s.at \in Moments, NEW outcome \in Outcomes,
         Answered(c, s, outcome)
  PROVE  conn' \in [Conns -> {Idle} \cup Requests]
<1>1. conn[c] \in Requests
  BY RequestTyped
<1>2. [conn[c] EXCEPT !.todo = @ \ Earliest(@)] \in Requests
  BY <1>1 DEF Requests
<1>3. [at |-> s.at, outcome |-> outcome] \in Results
  BY DEF Results
<1>4. [[[conn[c] EXCEPT !.todo = @ \ Earliest(@)] EXCEPT !.tx = {}]
         EXCEPT !.result = @ \cup {[at |-> s.at, outcome |-> outcome]}] \in Requests
  BY <1>2, <1>3 DEF Requests
<1>5. QED BY <1>4 DEF TypeOK, Answered

LEMMA WindowsTyped == ASSUME TypeOK, WindowsNext PROVE TypeOK'
<1>1. PICK u \in Updates : Offer(u) \/ Withdraw(u) \/ \E code \in Codes : Attempt(u, code)
  BY DEF WindowsNext
<1>2. clock \in Nat /\ MaxTime \in Nat /\ clock \in 0 .. MaxTime
  BY TimeAssumption, Moment DEF TypeOK
<1>3. CASE Offer(u) \/ Withdraw(u)
  <2>1. /\ clock' = clock /\ history' = history
        /\ UNCHANGED <<queue, marker, cycle, conn, tables, dropped, disordered>>
    BY <1>3 DEF agent, Offer, Withdraw
  <2>2. offered' \subseteq Updates /\ left' \in [Updates -> {"none", "withdrawn", "installed"}]
    BY <1>3 DEF Offer, Withdraw, TypeOK
  <2>3. history' \subseteq [update: Updates, at: Moments', code: Codes]
    BY <2>1, TypesSame DEF TypeOK
  <2>4. QED BY <1>2, <2>1, <2>2, <2>3, CycleStays, TypeLater
<1>4. CASE \E code \in Codes : Attempt(u, code)
  <2>1. PICK code \in Codes : Attempt(u, code)
    BY <1>4
  <2>2. /\ clock < MaxTime /\ clock' = clock + 1
        /\ history' = history \cup {[update |-> u, at |-> clock + 1, code |-> code]}
        /\ UNCHANGED <<queue, marker, cycle, conn, tables, dropped, disordered>>
    BY <2>1 DEF agent, Attempt
  <2>3. offered' \subseteq Updates /\ left' \in [Updates -> {"none", "withdrawn", "installed"}]
    BY <2>1 DEF Attempt, TypeOK
  <2>4. clock' \in 0 .. MaxTime /\ clock <= clock' /\ clock' \in Nat
    BY <1>2, <2>2
  <2>5. Moments \subseteq Moments' /\ clock + 1 \in Moments'
    BY <1>2, <2>2 DEF Moments
  <2>6. history' \subseteq [update: Updates, at: Moments', code: Codes]
    BY <2>2, <2>5 DEF TypeOK
  <2>7. history \subseteq history'
    BY <2>2
  <2>8. QED BY <2>2, <2>3, <2>4, <2>6, <2>7, CycleStays, TypeLater
<1>5. QED BY <1>1, <1>3, <1>4

LEMMA CardinalityLess ==
  ASSUME TypeOK, NEW q, q \subseteq queue
  PROVE  IsFiniteSet(q) /\ Cardinality(q) <= QueueMax
<1>1. IsFiniteSet(queue) /\ Cardinality(queue) <= QueueMax /\ Cardinality(queue) \in Nat
  BY FS_CardinalityType DEF TypeOK
<1>2. IsFiniteSet(q) /\ Cardinality(q) <= Cardinality(queue) /\ Cardinality(q) \in Nat
  BY <1>1, FS_Subset, FS_CardinalityType
<1>3. QED BY <1>1, <1>2, QueueAssumption

LEMMA AgentTyped == ASSUME TypeOK, AgentNext PROVE TypeOK'
<1> USE CycleTyped
<1>1. CASE Collect
  <2>1. /\ clock < MaxTime /\ clock' = clock + 1 /\ cycle' = [pc |-> "search", at |-> clock + 1]
        /\ offered' = offered /\ history' = history /\ left' = left
        /\ UNCHANGED <<queue, marker, conn, tables, dropped, disordered>>
    BY <1>1 DEF Collect
  <2>2. clock' \in 0 .. MaxTime /\ clock <= clock' /\ clock' \in Nat
    BY <2>1, Moment, TimeAssumption
  <2>3. Moments \subseteq Moments' /\ clock + 1 \in Moments'
    BY <2>1, Moment DEF Moments
  <2>4. cycle' \in [pc: {"search"}, at: Moments']
    BY <2>1, <2>3
  <2>5. /\ history' \subseteq [update: Updates, at: Moments', code: Codes]
        /\ offered' \subseteq Updates /\ left' \in [Updates -> {"none", "withdrawn", "installed"}]
    BY <2>1, <2>3 DEF TypeOK
  <2>6. history \subseteq history'
    BY <2>1
  <2>7. QED BY <2>1, <2>2, <2>4, <2>5, <2>6, TypeLater
<1>2. CASE Search
  <2>1. /\ cycle.pc = "search" /\ cycle' = [pc |-> "read", at |-> cycle.at, open |-> offered]
        /\ UNCHANGED <<windows, queue, marker, conn, tables, dropped, disordered>>
    BY <1>2 DEF Search
  <2>2. cycle' \in [pc: {"read"}, at: Moments, open: SUBSET Updates]
    BY <2>1 DEF TypeOK
  <2>3. QED BY <2>1, <2>2, TypeFrom DEF TypeOK
<1>3. CASE ReadHistory
  <2>1. /\ cycle.pc = "read"
        /\ cycle' = [pc |-> "store", snapshot |-> [at |-> cycle.at, open |-> cycle.open,
                                                 history |-> Since(history, marker)]]
        /\ UNCHANGED <<windows, queue, marker, conn, tables, dropped, disordered>>
    BY <1>3 DEF ReadHistory
  <2>2. Since(history, marker) \subseteq history
    BY DEF Since
  <2>3. cycle' \in [pc: {"store"}, snapshot: Snapshots]
    BY <2>1, <2>2 DEF Snapshots
  <2>4. QED BY <2>1, <2>3, TypeFrom DEF TypeOK
<1>4. CASE Enqueue
  <2>1. PICK kept \in Kept(queue) : queue' = kept \cup {cycle.snapshot} /\ Drop(queue \ kept)
    BY <1>4 DEF Enqueue
  <2>2. cycle.snapshot \in Snapshots /\ cycle.snapshot.at \in Moments
    BY <1>4 DEF Enqueue, Snapshots
  <2>3. marker' \in 0 .. clock
    BY <1>4, <2>2, Moment DEF Enqueue, MarkerAfter, Moments
  <2>4. kept \subseteq queue /\ Cardinality(kept) < QueueMax /\ IsFiniteSet(kept)
    BY CardinalityLess DEF Kept
  <2>5. IsFiniteSet(queue') /\ Cardinality(queue') <= Cardinality(kept) + 1
        /\ Cardinality(kept) \in Nat /\ Cardinality(queue') \in Nat
    <3>1. /\ IsFiniteSet(queue') /\ Cardinality(kept) \in Nat
          /\ Cardinality(queue') = Cardinality(kept) \/ Cardinality(queue') = Cardinality(kept) + 1
      BY <2>1, <2>4, FS_AddElement, FS_CardinalityType
    <3>2. QED BY <3>1
  <2>6. queue' \subseteq Snapshots /\ Cardinality(queue') <= QueueMax
    BY <2>1, <2>2, <2>4, <2>5, QueueAssumption DEF TypeOK
  <2>7. AttemptsOf(queue \ kept) \subseteq history
    BY DEF TypeOK, AttemptsOf, Snapshots
  <2>8. dropped' \subseteq history /\ disordered' \in BOOLEAN
    BY <2>1, <2>7 DEF Drop, TypeOK
  <2>9. cycle' \in [pc: {"idle", "flush"}] /\ UNCHANGED <<windows, tables, conn>>
    BY <1>4 DEF Enqueue
  <2>10. QED BY <2>3, <2>5, <2>6, <2>8, <2>9, TypeFrom DEF TypeOK
<1>5. CASE CollectFails \/ Unreachable \/ Stop \/ GiveUp
  <2>1. /\ UNCHANGED <<windows, tables, conn, queue, marker, dropped>>
        /\ cycle' \in [pc: {"idle", "flush"}]
    BY <1>5 DEF CollectFails, Unreachable, Stop, GiveUp, Idle
  <2>2. disordered \in BOOLEAN
    BY DEF TypeOK
  <2>3. disordered' \in BOOLEAN
    BY <1>5, <2>2 DEF CollectFails, Unreachable, Stop, GiveUp
  <2>4. QED BY <2>1, <2>3, TypeFrom DEF TypeOK
<1>6. CASE Peek
  <2>1. UNCHANGED <<windows, tables, conn, queue, marker, dropped, disordered>>
    BY <1>6 DEF Peek
  <2>2. cycle' \in [pc: {"idle", "flush"}] \/ cycle' \in [pc: {"send"}, pending: SUBSET Snapshots]
    BY <1>6 DEF Peek, Idle, TypeOK
  <2>3. QED BY <2>1, <2>2, TypeFrom DEF TypeOK
<1>7. CASE \E c \in Conns : Send(c)
  <2>1. PICK c \in Conns : Send(c)
    BY <1>7
  <2>2. PICK batch \in Batches(cycle.pending) :
          /\ conn' = [conn EXCEPT ![c] = [pc |-> "run", todo |-> batch, result |-> {}, tx |-> {}]]
          /\ cycle' = [pc |-> "wait", conn |-> c, pending |-> cycle.pending \ batch]
    BY <2>1 DEF Send
  <2>3. UNCHANGED <<windows, tables, queue, marker, dropped, disordered>>
    BY <2>1 DEF Send
  <2>4. cycle.pending \subseteq Snapshots /\ batch \subseteq Snapshots
    BY <2>1 DEF Send, Batches
  <2>5. [pc |-> "run", todo |-> batch, result |-> {}, tx |-> {}] \in Requests
    BY <2>4 DEF Requests
  <2>6. conn' \in [Conns -> {Idle} \cup Requests]
    BY <2>2, <2>5 DEF TypeOK
  <2>7. cycle' \in [pc: {"wait"}, conn: Conns, pending: SUBSET Snapshots]
    BY <2>2, <2>4
  <2>8. QED BY <2>3, <2>6, <2>7, TypeFrom DEF TypeOK
<1>8. CASE Forbidden
  <2>1. /\ UNCHANGED <<windows, tables, conn, marker>> /\ queue' = {} /\ Drop(queue)
        /\ cycle' \in [pc: {"idle", "flush"}]
    BY <1>8 DEF Forbidden, Idle
  <2>2. AttemptsOf(queue) \subseteq history
    BY DEF TypeOK, AttemptsOf, Snapshots
  <2>3. dropped' \subseteq history /\ disordered' \in BOOLEAN
    BY <2>1, <2>2 DEF Drop, TypeOK
  <2>4. IsFiniteSet(queue') /\ Cardinality(queue') <= QueueMax
    BY <2>1, CardinalityLess
  <2>5. QED BY <2>1, <2>3, <2>4, TypeFrom DEF TypeOK
<1>9. CASE Settle
  <2>1. /\ UNCHANGED <<windows, tables, marker, dropped, disordered>>
        /\ queue' \subseteq queue /\ conn' = [conn EXCEPT ![cycle.conn] = Idle]
    BY <1>9 DEF Settle, Unsettled
  <2>2. cycle' \in [pc: {"idle", "flush"}] \/ cycle' \in [pc: {"send"}, pending: SUBSET Snapshots]
    BY <1>9 DEF Settle, Idle
  <2>3. conn' \in [Conns -> {Idle} \cup Requests]
    BY <2>1 DEF TypeOK
  <2>4. IsFiniteSet(queue') /\ Cardinality(queue') <= QueueMax
    BY <2>1, CardinalityLess
  <2>5. QED BY <2>1, <2>2, <2>3, <2>4, TypeFrom DEF TypeOK
<1>10. QED BY <1>1, <1>2, <1>3, <1>4, <1>5, <1>6, <1>7, <1>8, <1>9 DEF AgentNext

LEMMA NewEventsTyped ==
  ASSUME TypeOK, NEW t \in Transactions
  PROVE  NewEvents(t, t.existing) \subseteq [update: Updates, type: Types, at: Moments]
BY DEF TypeOK, Transactions, NewEvents, Appears, Types

LEMMA TargetTyped ==
  ASSUME NEW t, NEW existing, NEW u
  PROVE  Target(t, existing, u) \in {"available", "installed", "failed", "superseded", "untouched"}
BY DEF Target

LEMMA BackendTyped == ASSUME TypeOK, BackendNext PROVE TypeOK'
<1>1. PICK c \in Conns : ConnNext(c) \/ Reject(c) \/ BreaksOff(c)
  BY DEF BackendNext
<1>2. Todo(c) \subseteq Snapshots /\ Tx(c) \subseteq Transactions
  BY RequestTyped
<1>3. /\ queue \subseteq Snapshots /\ IsFiniteSet(queue) /\ Cardinality(queue) <= QueueMax
      /\ marker \in 0 .. clock /\ dropped \subseteq history /\ disordered \in BOOLEAN
  BY DEF TypeOK
<1>4. CASE Duplicate(c)
  <2>1. /\ Running(c) /\ \E s \in Earliest(Todo(c)) : Answered(c, s, "duplicate")
        /\ UNCHANGED <<windows, agent, tables, dropped, disordered>>
    BY <1>4 DEF Duplicate, Running, Todo
  <2>2. PICK s \in Earliest(Todo(c)) : Answered(c, s, "duplicate")
    BY <2>1
  <2>3. s.at \in Moments
    BY <1>2 DEF Earliest, Snapshots
  <2>4. conn' \in [Conns -> {Idle} \cup Requests]
    BY <2>1, <2>2, <2>3, AnsweredTyped DEF Outcomes
  <2>5. UNCHANGED <<clock, history, queue, marker, cycle>>
    BY <2>1 DEF windows, agent
  <2>6. QED BY <1>3, <2>1, <2>4, <2>5, CycleSame, TypeFrom
<1>5. CASE Begin(c)
  <2>1. /\ Running(c) /\ UNCHANGED <<windows, agent, tables, dropped, disordered>>
        /\ \E s \in Earliest(Todo(c)) : conn' = [conn EXCEPT ![c].tx =
             {[at |-> s.at, open |-> s.open, history |-> s.history, existing |-> state]}]
    BY <1>5 DEF Begin, Running, Todo
  <2>2. PICK s \in Earliest(Todo(c)) : conn' = [conn EXCEPT ![c].tx =
             {[at |-> s.at, open |-> s.open, history |-> s.history, existing |-> state]}]
    BY <2>1
  <2>3. {[at |-> s.at, open |-> s.open, history |-> s.history, existing |-> state]} \subseteq Transactions
    BY <1>2 DEF TypeOK, Earliest, Snapshots, Transactions
  <2>4. conn[c] \in Requests
    BY <2>1, RequestTyped
  <2>5. [conn[c] EXCEPT !.tx =
           {[at |-> s.at, open |-> s.open, history |-> s.history, existing |-> state]}] \in Requests
    BY <2>3, <2>4 DEF Requests
  <2>6. conn' \in [Conns -> {Idle} \cup Requests]
    BY <2>2, <2>5 DEF TypeOK
  <2>7. UNCHANGED <<clock, history, queue, marker, cycle>>
    BY <2>1 DEF windows, agent
  <2>8. QED BY <1>3, <2>1, <2>6, <2>7, CycleSame, TypeFrom
<1>6. CASE Commit(c)
  <2>1. /\ Running(c) /\ UNCHANGED <<windows, agent, dropped, disordered>>
        /\ \E t \in Tx(c) :
             /\ checkins' = checkins \cup {t.at}
             /\ state' = [u \in Updates |->
                  LET target == Target(t, t.existing, u)
                  IN  IF target = "untouched" THEN state[u] ELSE target]
             /\ events' = events \cup NewEvents(t, t.existing)
             /\ newest' = IF t.at >= newest.at
                          THEN [at |-> t.at, open |-> t.open, history |-> t.history] ELSE newest
             /\ Answered(c, t, "accepted")
    BY <1>6 DEF Commit, Running, Tx
  <2>2. PICK t \in Tx(c) :
             /\ checkins' = checkins \cup {t.at}
             /\ state' = [u \in Updates |->
                  LET target == Target(t, t.existing, u)
                  IN  IF target = "untouched" THEN state[u] ELSE target]
             /\ events' = events \cup NewEvents(t, t.existing)
             /\ newest' = IF t.at >= newest.at
                          THEN [at |-> t.at, open |-> t.open, history |-> t.history] ELSE newest
             /\ Answered(c, t, "accepted")
    BY <2>1
  <2>3. t \in Transactions /\ t.at \in Moments
    BY <1>2 DEF Transactions
  <2>4. conn' \in [Conns -> {Idle} \cup Requests]
    BY <2>1, <2>2, <2>3, AnsweredTyped DEF Outcomes
  <2>5. state' \in [Updates -> States]
    BY <2>2, TargetTyped DEF TypeOK, States
  <2>6. checkins' \subseteq Moments /\ events' \subseteq [update: Updates, type: Types, at: Moments]
    BY <2>2, <2>3, NewEventsTyped DEF TypeOK
  <2>7. newest' \in [at: 0 .. clock, open: SUBSET Updates, history: SUBSET history]
    <3>1. newest \in [at: 0 .. clock, open: SUBSET Updates, history: SUBSET history]
      BY DEF TypeOK
    <3>2. [at |-> t.at, open |-> t.open, history |-> t.history]
            \in [at: 0 .. clock, open: SUBSET Updates, history: SUBSET history]
      BY <2>3, Moment DEF Transactions, Moments
    <3>3. QED BY <2>2, <3>1, <3>2
  <2>8. UNCHANGED <<clock, offered, history, left, queue, marker, cycle, dropped, disordered>>
    BY <2>1 DEF windows, agent
  <2>9. Moments' = Moments /\ Snapshots' = Snapshots /\ Requests' = Requests
    BY <2>8, TypesSame
  <2>10. \/ cycle' \in [pc: {"idle", "flush"}] \cup [pc: {"search"}, at: Moments']
         \/ cycle' \in [pc: {"read"}, at: Moments', open: SUBSET Updates]
         \/ cycle' \in [pc: {"store"}, snapshot: Snapshots']
         \/ cycle' \in [pc: {"send"}, pending: SUBSET Snapshots']
         \/ cycle' \in [pc: {"wait"}, conn: Conns, pending: SUBSET Snapshots']
    BY <2>8, <2>9, CycleSame
  <2>11. /\ clock' \in 0 .. MaxTime /\ marker' \in 0 .. clock' /\ offered' \subseteq Updates
         /\ history' \subseteq [update: Updates, at: Moments', code: Codes]
         /\ left' \in [Updates -> {"none", "withdrawn", "installed"}]
         /\ queue' \subseteq Snapshots' /\ IsFiniteSet(queue') /\ Cardinality(queue') <= QueueMax
         /\ dropped' \subseteq history' /\ disordered' \in BOOLEAN
    BY <1>3, <2>8, <2>9 DEF TypeOK
  <2>12. /\ conn' \in [Conns -> {Idle} \cup Requests'] /\ checkins' \subseteq Moments'
         /\ events' \subseteq [update: Updates, type: Types, at: Moments']
         /\ newest' \in [at: 0 .. clock', open: SUBSET Updates, history: SUBSET history']
    BY <2>4, <2>6, <2>7, <2>8, <2>9
  <2>13. QED BY <2>5, <2>10, <2>11, <2>12 DEF TypeOK
<1>7. CASE Over(c) \/ BreaksOff(c)
  <2>1. /\ conn' = [conn EXCEPT ![c] = Idle]
        /\ cycle' = cycle \/ cycle' = Idle
        /\ UNCHANGED <<windows, queue, marker, tables, dropped>>
    BY <1>7 DEF Over, BreaksOff, agent
  <2>2. disordered' \in BOOLEAN
    BY <1>3, <1>7 DEF Over, BreaksOff
  <2>3. conn' \in [Conns -> {Idle} \cup Requests]
    BY <2>1 DEF TypeOK
  <2>4. UNCHANGED <<clock, history>>
    BY <2>1 DEF windows
  <2>5. CASE cycle' = cycle
    BY <1>3, <2>1, <2>2, <2>3, <2>4, <2>5, CycleSame, TypeFrom
  <2>6. CASE cycle' = Idle
    <3>1. cycle' \in [pc: {"idle", "flush"}]
      BY <2>6 DEF Idle
    <3>2. QED BY <1>3, <2>1, <2>2, <2>3, <3>1, TypeFrom
  <2>7. QED BY <2>1, <2>5, <2>6
<1>8. CASE Reject(c)
  <2>1. /\ Running(c) /\ UNCHANGED <<windows, agent, tables>>
        /\ \E t \in Tx(c) : Answered(c, t, "rejected") /\ dropped' = dropped \cup t.history
    BY <1>8 DEF Reject, Running, Tx
  <2>2. PICK t \in Tx(c) : Answered(c, t, "rejected") /\ dropped' = dropped \cup t.history
    BY <2>1
  <2>3. t.at \in Moments /\ t.history \subseteq history
    BY <1>2 DEF Transactions
  <2>4. conn' \in [Conns -> {Idle} \cup Requests]
    BY <2>1, <2>2, <2>3, AnsweredTyped DEF Outcomes
  <2>5. dropped' \subseteq history /\ disordered' \in BOOLEAN
    BY <1>3, <1>8, <2>2, <2>3 DEF Reject
  <2>6. UNCHANGED <<clock, history, queue, marker, cycle>>
    BY <2>1 DEF windows, agent
  <2>7. QED BY <1>3, <2>1, <2>4, <2>5, <2>6, CycleSame, TypeFrom
<1>9. QED BY <1>1, <1>4, <1>5, <1>6, <1>7, <1>8 DEF ConnNext

LEMMA TypeStutter == ASSUME TypeOK, UNCHANGED vars PROVE TypeOK'
<1>1. /\ UNCHANGED <<windows, tables, clock, history, queue, marker, cycle, conn, dropped, disordered>>
  BY DEF vars, windows, agent
<1>2. QED BY <1>1, CycleSame, TypeFrom DEF TypeOK

LEMMA TypeStep == ASSUME TypeOK, [Next]_vars PROVE TypeOK'
BY WindowsTyped, AgentTyped, BackendTyped, TypeStutter DEF Next

\* The type invariant, for any number of updates, requests, snapshots in the queue
\* and moments.
THEOREM TypeCorrect == Spec => []TypeOK
<1>1. QED BY TypeInit, TypeStep, PTL DEF Spec

-----------------------------------------------------------------------------
(* The invariant, whatever the order.                                       *)

\* The copies of snapshots there are: in the queue and in the requests.
Around == queue \cup UNION {Todo(c) : c \in Conns}
Agree == \A s, t \in Around : s.at = t.at => s = t

Collecting == cycle.pc \in {"search", "read", "store"}
Began == IF cycle.pc = "store" THEN cycle.snapshot.at ELSE cycle.at
Event(e) == [update |-> e.update, type |-> IF Ok(e) THEN "installed" ELSE "failed", at |-> e.at]

\* The marker separates what has been stored from what is being collected.
Marked ==
  /\ \A s \in Around : s.at <= marker
  /\ \A c \in Conns : \A r \in Result(c) : r.at <= marker
  /\ \A k \in checkins : k <= newest.at
  /\ newest.at <= marker
  /\ Collecting => marker < Began

\* The snapshot that is about to be stored has every attempt since the marker.
Complete ==
  cycle.pc = "store" =>
    /\ \A e \in history : marker < e.at /\ e.at <= cycle.snapshot.at => e \in cycle.snapshot.history
    /\ \A e \in cycle.snapshot.history : marker < e.at

\* A transaction works on the next snapshot of its request, one that is not taken
\* yet; no two work on the same.
InHand ==
  /\ \A c \in Conns : \A t, u \in Tx(c) : t = u
  /\ \A c \in Conns : \A t \in Tx(c) :
       /\ t.at \notin checkins
       /\ \E s \in Earliest(Todo(c)) : t.at = s.at /\ t.open = s.open /\ t.history = s.history
  /\ \A c, d \in Conns : \A t \in Tx(c), u \in Tx(d) : t.at = u.at => c = d

\* What the agent will hear is true, and about snapshots before those still to do.
Heard ==
  \A c \in Conns : \A r \in Result(c) :
    /\ r.outcome # "rejected" => r.at \in checkins
    /\ r.outcome = "rejected" => \A s \in queue : s.at = r.at => s.history \subseteq dropped
    /\ \A s \in Todo(c) : r.at < s.at

Recorded == \A s \in Around : s.at \in checkins => \A e \in s.history : Event(e) \in events

\* The agent sends its queue and nothing else: what is not pending has been sent.
Flush ==
  /\ cycle.pc = "send" => cycle.pending = queue
  /\ cycle.pc = "wait" =>
       /\ Running(cycle.conn)
       /\ cycle.pending \subseteq queue
       /\ \A q \in queue \ cycle.pending :
            q \in Todo(cycle.conn) \/ \E r \in Result(cycle.conn) : r.at = q.at
       /\ \A p \in cycle.pending : /\ \A s \in Todo(cycle.conn) : s.at < p.at
                                  /\ \A r \in Result(cycle.conn) : r.at < p.at

\* An attempt the backend does not know yet is in the first snapshot after it.
First ==
  \A e \in history : newest.at < e.at /\ e.at <= marker =>
    \/ e \in dropped
    \/ \E s \in queue : /\ e \in s.history /\ e.at <= s.at
                        /\ \A q \in queue : e.at <= q.at => s.at <= q.at

\* The attempts of a snapshot lie between the one before it and the one after it.
Spans ==
  \A s \in queue : \A e \in s.history :
    /\ \A q \in queue : (q.at < s.at => q.at < e.at) /\ (s.at < q.at => e.at < q.at)
    /\ Collecting => e.at < Began

BInv == TypeOK /\ Agree /\ Marked /\ Complete /\ InHand /\ Heard /\ Recorded /\ Flush /\ First /\ Spans

-----------------------------------------------------------------------------
(* What the steps do, in those terms.                                       *)

LEMMA ConnSame ==
  ASSUME UNCHANGED conn, NEW c \in Conns
  PROVE  Running(c)' = Running(c) /\ Todo(c)' = Todo(c) /\ Result(c)' = Result(c) /\ Tx(c)' = Tx(c)
BY DEF Running, Todo, Result, Tx

LEMMA EarliestOnly ==
  ASSUME TypeOK, NEW c \in Conns, NEW s \in Earliest(Todo(c))
  PROVE  /\ s \in Todo(c) /\ s \in Snapshots /\ s.at \in Nat
         /\ \A t \in Todo(c) : t \in Snapshots /\ t.at \in Nat /\ s.at <= t.at
         /\ \A t \in Todo(c) \ Earliest(Todo(c)) : s.at < t.at
<1>1. Todo(c) \subseteq Snapshots /\ Moments \subseteq Nat
  BY RequestTyped, Moment
<1>2. \A t \in Todo(c) : t \in Snapshots /\ t.at \in Nat
  BY <1>1 DEF Snapshots
<1>3. s \in Todo(c) /\ \A t \in Todo(c) : s.at <= t.at
  BY DEF Earliest
<1>4. ASSUME NEW t \in Todo(c) \ Earliest(Todo(c)) PROVE s.at < t.at
  <2>1. PICK u \in Todo(c) : ~(t.at <= u.at)
    BY <1>4 DEF Earliest
  <2>2. s.at <= u.at /\ s.at \in Nat /\ u.at \in Nat /\ t.at \in Nat
    BY <1>2, <1>3, <2>1
  <2>3. QED BY <2>1, <2>2
<1>5. QED BY <1>2, <1>3, <1>4

\* Three ways in which a snapshot is answered.
Answers(c, s, outcome) ==
  /\ Running(c) /\ s \in Earliest(Todo(c))
  /\ Turns(c, TRUE, Todo(c) \ Earliest(Todo(c)),
           Result(c) \cup {[at |-> s.at, outcome |-> outcome]}, {})
  /\ outcome # "rejected" => s.at \in checkins' /\ dropped' = dropped /\ disordered' = disordered
  /\ outcome = "rejected" => /\ s.history \subseteq dropped'
                             /\ disordered' \/ \A d \in Conns : ~Late(d)
  /\ UNCHANGED <<windows, queue, marker, cycle>>

LEMMA Answering ==
  ASSUME TypeOK, InHand, NEW c \in Conns, Duplicate(c) \/ Commit(c) \/ Reject(c)
  PROVE  \E s, outcome : Answers(c, s, outcome)
<1>1. Running(c) /\ UNCHANGED <<windows, queue, marker, cycle>>
  BY DEF Duplicate, Commit, Reject, Running, agent
<1>2. CASE Duplicate(c)
  <2>1. PICK s \in Earliest(Todo(c)) : s.at \in checkins /\ Answered(c, s, "duplicate")
    BY <1>1, <1>2 DEF Duplicate, Todo
  <2>2. checkins' = checkins /\ dropped' = dropped /\ disordered' = disordered
    BY <1>2 DEF Duplicate, tables
  <2>3. Answers(c, s, "duplicate")
    BY <1>1, <2>1, <2>2, AnsweredTurns DEF Answers
  <2>4. QED BY <2>3
<1>3. CASE Commit(c)
  <2>1. PICK t \in Tx(c) : checkins' = checkins \cup {t.at} /\ Answered(c, t, "accepted")
    BY <1>1, <1>3 DEF Commit, Tx
  <2>2. PICK s \in Earliest(Todo(c)) : t.at = s.at
    BY <2>1 DEF InHand
  <2>3. dropped' = dropped /\ disordered' = disordered
    BY <1>3 DEF Commit
  <2>4. Turns(c, TRUE, Todo(c) \ Earliest(Todo(c)),
              Result(c) \cup {[at |-> s.at, outcome |-> "accepted"]}, {})
    BY <1>1, <2>1, <2>2, AnsweredTurns
  <2>5. Answers(c, s, "accepted")
    BY <1>1, <2>1, <2>2, <2>3, <2>4 DEF Answers
  <2>6. QED BY <2>5
<1>4. CASE Reject(c)
  <2>1. PICK t \in Tx(c) : dropped' = dropped \cup t.history /\ Answered(c, t, "rejected")
    BY <1>1, <1>4 DEF Reject, Tx
  <2>2. PICK s \in Earliest(Todo(c)) : t.at = s.at /\ t.history = s.history
    BY <2>1 DEF InHand
  <2>3. disordered' \/ \A d \in Conns : ~Late(d)
    BY <1>4 DEF Reject
  <2>4. Turns(c, TRUE, Todo(c) \ Earliest(Todo(c)),
              Result(c) \cup {[at |-> s.at, outcome |-> "rejected"]}, {})
    BY <1>1, <2>1, <2>2, AnsweredTurns
  <2>5. Answers(c, s, "rejected")
    BY <1>1, <2>1, <2>2, <2>3, <2>4 DEF Answers
  <2>6. QED BY <2>5
<1>5. QED BY <1>2, <1>3, <1>4

\* A batch is sent: the whole queue is pending before.
Sends(c, batch) ==
  /\ cycle.pc = "send" /\ ~Running(c) /\ batch \in Batches(queue)
  /\ Turns(c, TRUE, batch, {}, {})
  /\ cycle' = [pc |-> "wait", conn |-> c, pending |-> queue \ batch]
  /\ UNCHANGED <<windows, queue, marker, tables, dropped, disordered>>

LEMMA Sending ==
  ASSUME TypeOK, Flush, NEW c \in Conns, Send(c)
  PROVE  \E batch : Sends(c, batch)
<1>1. cycle.pc = "send" /\ cycle.pending = queue /\ ~Running(c)
  BY DEF Send, Flush, Running
<1>2. PICK batch \in Batches(queue) :
        /\ conn' = [conn EXCEPT ![c] = [pc |-> "run", todo |-> batch, result |-> {}, tx |-> {}]]
        /\ cycle' = [pc |-> "wait", conn |-> c, pending |-> queue \ batch]
  BY <1>1 DEF Send
<1>3. Turns(c, TRUE, batch, {}, {})
  BY <1>2, SendTurns
<1>4. UNCHANGED <<windows, queue, marker, tables, dropped, disordered>>
  BY DEF Send
<1>5. QED BY <1>1, <1>2, <1>3, <1>4 DEF Sends

\* The transaction on c begins, on the earliest snapshot to do.
Begins(c, s) ==
  /\ Running(c) /\ s \in Earliest(Todo(c)) /\ Tx(c) = {}
  /\ s.at \notin checkins /\ \A d \in Conns \ {c} : \A t \in Tx(d) : t.at # s.at
  /\ Turns(c, TRUE, Todo(c), Result(c),
           {[at |-> s.at, open |-> s.open, history |-> s.history, existing |-> state]})
  /\ UNCHANGED <<windows, queue, marker, cycle, tables, dropped, disordered>>

LEMMA Beginning ==
  ASSUME TypeOK, NEW c \in Conns, Begin(c)
  PROVE  \E s : Begins(c, s)
<1>1. Running(c) /\ Tx(c) = {} /\ UNCHANGED <<windows, queue, marker, cycle, tables, dropped, disordered>>
  BY DEF Begin, Running, Tx, agent
<1>2. PICK s \in Earliest(Todo(c)) :
        /\ s.at \notin checkins /\ ~MustWait(c, s)
        /\ conn' = [conn EXCEPT ![c].tx =
             {[at |-> s.at, open |-> s.open, history |-> s.history, existing |-> state]}]
  BY <1>1 DEF Begin, Todo
<1>3. \A d \in Conns \ {c} : \A t \in Tx(d) : t.at # s.at
  BY <1>2 DEF MustWait, Tx, Running
<1>4. Turns(c, TRUE, Todo(c), Result(c),
            {[at |-> s.at, open |-> s.open, history |-> s.history, existing |-> state]})
  BY <1>1, <1>2, BeginTurns
<1>5. QED BY <1>1, <1>2, <1>3, <1>4 DEF Begins

\* The request on c is over: settled, over without the agent, or broken off.
Ends(c) == (Settle /\ c = cycle.conn) \/ Over(c) \/ BreaksOff(c)

LEMMA Ending ==
  ASSUME TypeOK, NEW c \in Conns, Ends(c)
  PROVE  /\ Running(c) /\ Turns(c, FALSE, {}, {}, {})
         /\ UNCHANGED <<windows, marker, tables, dropped>>
         /\ ~Settle => queue' = queue
         /\ queue' \subseteq queue
         /\ cycle' # cycle => cycle.pc = "wait" /\ cycle.conn = c /\ cycle'.pc \in {"idle", "send"}
         /\ cycle.pc = "wait" /\ cycle.conn = c => cycle'.pc \in {"idle", "send"}
<1>1. conn' = [conn EXCEPT ![c] = Idle] /\ Running(c)
  BY DEF Ends, Settle, Over, Late, BreaksOff, Running
<1>2. UNCHANGED <<windows, marker, tables, dropped>> /\ (~Settle => queue' = queue)
  BY DEF Ends, Settle, Over, BreaksOff, agent
<1>3. queue' \subseteq queue
  BY DEF Ends, Settle, Over, BreaksOff, agent, Unsettled
<1>4. CASE Settle /\ c = cycle.conn
  BY <1>1, <1>2, <1>3, <1>4, EndTurns DEF Settle, Idle
<1>5. CASE Over(c)
  BY <1>1, <1>2, <1>3, <1>5, EndTurns DEF Over, Late, agent
<1>6. CASE BreaksOff(c)
  BY <1>1, <1>2, <1>3, <1>6, EndTurns DEF BreaksOff, Late, Idle
<1>7. QED BY <1>4, <1>5, <1>6 DEF Ends

\* The agent goes on without the queue and the requests being touched.
Quiet == Collect \/ Search \/ ReadHistory \/ CollectFails \/ Peek \/ Unreachable \/ Stop

LEMMA BeingQuiet ==
  ASSUME TypeOK, Quiet
  PROVE  /\ UNCHANGED <<offered, history, left, queue, marker, conn, tables, dropped, disordered>>
         /\ cycle.pc # "wait" /\ cycle'.pc # "wait"
BY DEF Quiet, Collect, Search, ReadHistory, CollectFails, Peek, Unreachable, Stop, Idle, windows

Elsewhere == WindowsNext \/ UNCHANGED vars

LEMMA BeingElsewhere ==
  ASSUME Elsewhere
  PROVE  UNCHANGED <<queue, marker, cycle, conn, tables, dropped, disordered>>
BY DEF Elsewhere, WindowsNext, Offer, Withdraw, Attempt, vars, agent

LEMMA Kinds ==
  ASSUME TypeOK, InHand, Flush, [Next]_vars
  PROVE  \/ Elsewhere \/ Quiet \/ GiveUp \/ Enqueue \/ Forbidden
         \/ \E c \in Conns : \/ \E batch : Sends(c, batch)
                             \/ \E s : Begins(c, s)
                             \/ \E s, outcome : Answers(c, s, outcome)
                             \/ Ends(c)
<1>1. CASE WindowsNext \/ UNCHANGED vars
  BY <1>1 DEF Elsewhere
<1>2. CASE Settle
  <2>1. cycle.conn \in Conns
    BY <1>2, CycleTyped DEF Settle
  <2>2. QED BY <1>2, <2>1 DEF Ends
<1>3. CASE \E c \in Conns : Send(c)
  BY <1>3, Sending
<1>4. CASE \E c \in Conns : Begin(c)
  BY <1>4, Beginning
<1>5. CASE \E c \in Conns : Duplicate(c) \/ Commit(c) \/ Reject(c)
  BY <1>5, Answering
<1>6. CASE \E c \in Conns : Over(c) \/ BreaksOff(c)
  BY <1>6 DEF Ends
<1>7. CASE Quiet \/ GiveUp \/ Enqueue \/ Forbidden
  BY <1>7
<1>8. QED BY <1>1, <1>2, <1>3, <1>4, <1>5, <1>6, <1>7 DEF Next, AgentNext, BackendNext, ConnNext, Quiet

\* What only grows.
LEMMA Grows ==
  ASSUME TypeOK, Marked, [Next]_vars
  PROVE  /\ history \subseteq history' /\ events \subseteq events' /\ checkins \subseteq checkins'
         /\ dropped \subseteq dropped' /\ (disordered => disordered')
         /\ clock <= clock' /\ marker <= marker' /\ newest.at <= newest'.at
<1>1. clock \in Nat /\ marker \in Nat /\ newest.at \in Nat
  BY Moment
<1>0. disordered \in BOOLEAN
  BY DEF TypeOK
<1>2. CASE WindowsNext
  BY <1>1, <1>2 DEF WindowsNext, Offer, Withdraw, Attempt, agent, tables
<1>3. CASE Enqueue
  <2>1. /\ UNCHANGED <<windows, tables>> /\ cycle.pc = "store" /\ marker' = cycle.snapshot.at
        /\ \E kept : Drop(queue \ kept)
    BY <1>3 DEF Enqueue, MarkerAfter
  <2>2. marker < cycle.snapshot.at /\ cycle.snapshot.at \in Nat
    BY <2>1, Moment, CycleTyped DEF Marked, Collecting, Began, Snapshots
  <2>3. dropped \subseteq dropped' /\ (disordered => disordered')
    BY <1>0, <2>1 DEF Drop
  <2>4. QED BY <1>1, <2>1, <2>2, <2>3 DEF windows, tables
<1>4. CASE Forbidden
  <2>1. dropped \subseteq dropped' /\ (disordered => disordered')
    BY <1>0, <1>4 DEF Forbidden, Drop
  <2>2. QED BY <1>1, <1>4, <2>1 DEF Forbidden, windows, tables
<1>5. CASE Collect
  BY <1>1, <1>5 DEF Collect, tables
<1>6. CASE Search \/ ReadHistory \/ CollectFails \/ Peek \/ Unreachable \/ Stop
           \/ GiveUp \/ Settle \/ \E c \in Conns : Send(c)
  <2>1. UNCHANGED <<windows, tables, marker, dropped>>
    BY <1>6 DEF Search, ReadHistory, CollectFails, Peek, Unreachable, Stop, GiveUp, Settle, Send
  <2>2. disordered => disordered'
    BY <1>6 DEF Search, ReadHistory, CollectFails, Peek, Unreachable, Stop, GiveUp, Settle, Send
  <2>3. QED BY <1>1, <2>1, <2>2 DEF windows, tables
<1>7. CASE \E c \in Conns : Duplicate(c) \/ Begin(c) \/ Over(c) \/ BreaksOff(c) \/ Reject(c)
  <2>1. UNCHANGED <<windows, tables, marker>> /\ dropped \subseteq dropped'
    BY <1>7 DEF Duplicate, Begin, Over, BreaksOff, Reject, agent
  <2>2. disordered => disordered'
    BY <1>7 DEF Duplicate, Begin, Over, BreaksOff, Reject
  <2>3. QED BY <1>1, <2>1, <2>2 DEF windows, tables
<1>8. CASE \E c \in Conns : Commit(c)
  <2>1. PICK c \in Conns : Commit(c)
    BY <1>8
  <2>2. /\ UNCHANGED <<windows, agent, dropped, disordered>>
        /\ \E t \in Tx(c) :
             /\ checkins' = checkins \cup {t.at} /\ events' = events \cup NewEvents(t, t.existing)
             /\ newest' = IF t.at >= newest.at
                          THEN [at |-> t.at, open |-> t.open, history |-> t.history] ELSE newest
    BY <2>1 DEF Commit, Tx, Running
  <2>3. PICK t \in Tx(c) :
             /\ checkins' = checkins \cup {t.at} /\ events' = events \cup NewEvents(t, t.existing)
             /\ newest' = IF t.at >= newest.at
                          THEN [at |-> t.at, open |-> t.open, history |-> t.history] ELSE newest
    BY <2>2
  <2>4. t.at \in Nat
    BY RequestTyped, Moment DEF Transactions
  <2>5. newest.at <= newest'.at
    BY <1>1, <2>3, <2>4
  <2>6. QED BY <1>1, <2>2, <2>3, <2>5 DEF windows, agent
<1>9. CASE UNCHANGED vars
  BY <1>1, <1>9 DEF vars, windows, agent, tables
<1>10. QED BY <1>2, <1>3, <1>4, <1>5, <1>6, <1>7, <1>8, <1>9
           DEF Next, AgentNext, BackendNext, ConnNext

\* A snapshot is stored, the oldest being thrown away if need be.
Stores(kept) ==
  /\ cycle.pc = "store" /\ kept \subseteq queue
  /\ queue' = kept \cup {cycle.snapshot} /\ marker' = cycle.snapshot.at
  /\ dropped' = dropped \cup AttemptsOf(queue \ kept)
  /\ disordered' \/ kept = queue \/ \A c \in Conns : ~Late(c)
  /\ cycle' = [pc |-> "flush"]
  /\ UNCHANGED <<windows, conn, tables>>

LEMMA Storing ==
  ASSUME TypeOK, Marked, Enqueue
  PROVE  /\ cycle.snapshot \in Snapshots /\ marker < cycle.snapshot.at
         /\ cycle.snapshot.at \in Nat
         /\ \E kept : Stores(kept)
<1>1. cycle.snapshot \in Snapshots /\ cycle.snapshot.at \in Nat
  BY CycleTyped, Moment DEF Enqueue, Snapshots
<1>2. marker < cycle.snapshot.at
  BY DEF Enqueue, Marked, Collecting, Began
<1>3. PICK kept \in Kept(queue) : queue' = kept \cup {cycle.snapshot} /\ Drop(queue \ kept)
  BY DEF Enqueue
<1>4. kept \subseteq queue
  BY DEF Kept
<1>5. dropped' = dropped \cup AttemptsOf(queue \ kept) /\ (disordered' \/ kept = queue \/ \A c \in Conns : ~Late(c))
  BY <1>3, <1>4 DEF Drop
<1>6. cycle.pc = "store" /\ marker' = cycle.snapshot.at /\ cycle' = [pc |-> "flush"]
      /\ UNCHANGED <<windows, conn, tables>>
  BY DEF Enqueue, MarkerAfter
<1>7. Stores(kept)
  BY <1>3, <1>4, <1>5, <1>6 DEF Stores
<1>8. QED BY <1>1, <1>2, <1>7

LEMMA AroundTyped ==
  ASSUME TypeOK
  PROVE  /\ \A s \in Around : s \in Snapshots /\ s.at \in Nat
         /\ \A c \in Conns : \A r \in Result(c) : r \in Results /\ r.at \in Nat
         /\ checkins \subseteq Nat
BY RequestTyped, Moment DEF TypeOK, Around, Snapshots, Results

LEMMA AroundStep ==
  ASSUME TypeOK, Marked, InHand, Flush, [Next]_vars
  PROVE  /\ ~Enqueue => Around' \subseteq Around
         /\ Enqueue => Around' \subseteq Around \cup {cycle.snapshot}
<1>1. CASE Elsewhere
  <2>1. Around' = Around
    BY <1>1, BeingElsewhere, ConnSame DEF Around
  <2>2. QED BY <2>1
<1>2. CASE Quiet
  <2>1. Around' = Around
    BY <1>2, BeingQuiet, ConnSame DEF Around
  <2>2. QED BY <2>1
<1>3. CASE GiveUp
  <2>1. Around' = Around
    BY <1>3, ConnSame DEF GiveUp, Around
  <2>2. QED BY <2>1
<1>4. CASE Enqueue
  BY <1>4, Storing, ConnSame DEF Stores, Around
<1>5. CASE Forbidden
  <2>1. Around' \subseteq Around
    BY <1>5, ConnSame DEF Forbidden, Around
  <2>2. QED BY <2>1
<1>6. ASSUME NEW c \in Conns, NEW batch, Sends(c, batch) PROVE Around' \subseteq Around
  <2>1. batch \subseteq queue
    BY <1>6 DEF Sends, Batches
  <2>2. QED BY <1>6, <2>1 DEF Sends, Turns, Around
<1>7. ASSUME NEW c \in Conns, NEW s, Begins(c, s) PROVE Around' \subseteq Around
  BY <1>7 DEF Begins, Turns, Around
<1>8. ASSUME NEW c \in Conns, NEW s, NEW outcome, Answers(c, s, outcome) PROVE Around' \subseteq Around
  BY <1>8 DEF Answers, Turns, Around
<1>9. ASSUME NEW c \in Conns, Ends(c) PROVE Around' \subseteq Around
  BY <1>9, Ending DEF Turns, Around
<1>10. ASSUME Enqueue, NEW c \in Conns
       PROVE  /\ \A batch : ~Sends(c, batch)
              /\ \A s : ~Begins(c, s)
              /\ \A s, outcome : ~Answers(c, s, outcome)
              /\ ~Ends(c)
  <2>1. cycle.pc = "store" /\ cycle' = [pc |-> "flush"]
    BY <1>10 DEF Enqueue
  <2>2. cycle'.pc = "flush" /\ cycle' # cycle
    BY <2>1
  <2>3. QED BY <2>1, <2>2, Ending DEF Sends, Begins, Answers
<1>11. QED BY <1>1, <1>2, <1>3, <1>4, <1>5, <1>6, <1>7, <1>8, <1>9, <1>10, Kinds

LEMMA AgreeStep == ASSUME BInv, [Next]_vars PROVE Agree'
<1>1. TypeOK /\ Agree /\ Marked /\ InHand /\ Flush
  BY DEF BInv
<1>2. CASE ~Enqueue
  BY <1>1, <1>2, AroundStep DEF Agree
<1>3. CASE Enqueue
  <2>1. \A s \in Around : s.at # cycle.snapshot.at
    BY <1>1, <1>3, Storing, AroundTyped, Moment DEF Marked
  <2>2. QED BY <1>1, <1>3, <2>1, AroundStep DEF Agree
<1>4. QED BY <1>2, <1>3

\* The transaction t of c commits; s is its snapshot.
Commits(c, t, s) ==
  /\ Answers(c, s, "accepted")
  /\ t \in Tx(c) /\ t \in Transactions /\ t.at \in Nat /\ t.at \notin checkins
  /\ t.at = s.at /\ t.open = s.open /\ t.history = s.history
  /\ checkins' = checkins \cup {t.at}
  /\ state' = [u \in Updates |->
       IF Target(t, t.existing, u) = "untouched" THEN state[u] ELSE Target(t, t.existing, u)]
  /\ events' = events \cup NewEvents(t, t.existing)
  /\ newest' = IF t.at >= newest.at
               THEN [at |-> t.at, open |-> t.open, history |-> t.history] ELSE newest
  /\ UNCHANGED <<windows, agent, dropped, disordered>>

LEMMA Committing ==
  ASSUME TypeOK, InHand, NEW c \in Conns, Commit(c)
  PROVE  \E t, s : Commits(c, t, s)
<1>1. Running(c) /\ UNCHANGED <<windows, agent, dropped, disordered>>
  BY DEF Commit, Running
<1>2. PICK t \in Tx(c) :
        /\ checkins' = checkins \cup {t.at}
        /\ state' = [u \in Updates |->
             IF Target(t, t.existing, u) = "untouched" THEN state[u] ELSE Target(t, t.existing, u)]
        /\ events' = events \cup NewEvents(t, t.existing)
        /\ newest' = IF t.at >= newest.at
                     THEN [at |-> t.at, open |-> t.open, history |-> t.history] ELSE newest
        /\ Answered(c, t, "accepted")
  BY <1>1 DEF Commit, Tx
<1>3. t \in Transactions /\ t.at \in Nat
  BY RequestTyped, Moment DEF Transactions
<1>4. PICK s \in Earliest(Todo(c)) : t.at = s.at /\ t.open = s.open /\ t.history = s.history
  BY DEF InHand
<1>5. t.at \notin checkins
  BY DEF InHand
<1>6. Turns(c, TRUE, Todo(c) \ Earliest(Todo(c)),
            Result(c) \cup {[at |-> s.at, outcome |-> "accepted"]}, {})
  BY <1>1, <1>2, <1>4, AnsweredTurns
<1>7. UNCHANGED <<windows, queue, marker, cycle>>
  BY <1>1 DEF agent
<1>8. Answers(c, s, "accepted")
  BY <1>1, <1>2, <1>4, <1>6, <1>7 DEF Answers
<1>9. Commits(c, t, s)
  BY <1>1, <1>2, <1>3, <1>4, <1>5, <1>8 DEF Commits
<1>10. QED BY <1>9

LEMMA TablesStay ==
  ASSUME [Next]_vars, \A c \in Conns : ~Commit(c)
  PROVE  UNCHANGED <<checkins, state, events, newest>>
BY DEF Next, WindowsNext, Offer, Withdraw, Attempt, AgentNext, Collect, Search, ReadHistory, Enqueue,
       CollectFails, Peek, Send, Unreachable, Forbidden, Settle, GiveUp, Stop, BackendNext, ConnNext,
       Duplicate, Begin, Over, Reject, BreaksOff, vars, tables

\* Who has a result has had the snapshot to do.
LEMMA ResultStep ==
  ASSUME TypeOK, InHand, Flush, [Next]_vars, NEW c \in Conns, NEW r \in Result(c)'
  PROVE  r \in Result(c) \/ \E s \in Todo(c) : r.at = s.at
<1>1. CASE Elsewhere \/ Quiet \/ GiveUp \/ Enqueue \/ Forbidden
  <2>1. UNCHANGED conn
    BY <1>1, BeingElsewhere, BeingQuiet DEF GiveUp, Enqueue, Forbidden
  <2>2. QED BY <2>1, ConnSame
<1>2. ASSUME NEW d \in Conns,
             \/ \E batch : Sends(d, batch)
             \/ \E s : Begins(d, s)
             \/ Ends(d)
      PROVE  r \in Result(c)
  BY <1>2, Ending DEF Sends, Begins, Turns
<1>3. ASSUME NEW d \in Conns, NEW s, NEW outcome, Answers(d, s, outcome)
      PROVE  r \in Result(c) \/ \E x \in Todo(c) : r.at = x.at
  BY <1>3 DEF Answers, Turns, Earliest
<1>4. QED BY <1>1, <1>2, <1>3, Kinds

LEMMA MarkedStep == ASSUME BInv, [Next]_vars PROVE Marked'
<1>1. TypeOK /\ Marked /\ InHand /\ Flush
  BY DEF BInv
<1>2. /\ clock \in Nat /\ marker \in Nat /\ newest.at \in Nat
      /\ clock' \in Nat /\ marker' \in Nat /\ newest'.at \in Nat
  BY <1>1, TypeStep, Moment, TimeAssumption DEF TypeOK
<1>3. marker <= marker' /\ newest.at <= newest'.at
  BY <1>1, Grows
<1>4. (\A s \in Around : s.at <= marker)'
  <2>1. ASSUME NEW s \in Around' PROVE s.at <= marker'
    <3>1. CASE s \in Around
      BY <1>1, <1>2, <1>3, <3>1, AroundTyped DEF Marked
    <3>2. CASE Enqueue /\ s = cycle.snapshot
      <4>1. marker' = cycle.snapshot.at /\ cycle.snapshot.at \in Nat
        BY <1>1, <3>2, Storing DEF Enqueue, MarkerAfter
      <4>2. QED BY <3>2, <4>1
    <3>3. QED BY <1>1, <3>1, <3>2, AroundStep
  <2>2. QED BY <2>1
<1>5. (\A c \in Conns : \A r \in Result(c) : r.at <= marker)'
  <2>1. ASSUME NEW c \in Conns, NEW r \in Result(c)' PROVE r.at <= marker'
    <3>1. CASE r \in Result(c)
      BY <1>1, <1>2, <1>3, <3>1, AroundTyped DEF Marked
    <3>2. CASE \E s \in Todo(c) : r.at = s.at
      BY <1>1, <1>2, <1>3, <3>2, AroundTyped DEF Marked, Around
    <3>3. QED BY <1>1, <3>1, <3>2, ResultStep
  <2>2. QED BY <2>1
<1>6. (\A k \in checkins : k <= newest.at)' /\ newest'.at <= marker'
  <2>1. CASE \A c \in Conns : ~Commit(c)
    BY <1>1, <1>2, <1>3, <2>1, TablesStay, AroundTyped DEF Marked
  <2>2. ASSUME NEW c \in Conns, Commit(c) PROVE (\A k \in checkins : k <= newest.at)' /\ newest'.at <= marker'
    <3>1. PICK t, s : Commits(c, t, s)
      BY <1>1, <2>2, Committing
    <3>2. t.at <= newest'.at
      BY <1>2, <3>1 DEF Commits
    <3>3. s \in Around /\ t.at = s.at /\ t.at \in Nat
      BY <3>1 DEF Commits, Answers, Around, Earliest
    <3>4. newest'.at = t.at \/ newest'.at = newest.at
      BY <3>1 DEF Commits
    <3>5. newest'.at <= marker'
      BY <1>1, <1>2, <1>3, <3>3, <3>4 DEF Marked
    <3>6. ASSUME NEW k \in checkins' PROVE k <= newest'.at
      <4>1. k \in checkins \/ k = t.at
        BY <3>1 DEF Commits
      <4>2. QED BY <1>1, <1>2, <1>3, <3>2, <4>1, AroundTyped DEF Marked
    <3>7. QED BY <3>5, <3>6
  <2>3. QED BY <2>1, <2>2
<1>7. (Collecting => marker < Began)'
  <2>1. CASE Collect
    BY <1>1, <1>2, <2>1 DEF Collect, Began, TypeOK
  <2>2. CASE Search \/ ReadHistory
    BY <1>1, <2>2 DEF Search, ReadHistory, Began, Collecting, Marked
  <2>3. CASE UNCHANGED <<cycle, marker>>
    BY <1>1, <2>3 DEF Began, Collecting, Marked
  <2>4. CASE cycle'.pc \notin {"search", "read", "store"}
    BY <2>4 DEF Collecting
  <2>5. QED BY <2>1, <2>2, <2>3, <2>4 DEF Next, WindowsNext, Offer, Withdraw, Attempt, AgentNext, Enqueue,
       CollectFails, Peek, Send, Unreachable, Forbidden, Settle, GiveUp, Stop, BackendNext, ConnNext,
       Duplicate, Begin, Commit, Over, Reject, BreaksOff, vars, agent, Idle
<1>8. QED BY <1>4, <1>5, <1>6, <1>7 DEF Marked

LEMMA CompleteStep == ASSUME BInv, [Next]_vars PROVE Complete'
<1>1. TypeOK /\ Marked /\ Complete
  BY DEF BInv
<1>2. CASE ReadHistory
  BY <1>2 DEF ReadHistory, Complete, Since, windows
<1>3. CASE \E u \in Updates, code \in Codes : Attempt(u, code)
  <2>1. PICK u \in Updates, code \in Codes : Attempt(u, code)
    BY <1>3
  <2>2. /\ history' = history \cup {[update |-> u, at |-> clock + 1, code |-> code]}
        /\ UNCHANGED <<cycle, marker>>
    BY <2>1 DEF Attempt, agent
  <2>3. SUFFICES ASSUME cycle.pc = "store"
                 PROVE  /\ \A e \in history' : marker < e.at /\ e.at <= cycle.snapshot.at
                                                 => e \in cycle.snapshot.history
                        /\ \A e \in cycle.snapshot.history : marker < e.at
    BY <2>2 DEF Complete
  <2>4. cycle.snapshot.at \in Nat /\ cycle.snapshot.at <= clock /\ clock \in Nat
    BY <1>1, <2>3, CycleTyped, Moment DEF Snapshots, Moments
  <2>5. \A e \in history' : e \in history \/ ~(e.at <= cycle.snapshot.at)
    BY <2>2, <2>4
  <2>6. QED BY <1>1, <2>3, <2>5 DEF Complete
<1>4. CASE UNCHANGED <<history, cycle, marker>>
  BY <1>1, <1>4 DEF Complete
<1>5. CASE cycle'.pc # "store"
  BY <1>5 DEF Complete
<1>6. QED BY <1>2, <1>3, <1>4, <1>5 DEF Next, WindowsNext, Offer, Withdraw, AgentNext, Collect, Search, Enqueue,
       CollectFails, Peek, Send, Unreachable, Forbidden, Settle, GiveUp, Stop, BackendNext, ConnNext,
       Duplicate, Begin, Commit, Over, Reject, BreaksOff, vars, windows, agent, Idle

\* Three parts: transactions of one request, their snapshots, and of two requests.
LEMMA InHandStep == ASSUME BInv, [Next]_vars PROVE InHand'
<1>1. TypeOK /\ Marked /\ InHand /\ Flush
  BY DEF BInv
<1> DEFINE Mine(c) == \A t, u \in Tx(c) : t = u
           Its(c) == \A t \in Tx(c) :
                       /\ t.at \notin checkins
                       /\ \E s \in Earliest(Todo(c)) : t.at = s.at /\ t.open = s.open /\ t.history = s.history
           Apart(c, d) == \A t \in Tx(c), u \in Tx(d) : t.at = u.at => c = d
<1>2. \A c \in Conns : Mine(c) /\ Its(c) /\ \A d \in Conns : Apart(c, d)
  BY <1>1 DEF InHand
<1>3. SUFFICES \A c \in Conns : Mine(c)' /\ Its(c)' /\ \A d \in Conns : Apart(c, d)'
  BY DEF InHand
<1>4. CASE Elsewhere \/ Quiet \/ GiveUp \/ Enqueue \/ Forbidden
  <2>1. UNCHANGED <<conn, checkins>>
    BY <1>1, <1>4, BeingElsewhere, BeingQuiet DEF GiveUp, Enqueue, Forbidden, tables
  <2>2. \A c \in Conns : Tx(c)' = Tx(c) /\ Todo(c)' = Todo(c)
    BY <2>1, ConnSame
  <2>3. QED BY <1>2, <2>1, <2>2 DEF Earliest
<1>5. ASSUME NEW c \in Conns, \/ \E batch : Sends(c, batch)
                             \/ Ends(c)
      PROVE  \A d \in Conns : Mine(d)' /\ Its(d)' /\ \A e \in Conns : Apart(d, e)'
  <2>1. Tx(c)' = {} /\ checkins' = checkins
        /\ \A d \in Conns \ {c} : Todo(d)' = Todo(d) /\ Tx(d)' = Tx(d)
    BY <1>1, <1>5, Ending DEF Sends, Turns, tables
  <2>2. QED BY <1>2, <2>1 DEF Earliest
<1>6. ASSUME NEW c \in Conns, NEW s, Begins(c, s)
      PROVE  \A d \in Conns : Mine(d)' /\ Its(d)' /\ \A e \in Conns : Apart(d, e)'
  <2>1. /\ Tx(c)' = {[at |-> s.at, open |-> s.open, history |-> s.history, existing |-> state]}
        /\ s \in Earliest(Todo(c)) /\ Todo(c)' = Todo(c) /\ s.at \notin checkins /\ checkins' = checkins
        /\ \A d \in Conns \ {c} : Todo(d)' = Todo(d) /\ Tx(d)' = Tx(d) /\ \A t \in Tx(d) : t.at # s.at
    BY <1>6 DEF Begins, Turns, tables
  <2>2. Mine(c)' /\ \A d \in Conns \ {c} : Mine(d)'
    BY <1>2, <2>1
  <2>3. Its(c)' /\ \A d \in Conns \ {c} : Its(d)'
    BY <1>2, <2>1 DEF Earliest
  <2>4. \A d \in Conns : Apart(c, d)' /\ Apart(d, c)'
    BY <2>1
  <2>5. \A d, e \in Conns \ {c} : Apart(d, e)'
    BY <1>2, <2>1
  <2>6. QED BY <2>2, <2>3, <2>4, <2>5
<1>7. ASSUME NEW c \in Conns, NEW s, NEW outcome, Answers(c, s, outcome), \A d \in Conns : ~Commit(d)
      PROVE  \A d \in Conns : Mine(d)' /\ Its(d)' /\ \A e \in Conns : Apart(d, e)'
  <2>1. Tx(c)' = {} /\ checkins' = checkins
        /\ \A d \in Conns \ {c} : Todo(d)' = Todo(d) /\ Tx(d)' = Tx(d)
    BY <1>7, TablesStay DEF Answers, Turns
  <2>2. QED BY <1>2, <2>1 DEF Earliest
<1>8. ASSUME NEW c \in Conns, Commit(c)
      PROVE  \A d \in Conns : Mine(d)' /\ Its(d)' /\ \A e \in Conns : Apart(d, e)'
  <2>1. PICK t, s : Commits(c, t, s)
    BY <1>1, <1>8, Committing
  <2>2. /\ Tx(c)' = {} /\ checkins' = checkins \cup {t.at} /\ t \in Tx(c)
        /\ \A d \in Conns \ {c} : Todo(d)' = Todo(d) /\ Tx(d)' = Tx(d)
    BY <2>1 DEF Commits, Answers, Turns
  <2>3. \A d \in Conns \ {c} : \A u \in Tx(d) : u.at # t.at
    BY <1>2, <2>2
  <2>4. Its(c)' /\ \A d \in Conns \ {c} : Its(d)'
    BY <1>2, <2>2, <2>3 DEF Earliest
  <2>5. \A d \in Conns : Mine(d)' /\ \A e \in Conns : Apart(d, e)'
    BY <1>2, <2>2
  <2>6. QED BY <2>4, <2>5
<1>9. QED BY <1>1, <1>4, <1>5, <1>6, <1>7, <1>8, Kinds

\* What is new in the queue comes after everything around.
LEMMA QueueStep ==
  ASSUME TypeOK, Marked, InHand, Flush, [Next]_vars
  PROVE  /\ ~Enqueue => queue' \subseteq queue
         /\ Enqueue => queue' \subseteq queue \cup {cycle.snapshot}
         /\ ~Enqueue /\ ~Forbidden /\ ~Settle => queue' = queue
<1>1. CASE Elsewhere \/ Quiet \/ GiveUp
  BY <1>1, BeingElsewhere, BeingQuiet DEF GiveUp
<1>2. CASE Enqueue
  BY <1>2, Storing DEF Stores
<1>3. CASE Forbidden
  BY <1>3 DEF Forbidden
<1>4. ASSUME NEW c \in Conns, \/ \E batch : Sends(c, batch)
                             \/ \E s : Begins(c, s)
                             \/ \E k, outcome : Answers(c, k, outcome)
      PROVE  queue' = queue
  BY <1>4 DEF Sends, Begins, Answers
<1>5. ASSUME NEW c \in Conns, Ends(c)
      PROVE  queue' \subseteq queue /\ (~Settle => queue' = queue)
  BY <1>5, Ending
<1>6. QED BY <1>1, <1>2, <1>3, <1>4, <1>5, Kinds

LEMMA HeardStep == ASSUME BInv, [Next]_vars PROVE Heard'
<1>1. TypeOK /\ Agree /\ Marked /\ InHand /\ Flush /\ Heard
  BY DEF BInv
<1> DEFINE True(c, r) ==
             /\ r.outcome # "rejected" => r.at \in checkins
             /\ r.outcome = "rejected" => \A s \in queue : s.at = r.at => s.history \subseteq dropped
           Before(c, r) == \A s \in Todo(c) : r.at < s.at
<1>2. checkins \subseteq checkins' /\ dropped \subseteq dropped'
  BY <1>1, Grows
<1>3. ASSUME NEW c \in Conns, NEW r \in Result(c) PROVE True(c, r)'
  <2>1. True(c, r) /\ r.at <= marker /\ r.at \in Nat
    BY <1>1, AroundTyped DEF Heard, Marked
  <2>2. CASE ~Enqueue
    BY <1>1, <1>2, <2>1, <2>2, QueueStep
  <2>3. CASE Enqueue
    <3>1. cycle.snapshot.at # r.at
      BY <1>1, <2>1, <2>3, Storing, Moment
    <3>2. QED BY <1>1, <1>2, <2>1, <2>3, <3>1, QueueStep
  <2>4. QED BY <2>2, <2>3
<1>4. SUFFICES ASSUME NEW c \in Conns, NEW r \in Result(c)' PROVE True(c, r)' /\ Before(c, r)'
  BY DEF Heard
<1>5. CASE Elsewhere \/ Quiet \/ GiveUp \/ Enqueue \/ Forbidden
  <2>1. UNCHANGED conn
    BY <1>1, <1>5, BeingElsewhere, BeingQuiet DEF GiveUp, Enqueue, Forbidden
  <2>2. r \in Result(c) /\ Todo(c)' = Todo(c)
    BY <2>1, ConnSame
  <2>3. QED BY <1>1, <1>3, <2>2 DEF Heard
<1>6. ASSUME NEW d \in Conns, \/ \E batch : Sends(d, batch)
                             \/ \E s : Begins(d, s)
                             \/ Ends(d)
      PROVE  True(c, r)' /\ Before(c, r)'
  <2>1. r \in Result(c) /\ Todo(c)' = Todo(c)
    BY <1>1, <1>6, Ending DEF Sends, Begins, Turns
  <2>2. QED BY <1>1, <1>3, <2>1 DEF Heard
<1>7. ASSUME NEW d \in Conns, NEW s, NEW outcome, Answers(d, s, outcome)
      PROVE  True(c, r)' /\ Before(c, r)'
  <2>1. CASE d # c
    <3>1. r \in Result(c) /\ Todo(c)' = Todo(c)
      BY <1>7, <2>1 DEF Answers, Turns
    <3>2. QED BY <1>1, <1>3, <3>1 DEF Heard
  <2>2. CASE d = c
    <3>1. /\ s \in Earliest(Todo(c)) /\ Todo(c)' = Todo(c) \ Earliest(Todo(c))
          /\ r \in Result(c) \/ r = [at |-> s.at, outcome |-> outcome]
          /\ queue' = queue
      BY <1>7, <2>2 DEF Answers, Turns
    <3>2. CASE r \in Result(c)
      BY <1>1, <1>3, <3>1, <3>2 DEF Heard
    <3>3. CASE r = [at |-> s.at, outcome |-> outcome]
      <4>1. Before(c, r)'
        BY <1>1, <3>1, <3>3, EarliestOnly
      <4>2. ASSUME NEW q \in queue, q.at = s.at PROVE q = s
        BY <1>1, <3>1, <4>2 DEF Agree, Around, Earliest
      <4>3. True(c, r)'
        BY <1>7, <3>1, <3>3, <4>2 DEF Answers
      <4>4. QED BY <4>1, <4>3
    <3>4. QED BY <3>1, <3>2, <3>3
  <2>3. QED BY <2>1, <2>2
<1>8. QED BY <1>1, <1>5, <1>6, <1>7, Kinds

LEMMA EventsTold ==
  ASSUME TypeOK, NEW c \in Conns, NEW t, NEW s, Commits(c, t, s), NEW e \in t.history
  PROVE  Event(e) \in events'
BY DEF Commits, NewEvents, Event

LEMMA RecordedStep == ASSUME BInv, [Next]_vars PROVE Recorded'
<1>1. TypeOK /\ Agree /\ Marked /\ InHand /\ Flush /\ Recorded
  BY DEF BInv
<1>2. events \subseteq events'
  BY <1>1, Grows
<1>3. SUFFICES ASSUME NEW s \in Around', s.at \in checkins', NEW e \in s.history
               PROVE  Event(e) \in events'
  BY DEF Recorded, Event
<1>4. CASE s \in Around /\ s.at \in checkins
  BY <1>1, <1>2, <1>3, <1>4 DEF Recorded
<1>5. CASE Enqueue /\ s = cycle.snapshot
  <2>1. checkins' = checkins
    BY <1>5 DEF Enqueue, tables
  <2>2. marker < s.at /\ s.at \in Nat /\ marker \in Nat /\ newest.at \in Nat
    BY <1>1, <1>5, Storing, Moment
  <2>3. s.at \notin checkins
    BY <1>1, <2>2, AroundTyped DEF Marked
  <2>4. QED BY <1>3, <2>1, <2>3
<1>6. CASE s \in Around /\ s.at \notin checkins
  <2>1. PICK c \in Conns : Commit(c)
    BY <1>3, <1>6, TablesStay
  <2>2. PICK t, x : Commits(c, t, x)
    BY <1>1, <2>1, Committing
  <2>3. s.at = x.at /\ x \in Around
    BY <1>3, <1>6, <2>2 DEF Commits, Answers, Earliest, Around
  <2>4. s.history = t.history
    BY <1>1, <1>6, <2>2, <2>3 DEF Agree, Commits
  <2>5. QED BY <1>1, <1>3, <2>2, <2>4, EventsTold
<1>7. QED BY <1>1, <1>4, <1>5, <1>6, AroundStep

LEMMA FlushStep == ASSUME BInv, [Next]_vars PROVE Flush'
<1>1. TypeOK /\ Marked /\ InHand /\ Flush /\ Heard
  BY DEF BInv
<1> DEFINE Sent(c, p) ==
             /\ Running(c) /\ p \subseteq queue
             /\ \A q \in queue \ p : q \in Todo(c) \/ \E r \in Result(c) : r.at = q.at
             /\ \A x \in p : (\A s \in Todo(c) : s.at < x.at) /\ (\A r \in Result(c) : r.at < x.at)
<1>2. Flush' = ((cycle.pc = "send" => cycle.pending = queue)
                 /\ (cycle.pc = "wait" => Sent(cycle.conn, cycle.pending)))'
  BY DEF Flush
<1>3. CASE Elsewhere
  <2>1. UNCHANGED <<queue, cycle, conn>>
    BY <1>3, BeingElsewhere
  <2>2. cycle.pc = "wait" => cycle.conn \in Conns
    BY <1>1, CycleTyped
  <2>3. QED BY <1>1, <2>1, <2>2, ConnSame DEF Flush
<1>4. CASE Quiet
  BY <1>1, <1>4, BeingQuiet DEF Quiet, Collect, Search, ReadHistory, CollectFails, Peek, Unreachable, Stop,
                                Idle, Flush
<1>5. CASE GiveUp \/ Enqueue \/ Forbidden
  BY <1>5 DEF GiveUp, Enqueue, Forbidden, Idle, Flush
<1>6. ASSUME NEW c \in Conns, NEW batch, Sends(c, batch) PROVE Flush'
  <2>1. /\ cycle'.pc = "wait" /\ cycle'.conn = c /\ cycle'.pending = queue \ batch /\ queue' = queue
        /\ Running(c)' /\ Todo(c)' = batch /\ Result(c)' = {}
        /\ \A s \in batch, t \in queue \ batch : s.at < t.at
    BY <1>6 DEF Sends, Turns, Batches
  <2>2. Sent(c, queue \ batch)'
    BY <2>1
  <2>3. QED BY <1>2, <2>1, <2>2
<1>7. ASSUME NEW c \in Conns, NEW s, Begins(c, s) PROVE Flush'
  <2>1. UNCHANGED <<queue, cycle>>
    BY <1>7 DEF Begins
  <2>2. \A d \in Conns : Running(d)' = Running(d) /\ Todo(d)' = Todo(d) /\ Result(d)' = Result(d)
    BY <1>7 DEF Begins, Turns
  <2>3. cycle.pc = "wait" => cycle.conn \in Conns
    BY <1>1, CycleTyped
  <2>4. QED BY <1>1, <2>1, <2>2, <2>3 DEF Flush
<1>8. ASSUME NEW c \in Conns, NEW s, NEW outcome, Answers(c, s, outcome) PROVE Flush'
  <2>1. UNCHANGED <<queue, cycle>>
    BY <1>8 DEF Answers
  <2>2. CASE cycle.pc = "wait" /\ cycle.conn = c
    <3>1. /\ Running(c)' /\ Todo(c)' = Todo(c) \ Earliest(Todo(c)) /\ s \in Earliest(Todo(c))
          /\ Result(c)' = Result(c) \cup {[at |-> s.at, outcome |-> outcome]}
      BY <1>8 DEF Answers, Turns
    <3>2. Sent(c, cycle.pending)
      BY <1>1, <2>2 DEF Flush
    <3>3. \A q \in Earliest(Todo(c)) : q.at = s.at
      <4>1. ASSUME NEW q \in Earliest(Todo(c)) PROVE q.at = s.at
        BY <1>1, <3>1, EarliestOnly
      <4>2. QED BY <4>1
    <3>4. \A q \in queue \ cycle.pending : q \in Todo(c)' \/ \E r \in Result(c)' : r.at = q.at
      BY <3>1, <3>2, <3>3
    <3>5. \A x \in cycle.pending : (\A y \in Todo(c)' : y.at < x.at) /\ (\A r \in Result(c)' : r.at < x.at)
      BY <3>1, <3>2 DEF Earliest
    <3>6. QED BY <2>1, <2>2, <3>1, <3>2, <3>4, <3>5 DEF Flush
  <2>3. CASE ~(cycle.pc = "wait" /\ cycle.conn = c)
    <3>1. cycle.pc = "wait" => cycle.conn \in Conns \ {c}
      BY <1>1, <2>3, CycleTyped
    <3>2. \A d \in Conns \ {c} : Running(d)' = Running(d) /\ Todo(d)' = Todo(d) /\ Result(d)' = Result(d)
      BY <1>8 DEF Answers, Turns
    <3>3. QED BY <1>1, <2>1, <3>1, <3>2 DEF Flush
  <2>4. QED BY <2>2, <2>3
<1>9. ASSUME NEW c \in Conns, Ends(c) PROVE Flush'
  <2>1. CASE Settle /\ c = cycle.conn
    <3>1. /\ cycle.pc = "wait" /\ Running(c) /\ Todo(c) = {} /\ queue' = Unsettled(queue, Result(c))
          /\ cycle' = IF cycle.pending = {} THEN Idle ELSE [pc |-> "send", pending |-> cycle.pending]
      BY <2>1 DEF Settle, Running, Todo, Result
    <3>2. Sent(c, cycle.pending)
      BY <1>1, <2>1, <3>1 DEF Flush
    <3>3. \A q \in queue : q \in cycle.pending => \A r \in Result(c) : r.at # q.at
      BY <1>1, <3>2, AroundTyped DEF Around
    <3>4. queue' = cycle.pending
      BY <3>1, <3>2, <3>3 DEF Unsettled
    <3>5. QED BY <3>1, <3>4 DEF Flush, Idle
  <2>2. CASE ~(cycle.pc = "wait" /\ cycle.conn = c) /\ (Over(c) \/ BreaksOff(c))
    <3>1. UNCHANGED <<queue, cycle>>
      BY <1>9, <2>2, Ending DEF Over, BreaksOff, Late, agent
    <3>2. cycle.pc = "wait" => cycle.conn \in Conns \ {c}
      BY <1>1, <2>2, CycleTyped
    <3>3. \A d \in Conns \ {c} : Running(d)' = Running(d) /\ Todo(d)' = Todo(d) /\ Result(d)' = Result(d)
      BY <1>1, <1>9, Ending DEF Turns
    <3>4. QED BY <1>1, <3>1, <3>2, <3>3 DEF Flush
  <2>3. CASE cycle.pc = "wait" /\ cycle.conn = c /\ (Over(c) \/ BreaksOff(c))
    BY <2>3 DEF Over, BreaksOff, Late, Idle, Flush
  <2>4. QED BY <1>9, <2>1, <2>2, <2>3 DEF Ends
<1>10. QED BY <1>1, <1>3, <1>4, <1>5, <1>6, <1>7, <1>8, <1>9, Kinds

LEMMA MomentsAfter ==
  ASSUME TypeOK, [Next]_vars
  PROVE  /\ clock' \in Nat /\ newest'.at \in Nat /\ marker' \in Nat
         /\ \A e \in history' : e.at \in Nat /\ e.at <= clock'
<1>1. TypeOK'
  BY TypeStep
<1>2. clock' \in Nat
  BY <1>1, TimeAssumption DEF TypeOK
<1>3. newest'.at \in Nat /\ marker' \in Nat
  BY <1>1, <1>2 DEF TypeOK
<1>4. \A e \in history' : e.at \in 1 .. clock'
  BY <1>1 DEF TypeOK, Moments
<1>5. QED BY <1>2, <1>3, <1>4

\* What Settle takes out of the queue has been answered.
LEMMA Settled ==
  ASSUME TypeOK, Flush, Heard, Settle, NEW s \in queue, s \notin queue'
  PROVE  /\ cycle.conn \in Conns
         /\ \E r \in Result(cycle.conn) :
              /\ r.at = s.at
              /\ r.outcome # "rejected" => s.at \in checkins
              /\ r.outcome = "rejected" => s.history \subseteq dropped
<1>1. cycle.conn \in Conns /\ queue' = Unsettled(queue, Result(cycle.conn))
  BY CycleTyped DEF Settle, Result, Running
<1>2. PICK r \in Result(cycle.conn) : r.at = s.at
  BY <1>1 DEF Unsettled
<1>3. QED BY <1>1, <1>2 DEF Heard

\* The attempts of what leaves the queue are dropped, or the snapshot is taken.
LEMMA Leaving ==
  ASSUME BInv, [Next]_vars, NEW s \in queue, s \notin queue'
  PROVE  s.history \subseteq dropped' \/ s.at \in checkins
<1>1. TypeOK /\ Marked /\ InHand /\ Flush /\ Heard
  BY DEF BInv
<1>2. CASE Enqueue
  <2>1. PICK kept : Stores(kept)
    BY <1>1, <1>2, Storing
  <2>2. s \in queue \ kept
    BY <2>1 DEF Stores
  <2>3. QED BY <2>1, <2>2 DEF Stores, AttemptsOf
<1>3. CASE Forbidden
  BY <1>3 DEF Forbidden, Drop, AttemptsOf
<1>4. CASE Settle
  BY <1>1, <1>4, Settled, Grows
<1>5. QED BY <1>1, <1>2, <1>3, <1>4, QueueStep

LEMMA FirstStep == ASSUME BInv, [Next]_vars PROVE First'
<1>1. TypeOK /\ Agree /\ Marked /\ Complete /\ InHand /\ Flush /\ Heard /\ First
  BY DEF BInv
<1>2. /\ clock \in Nat /\ marker \in Nat /\ newest.at \in Nat /\ newest'.at \in Nat /\ marker' \in Nat
      /\ \A e \in history' : e.at \in Nat
  BY <1>1, Moment, MomentsAfter
<1>3. newest.at <= newest'.at /\ marker <= marker' /\ dropped \subseteq dropped'
  BY <1>1, Grows
<1>4. \A s \in queue : s \in Around /\ s.at \in Nat /\ s.at <= marker
  BY <1>1, AroundTyped DEF Around, Marked
<1>5. SUFFICES ASSUME NEW e \in history', newest'.at < e.at, e.at <= marker', e \notin dropped'
               PROVE  \E s \in queue' : /\ e \in s.history /\ e.at <= s.at
                                        /\ \A q \in queue' : e.at <= q.at => s.at <= q.at
  BY DEF First
<1>6. e.at \in Nat /\ newest.at < e.at /\ e \notin dropped
  BY <1>2, <1>3, <1>5
<1>7. CASE e \in history /\ e.at <= marker
  <2>1. PICK s \in queue : /\ e \in s.history /\ e.at <= s.at
                           /\ \A q \in queue : e.at <= q.at => s.at <= q.at
    BY <1>1, <1>6, <1>7 DEF First
  <2>2. s.at \notin checkins
    BY <1>1, <1>2, <1>4, <1>6, <2>1 DEF Marked
  <2>3. s \in queue'
    BY <1>5, <2>1, <2>2, Leaving
  <2>4. ASSUME NEW q \in queue', e.at <= q.at PROVE s.at <= q.at
    <3>1. CASE q \in queue
      BY <2>1, <2>4, <3>1
    <3>2. CASE Enqueue /\ q = cycle.snapshot
      BY <1>1, <1>2, <1>4, <2>1, <3>2, Storing
    <3>3. QED BY <1>1, <3>1, <3>2, QueueStep
  <2>5. QED BY <2>1, <2>3, <2>4
<1>8. CASE e \in history /\ ~(e.at <= marker)
  <2>1. Enqueue
    <3>1. CASE ~Enqueue
      <4>1. marker' = marker
        BY <1>1, <3>1 DEF Next, WindowsNext, Offer, Withdraw, Attempt, AgentNext, Collect, Search,
           ReadHistory, CollectFails, Peek, Send, Unreachable, Forbidden, Settle, GiveUp, Stop,
           BackendNext, ConnNext, Duplicate, Begin, Commit, Over, Reject, BreaksOff, vars, agent
      <4>2. QED BY <1>5, <1>8, <4>1
    <3>2. QED BY <3>1
  <2>2. PICK kept : Stores(kept)
    BY <1>1, <2>1, Storing
  <2>3. /\ cycle.snapshot \in queue' /\ marker' = cycle.snapshot.at /\ cycle.pc = "store"
        /\ queue' = kept \cup {cycle.snapshot} /\ kept \subseteq queue
    BY <2>2 DEF Stores
  <2>4. e \in cycle.snapshot.history /\ e.at <= cycle.snapshot.at
    BY <1>1, <1>2, <1>5, <1>6, <1>8, <2>3 DEF Complete
  <2>5. ASSUME NEW q \in queue', e.at <= q.at PROVE cycle.snapshot.at <= q.at
    BY <1>2, <1>4, <1>6, <1>8, <2>3, <2>5
  <2>6. QED BY <2>3, <2>4, <2>5
<1>9. CASE e \notin history
  <2>1. PICK u \in Updates, code \in Codes : Attempt(u, code)
    BY <1>5, <1>9 DEF Next, WindowsNext, Offer, Withdraw, AgentNext, Collect, Search, Enqueue,
       ReadHistory, CollectFails, Peek, Send, Unreachable, Forbidden, Settle, GiveUp, Stop, BackendNext,
       ConnNext, Duplicate, Begin, Commit, Over, Reject, BreaksOff, vars, windows
  <2>2. e.at = clock + 1 /\ marker' = marker
    BY <1>5, <1>9, <2>1 DEF Attempt, agent
  <2>3. marker <= clock
    BY <1>1, TimeAssumption DEF TypeOK
  <2>4. QED BY <1>2, <1>5, <2>2, <2>3
<1>10. QED BY <1>7, <1>8, <1>9

LEMMA SpansStep == ASSUME BInv, [Next]_vars PROVE Spans'
<1>1. TypeOK /\ Marked /\ Complete /\ InHand /\ Flush /\ Spans
  BY DEF BInv
<1> DEFINE Apart(s, q, e) == (q.at < s.at => q.at < e.at) /\ (s.at < q.at => e.at < q.at)
<1>2. clock \in Nat /\ marker \in Nat
  BY <1>1, Moment
<1>3. \A s \in queue : s.at \in Nat /\ s.at <= marker /\ \A e \in s.history : e \in history
  BY <1>1, AroundTyped DEF Around, Marked, TypeOK, Snapshots
<1>4. \A e \in history : e.at \in Nat /\ e.at <= clock
  BY <1>1, <1>2 DEF TypeOK, Moments
<1>5. SUFFICES ASSUME NEW s \in queue', NEW e \in s.history
               PROVE  (\A q \in queue' : Apart(s, q, e)) /\ (Collecting' => e.at < Began')
  BY DEF Spans
<1>6. CASE Enqueue
  <2>1. /\ cycle.pc = "store" /\ ~Collecting'
        /\ cycle.snapshot.at \in Nat /\ marker < cycle.snapshot.at
    BY <1>1, <1>6, Storing DEF Enqueue, Collecting
  <2>2. CASE s \in queue
    <3>1. e.at < cycle.snapshot.at
      BY <1>1, <2>1, <2>2 DEF Spans, Collecting, Began
    <3>2. ASSUME NEW q \in queue' PROVE Apart(s, q, e)
      <4>1. CASE q \in queue
        BY <1>1, <2>2, <4>1 DEF Spans
      <4>2. CASE q = cycle.snapshot
        BY <1>2, <1>3, <2>1, <2>2, <3>1, <4>2
      <4>3. QED BY <1>1, <1>6, <4>1, <4>2, QueueStep
    <3>3. QED BY <2>1, <3>2
  <2>3. CASE s = cycle.snapshot
    <3>1. marker < e.at /\ e.at \in Nat
      BY <1>1, <1>4, <1>6, <2>1, <2>3, Storing DEF Complete, Snapshots
    <3>2. ASSUME NEW q \in queue' PROVE Apart(s, q, e)
      <4>1. CASE q \in queue
        BY <1>2, <1>3, <2>1, <2>3, <3>1, <4>1
      <4>2. CASE q = cycle.snapshot
        BY <2>1, <2>3, <4>2
      <4>3. QED BY <1>1, <1>6, <4>1, <4>2, QueueStep
    <3>3. QED BY <2>1, <3>2
  <2>4. QED BY <1>1, <1>5, <1>6, <2>2, <2>3, QueueStep
<1>7. CASE ~Enqueue
  <2>1. s \in queue /\ \A q \in queue' : Apart(s, q, e)
    BY <1>1, <1>5, <1>7, QueueStep DEF Spans
  <2>2. Collecting' => e.at < Began'
    <3>1. CASE Collect
      <4>1. Began' = clock + 1
        BY <3>1 DEF Collect, Began
      <4>2. QED BY <1>2, <1>3, <1>4, <2>1, <4>1
    <3>2. CASE Search \/ ReadHistory
      <4>1. Began' = Began /\ Collecting
        BY <3>2 DEF Search, ReadHistory, Began, Collecting
      <4>2. QED BY <1>1, <2>1, <4>1 DEF Spans
    <3>3. CASE UNCHANGED cycle
      BY <1>1, <2>1, <3>3 DEF Spans, Collecting, Began
    <3>4. CASE cycle'.pc \notin {"search", "read", "store"}
      BY <3>4 DEF Collecting
    <3>5. QED BY <1>7, <3>1, <3>2, <3>3, <3>4 DEF Next, WindowsNext, Offer, Withdraw, Attempt, AgentNext,
       CollectFails, Peek, Send, Unreachable, Forbidden, Settle, GiveUp, Stop, BackendNext, ConnNext,
       Duplicate, Begin, Commit, Over, Reject, BreaksOff, vars, agent, Idle
  <2>3. QED BY <2>1, <2>2
<1>8. QED BY <1>6, <1>7

LEMMA BInvInit == Init => BInv
<1>1. SUFFICES ASSUME Init PROVE BInv
  OBVIOUS
<1>2. TypeOK
  BY <1>1, TypeInit
<1>3. /\ queue = {} /\ history = {} /\ checkins = {} /\ cycle.pc = "idle"
      /\ newest.at = 0 /\ marker = 0
  BY <1>1 DEF Init, Idle, None
<1>4. \A c \in Conns : Todo(c) = {} /\ Result(c) = {} /\ Tx(c) = {}
  BY <1>1 DEF Init, Todo, Result, Tx, Running, Idle
<1>5. Around = {}
  BY <1>3, <1>4 DEF Around
<1>6. Marked
  BY <1>3, <1>4, <1>5 DEF Marked, Collecting
<1>7. Agree /\ Complete /\ InHand /\ Heard /\ Recorded /\ Flush /\ First /\ Spans
  BY <1>3, <1>4, <1>5 DEF Agree, Complete, InHand, Heard, Recorded, Flush, First, Spans
<1>8. QED BY <1>2, <1>6, <1>7 DEF BInv

LEMMA BInvStep == ASSUME BInv, [Next]_vars PROVE BInv'
<1>1. TypeOK'
  BY TypeStep DEF BInv
<1>2. QED BY <1>1, AgreeStep, MarkedStep, CompleteStep, InHandStep, HeardStep, RecordedStep, FlushStep,
             FirstStep, SpansStep DEF BInv

LEMMA Always == Spec => []BInv
<1>1. QED BY BInvInit, BInvStep, PTL DEF Spec

LEMMA NothingLostStep == ASSUME BInv, NothingLost, [Next]_vars PROVE NothingLost'
<1>1. TypeOK /\ Marked /\ Complete /\ InHand /\ Flush /\ Heard /\ Recorded /\ First
  BY DEF BInv
<1>2. events \subseteq events' /\ dropped \subseteq dropped'
  BY <1>1, Grows
<1>3. SUFFICES ASSUME NEW e \in history', e.at <= marker', e \notin dropped', Event(e) \notin events'
               PROVE  \E s \in queue' : e \in s.history
  BY DEF NothingLost, Event, AttemptsOf, Ok
<1>4. CASE e \in history /\ e.at <= marker
  <2>1. PICK s \in queue : e \in s.history
    BY <1>2, <1>3, <1>4 DEF NothingLost, Event, AttemptsOf
  <2>2. s.at \notin checkins
    BY <1>1, <1>2, <1>3, <2>1 DEF Recorded, Around
  <2>3. s \in queue'
    BY <1>3, <2>1, <2>2, Leaving
  <2>4. QED BY <2>1, <2>3
<1>5. CASE ~(e \in history /\ e.at <= marker)
  <2>1. newest'.at < e.at
    <3>1. /\ clock \in Nat /\ marker \in Nat /\ newest.at \in Nat /\ newest'.at \in Nat
          /\ \A f \in history' : f.at \in Nat
      BY <1>1, Moment, MomentsAfter
    <3>2. ~(e.at <= marker)
      <4>1. CASE e \notin history
        <5>1. PICK u \in Updates, code \in Codes : Attempt(u, code)
          BY <1>3, <4>1 DEF Next, WindowsNext, Offer, Withdraw, AgentNext, Collect, Search, Enqueue,
             ReadHistory, CollectFails, Peek, Send, Unreachable, Forbidden, Settle, GiveUp, Stop,
             BackendNext, ConnNext, Duplicate, Begin, Commit, Over, Reject, BreaksOff, vars, windows
        <5>2. e.at = clock + 1 /\ marker <= clock
          BY <1>1, <1>3, <4>1, <5>1, TimeAssumption DEF Attempt, TypeOK
        <5>3. QED BY <3>1, <5>2
      <4>2. QED BY <1>5, <4>1
    <3>3. newest'.at <= marker \/ newest'.at = newest.at
      <4>1. CASE \A c \in Conns : ~Commit(c)
        BY <4>1, TablesStay
      <4>2. ASSUME NEW c \in Conns, Commit(c) PROVE newest'.at <= marker \/ newest'.at = newest.at
        <5>1. PICK t, s : Commits(c, t, s)
          BY <1>1, <4>2, Committing
        <5>2. s \in Around /\ t.at = s.at
          BY <5>1 DEF Commits, Answers, Around, Earliest
        <5>3. QED BY <1>1, <5>1, <5>2 DEF Commits, Marked
      <4>3. QED BY <4>1, <4>2
    <3>4. QED BY <1>1, <1>3, <3>1, <3>2, <3>3 DEF Marked
  <2>2. First'
    BY FirstStep
  <2>3. QED BY <1>3, <2>1, <2>2 DEF First
<1>6. QED BY <1>4, <1>5

\* No attempt before the marker is lost: it is in the time line, or in the queue, or
\* in a snapshot that was dropped or rejected - for any number of requests at once,
\* any batches and any length of the queue.
THEOREM NothingIsLost == Spec => []NothingLost
<1>1. Init => NothingLost
  BY DEF Init, NothingLost
<1>2. QED BY <1>1, NothingLostStep, Always, PTL DEF Spec

-----------------------------------------------------------------------------
(* The invariant as long as the order holds.                                *)

Refused(c, s) == [at |-> s.at, outcome |-> "rejected"] \in Result(c)

\* What a request still has to do, and nobody has taken, is in the queue.
StillQueued == \A c \in Conns : \A s \in Todo(c) : s.at \notin checkins => s \in queue

\* A request leaves out nothing of the queue that comes before what it has to do.
InTurn ==
  \A c \in Conns : \A s \in Todo(c), q \in queue :
    s.at \notin checkins /\ q.at < s.at => q.at \in checkins \/ q \in Todo(c) \/ Refused(c, q)

\* While the agent can still hear of a rejection, no other request is handled.
RefusedInTime ==
  \A c \in Conns : (\E r \in Result(c) : r.outcome = "rejected") => \A d \in Conns : ~Late(d)

OneAtATime == \A c, d \in Conns : \A t \in Tx(c), u \in Tx(d) : c = d
ReadsLast == \A c \in Conns : \A t \in Tx(c) : t.existing = state

Awaited(c) == cycle.pc = "wait" /\ cycle.conn = c

\* What is in the queue and has not been taken is newer than all that has - or is
\* about to leave, for the agent will hear that it was rejected.
Ahead ==
  \A q \in queue : \/ q.at \in checkins \/ newest.at < q.at
                   \/ \E c \in Conns : Awaited(c) /\ Refused(c, q)

Follows == \A s \in queue : \A e \in s.history : \A k \in checkins : k < s.at => k < e.at

\* The time line is behind what is still to come.
Line ==
  \A v \in events :
    /\ \A s \in queue : newest.at < s.at => v.at < s.at
    /\ Collecting => v.at < Began
    /\ v.type = "appeared" => v.at \in checkins

\* What has appeared is open still, or the time line says what became of it.
Gone ==
  \A a \in events : a.type = "appeared" =>
    \/ state[a.update] = "available"
    \/ \E e \in events : e.update = a.update /\ e.type # "appeared" /\ a.at < e.at

OInv == /\ StillQueued /\ InTurn /\ RefusedInTime /\ OneAtATime /\ ReadsLast
        /\ Ahead /\ Follows /\ Line /\ Gone

\* What becomes of one request.
LEMMA RequestStep ==
  ASSUME TypeOK, InHand, Flush, [Next]_vars, NEW c \in Conns
  PROVE  \/ Running(c)' = Running(c) /\ Todo(c)' = Todo(c) /\ Result(c)' = Result(c)
         \/ \E batch : Sends(c, batch)
         \/ \E s, outcome : Answers(c, s, outcome)
         \/ Ends(c)
<1>1. CASE Elsewhere \/ Quiet \/ GiveUp \/ Enqueue \/ Forbidden
  <2>1. UNCHANGED conn
    BY <1>1, BeingElsewhere, BeingQuiet DEF GiveUp, Enqueue, Forbidden
  <2>2. QED BY <2>1, ConnSame
<1>2. ASSUME NEW d \in Conns \ {c}, \/ \E batch : Sends(d, batch)
                                   \/ \E s : Begins(d, s)
                                   \/ \E k, outcome : Answers(d, k, outcome)
                                   \/ Ends(d)
      PROVE  Running(c)' = Running(c) /\ Todo(c)' = Todo(c) /\ Result(c)' = Result(c)
  BY <1>2, Ending DEF Sends, Begins, Answers, Turns
<1>3. ASSUME NEW s, Begins(c, s)
      PROVE  Running(c)' = Running(c) /\ Todo(c)' = Todo(c) /\ Result(c)' = Result(c)
  BY <1>3 DEF Begins, Turns
<1>4. QED BY <1>1, <1>2, <1>3, Kinds

LEMMA TxStep ==
  ASSUME TypeOK, InHand, Flush, [Next]_vars, NEW c \in Conns, NEW t \in Tx(c)'
  PROVE  t \in Tx(c) \/ \E s : Begins(c, s)
<1>1. CASE Elsewhere \/ Quiet \/ GiveUp \/ Enqueue \/ Forbidden
  <2>1. UNCHANGED conn
    BY <1>1, BeingElsewhere, BeingQuiet DEF GiveUp, Enqueue, Forbidden
  <2>2. QED BY <2>1, ConnSame
<1>2. ASSUME NEW d \in Conns, \/ \E batch : Sends(d, batch)
                             \/ \E s, outcome : Answers(d, s, outcome)
                             \/ Ends(d)
      PROVE  t \in Tx(c)
  BY <1>2, Ending DEF Sends, Answers, Turns
<1>3. ASSUME NEW d \in Conns, NEW s, Begins(d, s)
      PROVE  t \in Tx(c) \/ \E x : Begins(c, x)
  <2>1. CASE d = c
    BY <1>3, <2>1
  <2>2. CASE d # c
    BY <1>3, <2>2 DEF Begins, Turns
  <2>3. QED BY <2>1, <2>2
<1>4. QED BY <1>1, <1>2, <1>3, Kinds

\* Whom the agent does not wait for.
LEMMA LateMeans ==
  ASSUME NEW c \in Conns
  PROVE  /\ Late(c) = (Running(c) /\ ~(cycle.pc = "wait" /\ cycle.conn = c))
         /\ Todo(c) # {} \/ Result(c) # {} \/ Tx(c) # {} => Running(c)
BY DEF Late, Running, Todo, Result, Tx

LEMMA StillQueuedStep ==
  ASSUME BInv, OInv, [Next]_vars, ~disordered'
  PROVE  StillQueued'
<1>1. TypeOK /\ Marked /\ InHand /\ Flush /\ Heard /\ StillQueued /\ RefusedInTime
  BY DEF BInv, OInv
<1>2. checkins \subseteq checkins'
  BY <1>1, Grows
<1>3. SUFFICES ASSUME NEW c \in Conns, NEW s \in Todo(c)', s.at \notin checkins', s \notin queue'
               PROVE  FALSE
  BY DEF StillQueued
<1>4. CASE s \in Todo(c)
  <2>1. s \in queue /\ s.at \notin checkins /\ Running(c)
    BY <1>1, <1>2, <1>3, <1>4, LateMeans DEF StillQueued
  <2>2. CASE Enqueue
    <3>1. PICK kept : Stores(kept)
      BY <1>1, <2>2, Storing
    <3>2. kept # queue /\ cycle.pc = "store"
      BY <1>3, <2>1, <3>1 DEF Stores
    <3>3. ~Late(c)
      BY <3>1, <3>2 DEF Stores
    <3>4. QED BY <2>1, <3>2, <3>3, LateMeans
  <2>3. CASE Forbidden
    <3>1. cycle.pc = "send" /\ ~Late(c)
      BY <2>1, <2>3 DEF Forbidden, Drop
    <3>2. QED BY <2>1, <3>1, LateMeans
  <2>4. CASE Settle
    <3>1. cycle.pc = "wait" /\ cycle.conn \in Conns
      BY <1>1, <2>4, CycleTyped DEF Settle
    <3>2. c # cycle.conn
      BY <1>1, <1>3, <2>4, <3>1, Ending DEF Ends, Turns
    <3>3. Late(c)
      BY <2>1, <3>2, LateMeans
    <3>4. \E r \in Result(cycle.conn) : r.outcome = "rejected"
      BY <1>1, <1>3, <2>1, <2>4, Settled
    <3>5. QED BY <1>1, <3>1, <3>3, <3>4 DEF RefusedInTime
  <2>5. QED BY <1>1, <1>3, <2>1, <2>2, <2>3, <2>4, QueueStep
<1>5. CASE s \notin Todo(c)
  <2>1. PICK batch : Sends(c, batch)
    BY <1>1, <1>3, <1>5, RequestStep, Ending DEF Answers, Turns
  <2>2. QED BY <1>3, <2>1 DEF Sends, Turns, Batches
<1>6. QED BY <1>4, <1>5

LEMMA InTurnStep ==
  ASSUME BInv, OInv, [Next]_vars, ~disordered'
  PROVE  InTurn'
<1>1. TypeOK /\ Marked /\ InHand /\ Flush /\ InTurn
  BY DEF BInv, OInv
<1>2. checkins \subseteq checkins'
  BY <1>1, Grows
<1>3. SUFFICES ASSUME NEW c \in Conns, NEW s \in Todo(c)', NEW q \in queue',
                      s.at \notin checkins', q.at < s.at
               PROVE  q.at \in checkins' \/ q \in Todo(c)' \/ Refused(c, q)'
  BY DEF InTurn
<1>4. CASE s \in Todo(c) /\ q \in queue
  <2>1. q.at \in checkins \/ q \in Todo(c) \/ Refused(c, q)
    BY <1>1, <1>2, <1>3, <1>4 DEF InTurn
  <2>2. CASE Todo(c)' = Todo(c) /\ Result(c)' = Result(c)
    BY <1>2, <2>1, <2>2 DEF Refused
  <2>3. CASE Ends(c) \/ \E batch : Sends(c, batch)
    BY <1>1, <1>3, <1>4, <2>3, Ending, LateMeans DEF Sends, Turns
  <2>4. ASSUME NEW x, NEW outcome, Answers(c, x, outcome)
        PROVE  q.at \in checkins' \/ q \in Todo(c)' \/ Refused(c, q)'
    <3>1. /\ x \in Earliest(Todo(c)) /\ Todo(c)' = Todo(c) \ Earliest(Todo(c))
          /\ Result(c)' = Result(c) \cup {[at |-> x.at, outcome |-> outcome]}
          /\ outcome # "rejected" => x.at \in checkins'
      BY <2>4 DEF Answers, Turns
    <3>2. CASE q \in Earliest(Todo(c))
      <4>1. q.at = x.at
        BY <1>1, <3>1, <3>2, EarliestOnly
      <4>2. QED BY <3>1, <4>1 DEF Refused
    <3>3. CASE q \notin Earliest(Todo(c))
      BY <1>2, <2>1, <3>1, <3>3 DEF Refused
    <3>4. QED BY <3>2, <3>3
  <2>5. QED BY <1>1, <2>2, <2>3, <2>4, RequestStep
<1>5. CASE q \notin queue
  <2>1. Enqueue /\ q = cycle.snapshot
    BY <1>1, <1>3, <1>5, QueueStep
  <2>2. s \in Around
    BY <1>3, <2>1, ConnSame DEF Enqueue, Around
  <2>3. QED BY <1>1, <1>3, <2>1, <2>2, Storing, AroundTyped, Moment DEF Marked
<1>6. CASE s \notin Todo(c)
  <2>1. PICK batch : Sends(c, batch)
    BY <1>1, <1>3, <1>6, RequestStep, Ending DEF Answers, Turns
  <2>2. s \in batch /\ q \in queue /\ Todo(c)' = batch /\ batch \subseteq queue
        /\ \A x \in batch, y \in queue \ batch : x.at < y.at
    BY <1>3, <2>1 DEF Sends, Turns, Batches
  <2>3. s.at \in Nat /\ q.at \in Nat
    BY <1>1, <2>2, AroundTyped DEF Around
  <2>4. QED BY <1>3, <2>2, <2>3
<1>7. QED BY <1>4, <1>5, <1>6

LEMMA RefusedInTimeStep ==
  ASSUME BInv, OInv, [Next]_vars, ~disordered'
  PROVE  RefusedInTime'
<1>1. TypeOK /\ Marked /\ InHand /\ Flush /\ RefusedInTime
  BY DEF BInv, OInv
<1>2. SUFFICES ASSUME NEW c \in Conns, NEW r \in Result(c)', r.outcome = "rejected", NEW d \in Conns
               PROVE  ~Late(d)'
  BY DEF RefusedInTime
<1>3. r \in Result(c) => ~Late(c) /\ ~Late(d) /\ Running(c)
  BY <1>1, <1>2, LateMeans DEF RefusedInTime
<1>4. CASE Elsewhere \/ Quiet \/ Enqueue \/ Forbidden
  <2>1. UNCHANGED conn /\ (UNCHANGED cycle \/ (cycle.pc # "wait" /\ cycle'.pc # "wait"))
    BY <1>1, <1>4, BeingElsewhere, BeingQuiet DEF Enqueue, Forbidden, Idle
  <2>2. r \in Result(c)
    BY <1>2, <2>1, ConnSame
  <2>3. QED BY <1>3, <2>1, <2>2 DEF Late
<1>5. CASE GiveUp
  <2>1. /\ UNCHANGED conn /\ cycle.pc = "wait" /\ ~Rejecting(cycle.conn)
    BY <1>5 DEF GiveUp
  <2>2. r \in Result(c) /\ Running(c)
    BY <1>2, <1>3, <2>1, ConnSame
  <2>3. c # cycle.conn
    BY <1>2, <2>1, <2>2 DEF Rejecting, Result
  <2>4. QED BY <1>3, <2>1, <2>2, <2>3, LateMeans
<1>6. ASSUME NEW x \in Conns, NEW batch, Sends(x, batch) PROVE ~Late(d)'
  <2>1. r \in Result(c) /\ cycle.pc = "send"
    BY <1>2, <1>6 DEF Sends, Turns
  <2>2. QED BY <1>3, <2>1, LateMeans
<1>7. ASSUME NEW x \in Conns, NEW s, Begins(x, s) PROVE ~Late(d)'
  <2>1. /\ r \in Result(c) /\ cycle' = cycle /\ Running(d)' = Running(d)
    BY <1>2, <1>7 DEF Begins, Turns
  <2>2. QED BY <1>3, <2>1 DEF Late, Running
<1>8. ASSUME NEW x \in Conns, NEW s, NEW outcome, Answers(x, s, outcome) PROVE ~Late(d)'
  <2>1. cycle' = cycle /\ Running(d)' = Running(d)
    BY <1>8 DEF Answers, Turns
  <2>2. r \in Result(c) \/ (r = [at |-> s.at, outcome |-> outcome] /\ outcome = "rejected")
    BY <1>2, <1>8 DEF Answers, Turns
  <2>3. ~Late(d)
    BY <1>3, <1>8, <2>2 DEF Answers
  <2>4. QED BY <2>1, <2>3 DEF Late, Running
<1>9. ASSUME NEW x \in Conns, Ends(x) PROVE ~Late(d)'
  <2>1. /\ r \in Result(c) /\ c # x
        /\ Running(d)' => Running(d)
    BY <1>1, <1>2, <1>9, Ending DEF Turns
  <2>2. cycle.pc = "wait" /\ cycle.conn = c /\ cycle' = cycle
    BY <1>1, <1>3, <1>9, <2>1, Ending, LateMeans
  <2>3. QED BY <1>3, <2>1, <2>2 DEF Late, Running
<1>10. QED BY <1>1, <1>4, <1>5, <1>6, <1>7, <1>8, <1>9, Kinds

\* Of two transactions at once each would have to leave the other's snapshot out.
LEMMA NoOtherBegins ==
  ASSUME BInv, OInv, NEW c \in Conns, NEW s, Begins(c, s), NEW d \in Conns \ {c}, NEW u \in Tx(d)
  PROVE  FALSE
<1>1. TypeOK /\ Agree /\ InHand /\ StillQueued /\ InTurn /\ RefusedInTime
  BY DEF BInv, OInv
<1>2. /\ Running(c) /\ s \in Earliest(Todo(c)) /\ s \in Todo(c) /\ s.at \notin checkins /\ u.at # s.at
  BY DEF Begins, Earliest
<1>3. PICK x \in Earliest(Todo(d)) : u.at = x.at
  BY <1>1 DEF InHand
<1>4. x \in Todo(d) /\ x.at \notin checkins /\ x.at # s.at /\ Running(d)
  BY <1>1, <1>2, <1>3, LateMeans DEF InHand, Earliest
<1>5. s \in queue /\ x \in queue /\ s.at \in Nat /\ x.at \in Nat
  BY <1>1, <1>2, <1>4, AroundTyped DEF StillQueued, Around
<1>6. Late(c) \/ Late(d)
  BY <1>2, <1>4, LateMeans
<1>7. ~Refused(c, x) /\ ~Refused(d, s)
  BY <1>1, <1>6 DEF Refused, RefusedInTime
<1>8. CASE s.at < x.at
  <2>1. s \in Todo(d)
    BY <1>1, <1>2, <1>4, <1>5, <1>7, <1>8 DEF InTurn
  <2>2. QED BY <1>1, <1>3, <1>5, <1>8, <2>1, EarliestOnly
<1>9. CASE x.at < s.at
  <2>1. x \in Todo(c)
    BY <1>1, <1>2, <1>4, <1>5, <1>7, <1>9 DEF InTurn
  <2>2. QED BY <1>1, <1>2, <1>5, <1>9, <2>1, EarliestOnly
<1>10. QED BY <1>4, <1>5, <1>8, <1>9

LEMMA OneAtATimeStep ==
  ASSUME BInv, OInv, [Next]_vars
  PROVE  OneAtATime'
<1>1. TypeOK /\ InHand /\ Flush /\ OneAtATime
  BY DEF BInv, OInv
<1>2. SUFFICES ASSUME NEW c \in Conns, NEW d \in Conns, NEW t \in Tx(c)', NEW u \in Tx(d)', c # d
               PROVE  FALSE
  BY DEF OneAtATime
<1>3. CASE t \in Tx(c) /\ u \in Tx(d)
  BY <1>1, <1>2, <1>3 DEF OneAtATime
<1>4. ASSUME NEW s, Begins(c, s) PROVE FALSE
  <2>1. u \in Tx(d)
    BY <1>2, <1>4 DEF Begins, Turns
  <2>2. QED BY <1>2, <1>4, <2>1, NoOtherBegins
<1>5. ASSUME NEW s, Begins(d, s) PROVE FALSE
  <2>1. t \in Tx(c)
    BY <1>2, <1>5 DEF Begins, Turns
  <2>2. QED BY <1>2, <1>5, <2>1, NoOtherBegins
<1>6. QED BY <1>1, <1>3, <1>4, <1>5, TxStep

LEMMA ReadsLastStep ==
  ASSUME BInv, OInv, [Next]_vars
  PROVE  ReadsLast'
<1>1. TypeOK /\ InHand /\ Flush /\ OneAtATime /\ ReadsLast
  BY DEF BInv, OInv
<1>2. SUFFICES ASSUME NEW c \in Conns, NEW t \in Tx(c)' PROVE t.existing = state'
  BY DEF ReadsLast
<1>3. ASSUME NEW s, Begins(c, s) PROVE t.existing = state'
  BY <1>2, <1>3 DEF Begins, Turns, tables
<1>4. CASE t \in Tx(c)
  <2>1. CASE \A d \in Conns : ~Commit(d)
    BY <1>1, <1>4, <2>1, TablesStay DEF ReadsLast
  <2>2. ASSUME NEW d \in Conns, Commit(d) PROVE FALSE
    <3>1. PICK x, s : Commits(d, x, s)
      BY <1>1, <2>2, Committing
    <3>2. d = c
      BY <1>1, <1>4, <3>1 DEF Commits, OneAtATime
    <3>3. QED BY <1>2, <3>1, <3>2 DEF Commits, Answers, Turns
  <2>3. QED BY <2>1, <2>2
<1>5. QED BY <1>1, <1>3, <1>4, TxStep

\* A commit takes a snapshot that is still queued and newer than all before.
LEMMA CommitInOrder ==
  ASSUME BInv, OInv, NEW c \in Conns, NEW t, NEW s, Commits(c, t, s)
  PROVE  /\ s \in queue /\ s \in Todo(c) /\ newest.at < t.at
         /\ newest' = [at |-> t.at, open |-> t.open, history |-> t.history]
         /\ t.existing = state
         /\ \A q \in queue : q.at < t.at => q.at \in checkins \/ Refused(c, q)
<1>1. TypeOK /\ InHand /\ Heard /\ StillQueued /\ InTurn /\ RefusedInTime /\ ReadsLast /\ Ahead
  BY DEF BInv, OInv
<1>2. /\ s \in Earliest(Todo(c)) /\ s \in Todo(c) /\ s.at = t.at /\ s.at \notin checkins
      /\ Running(c) /\ t \in Tx(c)
  BY DEF Commits, Answers, Earliest
<1>3. s \in queue
  BY <1>1, <1>2 DEF StillQueued
<1>4. ASSUME NEW d \in Conns, Awaited(d), Refused(d, s) PROVE FALSE
  <2>1. CASE d = c
    <3>1. s.at < s.at /\ s.at \in Nat
      BY <1>1, <1>2, <1>4, <2>1, EarliestOnly DEF Heard, Refused
    <3>2. QED BY <3>1
  <2>2. CASE d # c
    BY <1>1, <1>2, <1>4, <2>2, LateMeans DEF Awaited, Refused, RefusedInTime
  <2>3. QED BY <2>1, <2>2
<1>5. newest.at < t.at
  BY <1>1, <1>2, <1>3, <1>4 DEF Ahead
<1>6. newest.at \in Nat /\ t.at \in Nat
  BY <1>1, Moment DEF Commits
<1>7. newest' = [at |-> t.at, open |-> t.open, history |-> t.history]
  BY <1>5, <1>6 DEF Commits
<1>8. ASSUME NEW q \in queue, q.at < t.at PROVE q.at \in checkins \/ Refused(c, q)
  <2>1. q \notin Todo(c)
    <3>1. SUFFICES ASSUME q \in Todo(c) PROVE FALSE
      OBVIOUS
    <3>2. s.at <= q.at /\ q.at \in Nat /\ s.at \in Nat
      BY <1>1, <1>2, <3>1, EarliestOnly
    <3>3. QED BY <1>2, <1>8, <3>2
  <2>2. QED BY <1>1, <1>2, <1>8, <2>1 DEF InTurn
<1>9. t.existing = state
  BY <1>1, <1>2 DEF ReadsLast
<1>10. QED BY <1>2, <1>3, <1>5, <1>7, <1>8, <1>9

LEMMA AheadStep ==
  ASSUME BInv, OInv, [Next]_vars, ~disordered'
  PROVE  Ahead'
<1>1. TypeOK /\ Marked /\ InHand /\ Flush /\ RefusedInTime /\ Ahead
  BY DEF BInv, OInv
<1>2. checkins \subseteq checkins' /\ newest.at \in Nat /\ marker \in Nat /\ newest.at <= marker
  BY <1>1, Grows, Moment DEF Marked
<1>3. SUFFICES ASSUME NEW q \in queue', q.at \notin checkins', ~(newest'.at < q.at)
               PROVE  \E c \in Conns : Awaited(c)' /\ Refused(c, q)'
  BY DEF Ahead
<1>4. q \in queue
  <2>1. CASE Enqueue /\ q = cycle.snapshot
    <3>1. newest' = newest /\ marker < q.at /\ q.at \in Nat
      BY <1>1, <2>1, Storing DEF Enqueue, tables
    <3>2. QED BY <1>2, <1>3, <3>1
  <2>2. QED BY <1>1, <1>3, <2>1, QueueStep
<1>5. q.at \notin checkins /\ q.at \in Nat
  BY <1>1, <1>2, <1>3, <1>4, AroundTyped DEF Around
<1>6. CASE newest.at < q.at
  <2>1. PICK c \in Conns : Commit(c)
    BY <1>3, <1>6, TablesStay
  <2>2. PICK t, s : Commits(c, t, s)
    BY <1>1, <2>1, Committing
  <2>3. newest'.at = t.at /\ t.at \in Nat /\ q.at # t.at
    BY <1>3, <2>2, CommitInOrder DEF Commits
  <2>4. q.at < t.at
    BY <1>3, <1>5, <2>3
  <2>5. Refused(c, q) /\ Running(c)
    BY <1>4, <1>5, <2>2, <2>4, CommitInOrder DEF Commits, Answers
  <2>6. Awaited(c)
    BY <1>1, <2>5, LateMeans DEF Refused, RefusedInTime, Awaited
  <2>7. Awaited(c)' /\ Refused(c, q)'
    BY <2>2, <2>5, <2>6 DEF Commits, Answers, Turns, Awaited, Refused
  <2>8. QED BY <2>7
<1>7. ASSUME NEW c \in Conns, Awaited(c), Refused(c, q) PROVE Awaited(c)' /\ Refused(c, q)'
  <2>1. Rejecting(c) /\ Running(c)
    BY <1>7, LateMeans DEF Refused, Rejecting, Result
  <2>2. ~Ends(c)
    <3>1. CASE Settle /\ c = cycle.conn
      BY <1>3, <1>7, <2>1, <3>1 DEF Settle, Unsettled, Refused, Result, Running
    <3>2. CASE Over(c)
      BY <1>7, <3>2 DEF Over, Late, Awaited
    <3>3. CASE BreaksOff(c)
      BY <2>1, <3>3 DEF BreaksOff
    <3>4. QED BY <3>1, <3>2, <3>3 DEF Ends
  <2>3. ~GiveUp
    BY <1>7, <2>1 DEF GiveUp, Awaited
  <2>4. ~Quiet /\ ~Enqueue /\ ~Forbidden
    BY <1>1, <1>7, BeingQuiet DEF Enqueue, Forbidden, Awaited
  <2>5. CASE Elsewhere
    BY <1>7, <2>5, BeingElsewhere, ConnSame DEF Awaited, Refused
  <2>6. ASSUME NEW d \in Conns, NEW batch, Sends(d, batch) PROVE FALSE
    BY <1>7, <2>6 DEF Sends, Awaited
  <2>7. ASSUME NEW d \in Conns, NEW s, Begins(d, s) PROVE Awaited(c)' /\ Refused(c, q)'
    BY <1>7, <2>7 DEF Begins, Turns, Awaited, Refused
  <2>8. ASSUME NEW d \in Conns, NEW s, NEW outcome, Answers(d, s, outcome)
        PROVE  Awaited(c)' /\ Refused(c, q)'
    BY <1>7, <2>8 DEF Answers, Turns, Awaited, Refused
  <2>9. ASSUME NEW d \in Conns, Ends(d) PROVE Awaited(c)' /\ Refused(c, q)'
    <3>1. d # c
      BY <2>2, <2>9
    <3>2. cycle' = cycle /\ Result(c)' = Result(c)
      BY <1>1, <1>7, <2>9, <3>1, Ending DEF Turns, Awaited
    <3>3. QED BY <1>7, <3>2 DEF Awaited, Refused
  <2>10. QED BY <1>1, <2>3, <2>4, <2>5, <2>6, <2>7, <2>8, <2>9, Kinds
<1>8. QED BY <1>1, <1>4, <1>5, <1>6, <1>7 DEF Ahead

LEMMA TargetCases ==
  ASSUME NEW t, NEW existing, NEW u
  PROVE  /\ u \in t.open => Target(t, existing, u) = "available"
         /\ u \notin t.open /\ Attempts(t, u) # {} => Target(t, existing, u) \in {"installed", "failed"}
         /\ u \notin t.open /\ Attempts(t, u) = {} /\ existing[u] = "available"
              => Target(t, existing, u) = "superseded"
         /\ u \notin t.open /\ Attempts(t, u) = {} /\ existing[u] # "available"
              => Target(t, existing, u) = "untouched"
BY DEF Target

LEMMA FollowsStep ==
  ASSUME BInv, OInv, [Next]_vars
  PROVE  Follows'
<1>1. TypeOK /\ Marked /\ Complete /\ InHand /\ Flush /\ Spans /\ Follows
  BY DEF BInv, OInv
<1>2. SUFFICES ASSUME NEW s \in queue', NEW e \in s.history, NEW k \in checkins', k < s.at
               PROVE  k < e.at
  BY DEF Follows
<1>3. CASE Enqueue /\ s = cycle.snapshot
  <2>1. marker < e.at /\ e.at \in Nat /\ k \in checkins
    <3>1. cycle.pc = "store" /\ checkins' = checkins /\ cycle.snapshot \in Snapshots
      BY <1>1, <1>3, Storing DEF Enqueue, tables
    <3>2. marker < e.at /\ e \in history
      BY <1>1, <1>3, <3>1 DEF Complete, Snapshots
    <3>3. QED BY <1>1, <1>2, <3>1, <3>2, Moment DEF TypeOK
  <2>2. k <= newest.at /\ newest.at <= marker /\ k \in Nat
    BY <1>1, <2>1, AroundTyped DEF Marked
  <2>3. QED BY <1>1, <2>1, <2>2, Moment
<1>4. CASE s \in queue /\ k \in checkins
  BY <1>1, <1>2, <1>4 DEF Follows
<1>5. CASE s \in queue /\ k \notin checkins
  <2>1. PICK c \in Conns : Commit(c)
    BY <1>2, <1>5, TablesStay
  <2>2. PICK t, x : Commits(c, t, x)
    BY <1>1, <2>1, Committing
  <2>3. x \in queue /\ k = x.at
    BY <1>2, <1>5, <2>2, CommitInOrder DEF Commits
  <2>4. QED BY <1>1, <1>2, <1>5, <2>3 DEF Spans
<1>6. QED BY <1>1, <1>2, <1>3, <1>4, <1>5, QueueStep

\* What a commit adds to the time line.
LEMMA NewEventsAre ==
  ASSUME NEW t, NEW existing, NEW v \in NewEvents(t, existing)
  PROVE  \/ /\ v.at = t.at /\ v.type = "appeared" /\ v.update \in Updates
            /\ v.update \in t.open /\ existing[v.update] # "available"
         \/ /\ \E e \in t.history : v = Event(e)
            /\ v.type # "appeared"
         \/ /\ v.at = t.at /\ v.type = "disappeared"
BY DEF NewEvents, Event, Appears

LEMMA LineStep ==
  ASSUME BInv, OInv, [Next]_vars
  PROVE  Line'
<1>1. TypeOK /\ Marked /\ InHand /\ Flush /\ Spans /\ Line
  BY DEF BInv, OInv
<1>2. clock \in Nat /\ marker \in Nat /\ newest.at \in Nat
  BY <1>1, Moment
<1>3. \A v \in events : v.at \in Nat /\ v.at <= clock
  BY <1>1, <1>2 DEF TypeOK, Moments
<1>4. CASE \A c \in Conns : ~Commit(c)
  <2>1. UNCHANGED <<events, newest, checkins>>
    BY <1>4, TablesStay
  <2>2. SUFFICES ASSUME NEW v \in events
                 PROVE  /\ \A s \in queue' : newest.at < s.at => v.at < s.at
                        /\ Collecting' => v.at < Began'
    BY <1>1, <2>1 DEF Line
  <2>3. ASSUME NEW s \in queue', newest.at < s.at PROVE v.at < s.at
    <3>1. CASE s \in queue
      BY <1>1, <2>3, <3>1 DEF Line
    <3>2. CASE Enqueue /\ s = cycle.snapshot
      BY <1>1, <3>2 DEF Line, Enqueue, Collecting, Began
    <3>3. QED BY <1>1, <3>1, <3>2, QueueStep
  <2>4. Collecting' => v.at < Began'
    <3>1. CASE Collect
      <4>1. Began' = clock + 1
        BY <3>1 DEF Collect, Began
      <4>2. QED BY <1>2, <1>3, <4>1
    <3>2. CASE Search \/ ReadHistory
      <4>1. Began' = Began /\ Collecting
        BY <3>2 DEF Search, ReadHistory, Began, Collecting
      <4>2. QED BY <1>1, <4>1 DEF Line
    <3>3. CASE UNCHANGED cycle
      BY <1>1, <3>3 DEF Line, Collecting, Began
    <3>4. CASE cycle'.pc \notin {"search", "read", "store"}
      BY <3>4 DEF Collecting
    <3>5. QED BY <1>4, <3>1, <3>2, <3>3, <3>4 DEF Next, WindowsNext, Offer, Withdraw, Attempt, AgentNext,
       CollectFails, Enqueue, Peek, Send, Unreachable, Forbidden, Settle, GiveUp, Stop, BackendNext,
       ConnNext, Duplicate, Begin, Over, Reject, BreaksOff, vars, agent, Idle
  <2>5. QED BY <2>3, <2>4
<1>5. ASSUME NEW c \in Conns, Commit(c) PROVE Line'
  <2>1. PICK t, x : Commits(c, t, x)
    BY <1>1, <1>5, Committing
  <2>2. /\ x \in queue /\ x \in Around /\ newest.at < t.at /\ newest'.at = t.at
        /\ x.at = t.at /\ x.history = t.history /\ t.at \in Nat
    BY <2>1, CommitInOrder DEF Commits, Around
  <2>3. /\ UNCHANGED <<queue, cycle>> /\ checkins' = checkins \cup {t.at}
        /\ events' = events \cup NewEvents(t, t.existing)
    BY <2>1 DEF Commits, agent
  <2>4. \A s \in queue : s.at \in Nat
    BY <1>1, AroundTyped DEF Around
  <2>5. SUFFICES ASSUME NEW v \in events'
                 PROVE  /\ \A s \in queue : t.at < s.at => v.at < s.at
                        /\ Collecting => v.at < Began
                        /\ v.type = "appeared" => v.at \in checkins'
    BY <2>2, <2>3 DEF Line, Collecting, Began
  <2>6. CASE v \in events
    BY <1>1, <1>2, <2>2, <2>3, <2>4, <2>6 DEF Line
  <2>7. CASE v.at = t.at
    <3>1. Collecting => Began \in Nat
      BY <1>1, CycleTyped, Moment DEF Collecting, Began, Snapshots
    <3>2. Collecting => t.at < Began
      BY <1>1, <1>2, <2>2, <3>1 DEF Marked
    <3>3. QED BY <2>3, <2>7, <3>2
  <2>8. CASE v.type # "appeared" /\ \E e \in t.history : v = Event(e)
    <3>1. PICK e \in t.history : v.at = e.at
      BY <2>8 DEF Event
    <3>2. QED BY <1>1, <2>2, <2>8, <3>1 DEF Spans
  <2>9. QED BY <2>3, <2>6, <2>7, <2>8, NewEventsAre
<1>6. QED BY <1>4, <1>5

LEMMA GoneStep ==
  ASSUME BInv, OInv, [Next]_vars
  PROVE  Gone'
<1>1. TypeOK /\ Marked /\ InHand /\ Line /\ Gone /\ Follows
  BY DEF BInv, OInv
<1>2. CASE \A c \in Conns : ~Commit(c)
  BY <1>1, <1>2, TablesStay DEF Gone
<1>3. ASSUME NEW c \in Conns, Commit(c) PROVE Gone'
  <2>1. PICK t, x : Commits(c, t, x)
    BY <1>1, <1>3, Committing
  <2>2. /\ x \in queue /\ newest.at < t.at /\ x.at = t.at /\ x.history = t.history /\ t.at \in Nat
        /\ t.existing = state
    BY <2>1, CommitInOrder DEF Commits
  <2>3. /\ events' = events \cup NewEvents(t, t.existing)
        /\ \A u \in Updates : state'[u] = IF Target(t, t.existing, u) = "untouched" THEN state[u]
                                                                  ELSE Target(t, t.existing, u)
    BY <2>1 DEF Commits
  <2>4. SUFFICES ASSUME NEW a \in events', a.type = "appeared", state'[a.update] # "available"
                 PROVE  \E e \in events' : e.update = a.update /\ e.type # "appeared" /\ a.at < e.at
    BY DEF Gone
  <2>5. a.update \in Updates
    BY <1>3, <1>1, <2>4, TypeStep DEF TypeOK
  <2>6. CASE a \in events /\ state[a.update] = "available"
    <3>1. a.at \in checkins /\ a.at < t.at
      BY <1>1, <2>2, <2>4, <2>6, AroundTyped, Moment DEF Line, Marked
    <3>2. a.update \notin t.open
      BY <2>3, <2>4, <2>5, TargetCases
    <3>3. CASE Attempts(t, a.update) # {}
      <4>1. PICK e \in t.history : e.update = a.update
        BY <3>3 DEF Attempts
      <4>2. a.at < e.at
        BY <1>1, <2>2, <3>1, <4>1 DEF Follows
      <4>3. Event(e) \in events' /\ Event(e).update = a.update /\ Event(e).at = e.at
            /\ Event(e).type # "appeared"
        BY <1>1, <2>1, <4>1, EventsTold DEF Event
      <4>4. QED BY <4>2, <4>3
    <3>4. CASE Attempts(t, a.update) = {}
      <4>1. Target(t, t.existing, a.update) = "superseded"
        BY <2>2, <2>6, <3>2, <3>4, TargetCases
      <4>2. [update |-> a.update, type |-> "disappeared", at |-> t.at] \in events'
        BY <2>3, <2>5, <4>1 DEF NewEvents
      <4>3. QED BY <3>1, <4>2
    <3>5. QED BY <3>3, <3>4
  <2>7. CASE a \in events /\ state[a.update] # "available"
    BY <1>1, <2>3, <2>4, <2>7 DEF Gone
  <2>8. CASE a \in NewEvents(t, t.existing)
    <3>1. a.update \in t.open
      BY <2>4, <2>8, NewEventsAre
    <3>2. QED BY <2>3, <2>4, <2>5, <3>1, TargetCases
  <2>9. QED BY <2>3, <2>4, <2>6, <2>7, <2>8
<1>4. QED BY <1>2, <1>3

LEMMA OInvStep == ASSUME BInv, OInv, [Next]_vars, ~disordered' PROVE OInv'
BY StillQueuedStep, InTurnStep, RefusedInTimeStep, OneAtATimeStep, ReadsLastStep, AheadStep, FollowsStep,
   LineStep, GoneStep DEF OInv

InOrder == BInv /\ (~disordered => OInv)

LEMMA InOrderInit == Init => InOrder
<1>1. SUFFICES ASSUME Init PROVE OInv
  BY BInvInit DEF InOrder
<1>2. /\ queue = {} /\ checkins = {} /\ events = {}
      /\ \A c \in Conns : Todo(c) = {} /\ Result(c) = {} /\ Tx(c) = {}
  BY <1>1 DEF Init, Todo, Result, Tx, Running, Idle
<1>3. QED BY <1>2 DEF OInv, StillQueued, InTurn, RefusedInTime, OneAtATime, ReadsLast, Ahead, Follows,
                     Line, Gone

LEMMA DisorderStays == ASSUME BInv, [Next]_vars, ~disordered' PROVE ~disordered
BY Grows DEF BInv

LEMMA InOrderStep == ASSUME InOrder, [Next]_vars PROVE InOrder'
BY BInvStep, OInvStep, DisorderStays DEF InOrder

LEMMA AlwaysInOrder == Spec => []InOrder
<1>1. QED BY InOrderInit, InOrderStep, PTL DEF Spec

LEMMA NewestWinsStep == ASSUME InOrder, NewestWins, [Next]_vars PROVE NewestWins'
<1>1. SUFFICES ASSUME ~disordered'
               PROVE  {u \in Updates : state'[u] = "available"} = newest'.open
  BY DEF NewestWins
<1>2. BInv /\ OInv /\ TypeOK /\ InHand /\ {u \in Updates : state[u] = "available"} = newest.open
  BY <1>1, DisorderStays DEF InOrder, NewestWins, BInv
<1>3. CASE \A c \in Conns : ~Commit(c)
  BY <1>2, <1>3, TablesStay
<1>4. ASSUME NEW c \in Conns, Commit(c)
      PROVE  {u \in Updates : state'[u] = "available"} = newest'.open
  <2>1. PICK t, x : Commits(c, t, x)
    BY <1>2, <1>4, Committing
  <2>2. newest'.open = t.open /\ t.existing = state /\ t.open \subseteq Updates
    BY <1>2, <2>1, CommitInOrder DEF Commits, Transactions
  <2>3. \A u \in Updates : state'[u] = IF Target(t, state, u) = "untouched" THEN state[u]
                                                                  ELSE Target(t, state, u)
    BY <2>1, <2>2 DEF Commits
  <2>4. ASSUME NEW u \in Updates PROVE state'[u] = "available" <=> u \in t.open
    <3>1. CASE u \in t.open
      BY <2>3, <3>1, TargetCases
    <3>2. CASE u \notin t.open /\ Attempts(t, u) # {}
      BY <2>3, <3>2, TargetCases
    <3>3. CASE u \notin t.open /\ Attempts(t, u) = {}
      BY <2>3, <3>3, TargetCases
    <3>4. QED BY <3>1, <3>2, <3>3
  <2>5. QED BY <2>2, <2>4
<1>5. QED BY <1>3, <1>4

\* As long as the agent has heard of every rejection in time, the open updates are
\* those of the newest snapshot, though any number of requests with any snapshots may
\* be handled at once.
THEOREM NewestDecides == Spec => []NewestWins
<1>1. Init => NewestWins
  BY DEF Init, NewestWins, None
<1>2. QED BY <1>1, NewestWinsStep, AlwaysInOrder, PTL DEF Spec

LEMMA TimelineStep == ASSUME InOrder, TimelineAlternates, [Next]_vars PROVE TimelineAlternates'
<1>1. SUFFICES ASSUME ~disordered', NEW a \in events', NEW b \in events',
                      a.type = "appeared", b.type = "appeared", a.update = b.update, a.at < b.at
               PROVE  \E e \in events' : /\ e.update = a.update /\ e.type # "appeared"
                                         /\ a.at < e.at /\ e.at <= b.at
  BY DEF TimelineAlternates
<1>2. /\ BInv /\ OInv /\ TypeOK /\ Marked /\ InHand /\ Line /\ Gone /\ ~disordered
      /\ events \subseteq events'
  BY <1>1, DisorderStays, Grows DEF InOrder, BInv, OInv
<1>3. CASE a \in events /\ b \in events
  BY <1>1, <1>2, <1>3 DEF TimelineAlternates
<1>4. CASE ~(a \in events /\ b \in events)
  <2>1. PICK c \in Conns : Commit(c)
    BY <1>1, <1>4, TablesStay
  <2>2. PICK t, x : Commits(c, t, x)
    BY <1>2, <2>1, Committing
  <2>3. /\ x \in queue /\ newest.at < t.at /\ x.at = t.at /\ t.at \in Nat /\ t.existing = state
        /\ events' = events \cup NewEvents(t, t.existing)
    BY <1>2, <2>2, CommitInOrder DEF Commits
  <2>4. \A v \in events : v.type = "appeared" => v.at \in checkins /\ v.at \in Nat /\ v.at <= newest.at
    BY <1>2, AroundTyped DEF Line, Marked
  <2>5. newest.at \in Nat
    BY <1>2, Moment
  <2>6. a \in events
    <3>1. CASE a \notin events
      <4>1. a.at = t.at
        BY <1>1, <2>3, <3>1, NewEventsAre
      <4>2. b.at = t.at \/ (b.at <= newest.at /\ b.at \in Nat)
        BY <1>1, <2>3, <2>4, NewEventsAre
      <4>3. QED BY <1>1, <2>3, <2>5, <4>1, <4>2
    <3>2. QED BY <3>1
  <2>7. b.at = t.at /\ state[a.update] # "available"
    BY <1>1, <1>4, <2>3, <2>6, NewEventsAre
  <2>8. PICK e \in events : e.update = a.update /\ e.type # "appeared" /\ a.at < e.at
    BY <1>1, <1>2, <2>6, <2>7 DEF Gone
  <2>9. e.at < t.at /\ e.at \in Nat
    BY <1>2, <2>3, <2>8, Moment DEF Line, TypeOK
  <2>10. QED BY <1>2, <2>3, <2>7, <2>8, <2>9
<1>5. QED BY <1>3, <1>4

\* In order, no update appears in the time line twice with nothing in between.
THEOREM TimelineIsPlausible == Spec => []TimelineAlternates
<1>1. Init => TimelineAlternates
  BY DEF Init, TimelineAlternates
<1>2. QED BY <1>1, TimelineStep, AlwaysInOrder, PTL DEF Spec

-----------------------------------------------------------------------------
(* Why an update is gone.                                                   *)

\* No snapshot of after the attempt e lists u.
Absent(u, e) ==
  /\ \A s \in queue : e.at <= s.at => u \notin s.open
  /\ cycle.pc = "read" /\ e.at <= cycle.at => u \notin cycle.open
  /\ cycle.pc = "store" /\ e.at <= cycle.snapshot.at => u \notin cycle.snapshot.open

Shown(u, e) ==
  ~disordered /\ e.at <= newest.at /\ e \notin dropped => state[u] \in {"installed", "failed"}

\* An update that Windows has installed has an attempt, no snapshot of after it lists
\* the update, and once the backend knows of it the state says so.
Explained ==
  \A u \in Updates \ offered : left[u] = "installed" =>
    \E e \in history : e.update = u /\ Absent(u, e) /\ Shown(u, e)

\* An update that Windows has never offered is in no snapshot and has no state.
Unseen ==
  \A u \in Updates \ offered : left[u] = "none" =>
    /\ \A s \in queue : u \notin s.open
    /\ cycle.pc = "read" => u \notin cycle.open
    /\ cycle.pc = "store" => u \notin cycle.snapshot.open
    /\ \A e \in history : e.update # u
    /\ ~disordered => state[u] = "unknown"

\* What has been offered stays listed, or is not, as Windows leaves it alone.
LEMMA AbsentStep ==
  ASSUME BInv, [Next]_vars, NEW u \in Updates \ offered, NEW e \in history, Absent(u, e)
  PROVE  Absent(u, e)'
<1>1. TypeOK /\ Marked /\ InHand /\ Flush
  BY DEF BInv
<1>2. \A s \in queue' : e.at <= s.at => u \notin s.open
  BY <1>1, QueueStep DEF Absent, Enqueue
<1>3. CASE Search
  BY <1>2, <1>3 DEF Search, Absent
<1>4. CASE ReadHistory
  BY <1>2, <1>4 DEF ReadHistory, Absent
<1>5. CASE UNCHANGED cycle
  BY <1>2, <1>5 DEF Absent
<1>6. CASE cycle'.pc \notin {"read", "store"}
  BY <1>2, <1>6 DEF Absent
<1>7. QED BY <1>3, <1>4, <1>5, <1>6 DEF Next, WindowsNext, Offer, Withdraw, Attempt, AgentNext, Collect,
       CollectFails, Enqueue, Peek, Send, Unreachable, Forbidden, Settle, GiveUp, Stop, BackendNext,
       ConnNext, Duplicate, Begin, Commit, Over, Reject, BreaksOff, vars, agent, Idle

LEMMA ShownStep ==
  ASSUME InOrder, [Next]_vars, NEW u \in Updates, NEW e \in history, e.update = u,
         Absent(u, e), Shown(u, e)
  PROVE  Shown(u, e)'
<1>1. BInv /\ TypeOK /\ Agree /\ Marked /\ InHand /\ Flush /\ Heard /\ First /\ dropped \subseteq dropped'
  BY Grows DEF InOrder, BInv
<1>2. SUFFICES ASSUME ~disordered', e.at <= newest'.at, e \notin dropped'
               PROVE  state'[u] \in {"installed", "failed"}
  BY DEF Shown
<1>3. OInv /\ ~disordered /\ e \notin dropped
  BY <1>1, <1>2, DisorderStays DEF InOrder
<1>4. CASE \A c \in Conns : ~Commit(c)
  BY <1>2, <1>3, <1>4, TablesStay DEF Shown
<1>5. ASSUME NEW c \in Conns, Commit(c) PROVE state'[u] \in {"installed", "failed"}
  <2>1. PICK t, x : Commits(c, t, x)
    BY <1>1, <1>5, Committing
  <2>2. /\ x \in queue /\ x \in Around /\ newest.at < t.at /\ newest'.at = t.at /\ t.existing = state
        /\ x.at = t.at /\ x.history = t.history /\ x.open = t.open /\ t.at \in Nat
        /\ \A q \in queue : q.at < t.at => q.at \in checkins \/ Refused(c, q)
    BY <1>1, <1>3, <2>1, CommitInOrder DEF Commits, Around
  <2>3. u \notin t.open
    BY <1>2, <2>2 DEF Absent
  <2>4. state'[u] = IF Target(t, state, u) = "untouched" THEN state[u] ELSE Target(t, state, u)
    BY <2>1, <2>2 DEF Commits
  <2>5. CASE Attempts(t, u) # {}
    BY <2>3, <2>4, <2>5, TargetCases
  <2>6. CASE Attempts(t, u) = {} /\ e.at <= newest.at
    <3>1. state[u] \in {"installed", "failed"}
      BY <1>3, <2>6 DEF Shown
    <3>2. Target(t, state, u) = "untouched"
      BY <2>3, <2>6, <3>1, TargetCases
    <3>3. QED BY <2>4, <3>1, <3>2
  <2>7. CASE ~(e.at <= newest.at)
    <3>1. newest.at \in Nat /\ marker \in Nat /\ e.at \in Nat
      BY <1>1, Moment DEF TypeOK
    <3>2. newest.at < e.at /\ e.at <= t.at /\ t.at <= marker
      BY <1>1, <1>2, <2>2, <2>7, <3>1 DEF Marked
    <3>3. PICK s \in queue : /\ e \in s.history /\ e.at <= s.at
                             /\ \A q \in queue : e.at <= q.at => s.at <= q.at
      BY <1>1, <1>3, <2>2, <3>1, <3>2 DEF First
    <3>4. s.at \in Nat /\ s \in Around /\ s.at <= t.at /\ s.at \notin checkins
      BY <1>1, <2>2, <3>1, <3>2, <3>3, AroundTyped DEF Around, Marked
    <3>5. ~Refused(c, s)
      BY <1>1, <1>3, <3>3 DEF Heard, Refused
    <3>6. s.at = t.at
      BY <2>2, <3>3, <3>4, <3>5
    <3>7. e \in t.history
      BY <1>1, <2>2, <3>3, <3>4, <3>6 DEF Agree
    <3>8. Attempts(t, u) # {}
      BY <3>7 DEF Attempts
    <3>9. QED BY <2>5, <3>8
  <2>8. QED BY <2>5, <2>6, <2>7
<1>6. QED BY <1>4, <1>5

LEMMA ExplainedStep == ASSUME InOrder, Explained, [Next]_vars PROVE Explained'
<1>1. BInv /\ TypeOK /\ history \subseteq history' /\ newest.at \in Nat /\ clock \in Nat
  BY Grows, Moment DEF InOrder, BInv
<1>2. SUFFICES ASSUME NEW u \in Updates \ offered', left'[u] = "installed"
               PROVE  \E e \in history' : e.update = u /\ Absent(u, e)' /\ Shown(u, e)'
  BY DEF Explained
<1>3. CASE u \notin offered /\ left[u] = "installed"
  <2>1. PICK e \in history : e.update = u /\ Absent(u, e) /\ Shown(u, e)
    BY <1>2, <1>3 DEF Explained
  <2>2. Absent(u, e)' /\ Shown(u, e)'
    BY <1>1, <1>2, <1>3, <2>1, AbsentStep, ShownStep
  <2>3. QED BY <1>1, <2>1, <2>2
<1>4. CASE ~(u \notin offered /\ left[u] = "installed")
  <2>1. CASE \E v \in Updates : Offer(v) \/ Withdraw(v)
    <3>1. PICK v \in Updates : Offer(v) \/ Withdraw(v)
      BY <2>1
    <3>2. left'[u] \in {left[u], "none", "withdrawn"} /\ left'[v] # "installed" /\ (u # v => left'[u] = left[u])
          /\ (u # v => u \notin offered)
      BY <1>1, <1>2, <3>1 DEF Offer, Withdraw, TypeOK
    <3>3. QED BY <1>2, <1>4, <3>2
  <2>2. ASSUME NEW v \in Updates, NEW code \in Codes, Attempt(v, code)
        PROVE  \E e \in history' : e.update = u /\ Absent(u, e)' /\ Shown(u, e)'
    <3>1. v = u
      BY <1>1, <1>2, <1>4, <2>2 DEF Attempt, TypeOK
    <3>2. PICK e \in history' : e.update = u /\ e.at = clock + 1
      <4>1. [update |-> u, at |-> clock + 1, code |-> code] \in history'
        BY <2>2, <3>1 DEF Attempt
      <4>2. QED BY <4>1
    <3>3. UNCHANGED <<queue, cycle, newest, state>>
      BY <2>2 DEF Attempt, agent, tables
    <3>4. \A s \in queue : s.at \in Nat /\ s.at <= clock
      BY <1>1 DEF TypeOK, Snapshots, Moments
    <3>5. /\ cycle.pc = "read" => cycle.at \in Nat /\ cycle.at <= clock
          /\ cycle.pc = "store" => cycle.snapshot.at \in Nat /\ cycle.snapshot.at <= clock
      BY <1>1, CycleTyped DEF Snapshots, Moments
    <3>6. newest.at <= clock
      BY <1>1 DEF TypeOK
    <3>7. Absent(u, e)'
      BY <1>1, <3>2, <3>3, <3>4, <3>5 DEF Absent
    <3>8. Shown(u, e)'
      BY <1>1, <3>2, <3>3, <3>6 DEF Shown
    <3>9. QED BY <3>2, <3>7, <3>8
  <2>3. CASE UNCHANGED <<offered, left>>
    BY <1>2, <1>4, <2>3
  <2>4. QED BY <2>1, <2>2, <2>3 DEF Next, WindowsNext, AgentNext, Collect, Search, ReadHistory, Enqueue,
       CollectFails, Peek, Send, Unreachable, Forbidden, Settle, GiveUp, Stop, BackendNext,
       ConnNext, Duplicate, Begin, Commit, Over, Reject, BreaksOff, vars, windows
<1>5. QED BY <1>3, <1>4

LEMMA UnseenStep == ASSUME InOrder, Unseen, [Next]_vars PROVE Unseen'
<1>1. BInv /\ TypeOK /\ Marked /\ InHand /\ Flush
  BY DEF InOrder, BInv
<1>2. SUFFICES ASSUME NEW u \in Updates \ offered', left'[u] = "none"
               PROVE  /\ \A s \in queue' : u \notin s.open
                      /\ cycle'.pc = "read" => u \notin cycle'.open
                      /\ cycle'.pc = "store" => u \notin cycle'.snapshot.open
                      /\ \A e \in history' : e.update # u
                      /\ ~disordered' => state'[u] = "unknown"
  BY DEF Unseen
<1>3. u \notin offered /\ left[u] = "none"
  <2>1. ASSUME NEW v \in Updates, \/ Offer(v) \/ Withdraw(v) \/ \E code \in Codes : Attempt(v, code)
        PROVE  u \notin offered /\ left[u] = "none"
    BY <1>1, <1>2, <2>1 DEF Offer, Withdraw, Attempt, TypeOK
  <2>2. CASE UNCHANGED <<offered, left>>
    BY <1>2, <2>2
  <2>3. QED BY <2>1, <2>2 DEF Next, WindowsNext, AgentNext, Collect, Search, ReadHistory, Enqueue,
       CollectFails, Peek, Send, Unreachable, Forbidden, Settle, GiveUp, Stop, BackendNext,
       ConnNext, Duplicate, Begin, Commit, Over, Reject, BreaksOff, vars, windows
<1>4. /\ \A s \in queue : u \notin s.open
      /\ cycle.pc = "read" => u \notin cycle.open
      /\ cycle.pc = "store" => u \notin cycle.snapshot.open
      /\ \A e \in history : e.update # u
      /\ ~disordered => state[u] = "unknown"
  BY <1>2, <1>3 DEF Unseen
<1>5. \A s \in queue' : u \notin s.open
  BY <1>1, <1>4, QueueStep DEF Enqueue
<1>6. (cycle'.pc = "read" => u \notin cycle'.open) /\ (cycle'.pc = "store" => u \notin cycle'.snapshot.open)
  <2>1. CASE Search \/ ReadHistory
    BY <1>3, <1>4, <2>1 DEF Search, ReadHistory
  <2>2. CASE UNCHANGED cycle \/ cycle'.pc \notin {"read", "store"}
    BY <1>4, <2>2
  <2>3. QED BY <2>1, <2>2 DEF Next, WindowsNext, Offer, Withdraw, Attempt, AgentNext, Collect,
       CollectFails, Enqueue, Peek, Send, Unreachable, Forbidden, Settle, GiveUp, Stop, BackendNext,
       ConnNext, Duplicate, Begin, Commit, Over, Reject, BreaksOff, vars, agent, Idle
<1>7. \A e \in history' : e.update # u
  <2>1. ASSUME NEW v \in Updates, NEW code \in Codes, Attempt(v, code)
        PROVE  \A e \in history' : e.update # u
    <3>1. v # u
      BY <1>3, <2>1 DEF Attempt
    <3>2. history' = history \cup {[update |-> v, at |-> clock + 1, code |-> code]}
      BY <2>1 DEF Attempt
    <3>3. QED BY <1>4, <3>1, <3>2
  <2>2. CASE UNCHANGED history
    BY <1>4, <2>2
  <2>3. QED BY <2>1, <2>2 DEF Next, WindowsNext, Offer, Withdraw, AgentNext, Collect, Search, ReadHistory,
       Enqueue, CollectFails, Peek, Send, Unreachable, Forbidden, Settle, GiveUp, Stop, BackendNext,
       ConnNext, Duplicate, Begin, Commit, Over, Reject, BreaksOff, vars, windows
<1>8. ASSUME ~disordered' PROVE state'[u] = "unknown"
  <2>1. OInv /\ state[u] = "unknown"
    BY <1>1, <1>4, <1>8, DisorderStays DEF InOrder
  <2>2. CASE \A c \in Conns : ~Commit(c)
    BY <2>1, <2>2, TablesStay
  <2>3. ASSUME NEW c \in Conns, Commit(c) PROVE state'[u] = "unknown"
    <3>1. PICK t, x : Commits(c, t, x)
      BY <1>1, <2>3, Committing
    <3>2. u \notin t.open /\ t.existing = state
      BY <1>1, <1>4, <2>1, <3>1, CommitInOrder DEF Commits
    <3>3. Attempts(t, u) = {}
      BY <1>4, <3>1 DEF Commits, Transactions, Attempts
    <3>4. Target(t, t.existing, u) = "untouched"
      BY <2>1, <3>2, <3>3, TargetCases
    <3>5. QED BY <2>1, <3>1, <3>4 DEF Commits
  <2>4. QED BY <2>2, <2>3
<1>9. QED BY <1>5, <1>6, <1>7, <1>8

\* An update is called superseded only if Windows withdrew it: whatever installed it
\* reaches the backend in time, and counts for more than that the update is gone.
THEOREM SupersededIsWithdrawn == Spec => []SupersededWasWithdrawn
<1>1. Init => Explained /\ Unseen
  BY DEF Init, Explained, Unseen, Idle
<1>2. InOrder /\ Explained /\ Unseen => SupersededWasWithdrawn
  <2>1. SUFFICES ASSUME InOrder, Explained, Unseen, NEW u \in Updates,
                        state[u] = "superseded", ~disordered, u \notin offered,
                        \A e \in history : e.update = u => e.at <= newest.at /\ e \notin dropped
                 PROVE  left[u] = "withdrawn"
    BY DEF SupersededWasWithdrawn
  <2>2. left[u] \in {"none", "withdrawn", "installed"}
    BY <2>1 DEF InOrder, BInv, TypeOK
  <2>3. left[u] # "none"
    BY <2>1 DEF Unseen
  <2>4. left[u] # "installed"
    BY <2>1 DEF Explained, Shown
  <2>5. QED BY <2>2, <2>3, <2>4
<1>3. QED BY <1>1, <1>2, ExplainedStep, UnseenStep, AlwaysInOrder, PTL DEF Spec

=============================================================================
