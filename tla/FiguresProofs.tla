--------------------------- MODULE FiguresProofs ---------------------------
(***************************************************************************)
(* What Figures promises for every fleet, every catalogue and every tree   *)
(* of units: the list behind a number has as many rows as the number says, *)
(* and what several pages count is counted alike.                          *)
(*                                                                         *)
(* The queries count rows, group by group or row by row, and the pages add *)
(* the groups up. SumOfGroups says that this counts every row once, and    *)
(* SumOfRows that a relation may be counted from either side; both rest on *)
(* SumIs, which characterises the sum of the community modules. What is    *)
(* left is to show of each pair of queries that they select the same rows. *)
(* That needs two facts about the tables: only a device with an agent has  *)
(* check-ins, a version and states (Reported), and what is open has an age *)
(* (OpenSince).                                                            *)
(***************************************************************************)
EXTENDS Figures, FiniteSetTheorems, WellFoundedInduction, SequenceTheorems, TLAPS

-----------------------------------------------------------------------------
(* Sums.                                                                    *)

\* The recursion SumFunctionOnSet goes through.
Sums(it, f, S) ==
  it = [s \in SUBSET S |-> IF s = {} THEN 0
                           ELSE f[CHOOSE x \in s : TRUE] + it[s \ {CHOOSE x \in s : TRUE}]]

\* Whatever satisfies the recursion is the sum: two such functions differ on no
\* smallest subset.
LEMMA SumIs ==
  ASSUME NEW f, NEW S, IsFiniteSet(S), NEW it, Sums(it, f, S)
  PROVE  SumFunctionOnSet(f, S) = it[S]
<1> DEFINE other == CHOOSE g : Sums(g, f, S)
           Differ == {s \in SUBSET S : other[s] # it[s]}
<1>1. Sums(other, f, S)
  OBVIOUS
<1>2. SumFunctionOnSet(f, S) = other[S]
  BY DEF SumFunctionOnSet, FoldFunctionOnSet, MapThenFoldSet, Sums
<1> HIDE DEF other
<1>3. Differ = {}
  <2>1. SUFFICES ASSUME Differ # {} PROVE FALSE
    OBVIOUS
  <2>2. /\ IsWellFoundedOn(StrictSubsetOrdering(S), FiniteSubsetsOf(S))
        /\ FiniteSubsetsOf(S) = SUBSET S
    BY FS_StrictSubsetOrderingWellFounded, FS_FiniteSubsetsOfFinite
  <2>3. PICK s \in Differ : \A t \in Differ : <<t, s>> \notin StrictSubsetOrdering(S)
    <3>1. Differ \subseteq FiniteSubsetsOf(S)
      BY <2>2
    <3> HIDE DEF Differ
    <3>2. QED BY <2>1, <2>2, <3>1, WFMin
  <2> DEFINE x == CHOOSE y \in s : TRUE
             t == s \ {x}
  <2>4. s \in SUBSET S /\ other[s] # it[s]
    OBVIOUS
  <2>5. CASE s = {}
    BY <1>1, <2>4, <2>5 DEF Sums
  <2>6. CASE s # {}
    <3>1. x \in s
      BY <2>6
    <3>2. t \in SUBSET S /\ t \subseteq s /\ t # s
      BY <2>4, <3>1
    <3>3. other[s] = f[x] + other[t] /\ it[s] = f[x] + it[t]
      BY <1>1, <2>4, <2>6 DEF Sums
    <3>4. other[t] # it[t]
      BY <2>4, <3>3
    <3>5. <<t, s>> \in StrictSubsetOrdering(S)
      BY <2>4, <3>2 DEF StrictSubsetOrdering
    <3>6. QED BY <2>3, <3>2, <3>4, <3>5
  <2>7. QED BY <2>5, <2>6
<1>4. QED BY <1>2, <1>3

\* GROUP BY: what is counted group by group is counted once.
LEMMA SumOfGroups ==
  ASSUME NEW S, IsFiniteSet(S), NEW K, IsFiniteSet(K), NEW g
  PROVE  SumFunction([k \in K |-> Cardinality({x \in S : g[x] = k})])
           = Cardinality({x \in S : g[x] \in K})
<1> DEFINE f == [k \in K |-> Cardinality({x \in S : g[x] = k})]
           it == [s \in SUBSET K |-> Cardinality({x \in S : g[x] \in s})]
<1>1. Sums(it, f, K)
  <2>1. ASSUME NEW s \in SUBSET K
        PROVE  it[s] = IF s = {} THEN 0
                       ELSE f[CHOOSE x \in s : TRUE] + it[s \ {CHOOSE x \in s : TRUE}]
    <3>1. CASE s = {}
      <4>1. {x \in S : g[x] \in s} = {}
        BY <3>1
      <4>2. QED BY <3>1, <4>1, FS_EmptySet
    <3>2. CASE s # {}
      <4> DEFINE k == CHOOSE x \in s : TRUE
                 A == {x \in S : g[x] = k}
                 B == {x \in S : g[x] \in s \ {k}}
      <4>1. k \in s /\ k \in K
        BY <3>2
      <4>2. IsFiniteSet(A) /\ IsFiniteSet(B)
        BY FS_Subset
      <4>3. A \cap B = {} /\ A \cup B = {x \in S : g[x] \in s}
        BY <4>1
      <4>4. Cardinality(A \cup B) = Cardinality(A) + Cardinality(B)
        <5> HIDE DEF A, B
        <5>1. Cardinality(A \cup B) = Cardinality(A) + Cardinality(B) - Cardinality(A \cap B)
          BY <4>2, FS_Union
        <5>2. Cardinality(A \cap B) = 0
          BY <4>3, FS_EmptySet
        <5>3. Cardinality(A) \in Nat /\ Cardinality(B) \in Nat
          BY <4>2, FS_CardinalityType
        <5>4. QED BY <5>1, <5>2, <5>3
      <4>5. f[k] = Cardinality(A) /\ it[s \ {k}] = Cardinality(B)
        BY <4>1
      <4>6. it[s] = Cardinality(A \cup B)
        BY <4>3
      <4>7. QED BY <3>2, <4>4, <4>5, <4>6
    <3>3. QED BY <3>1, <3>2
  <2>2. QED BY <2>1 DEF Sums
<1>2. SumFunctionOnSet(f, K) = it[K]
  <2> HIDE DEF f, it
  <2>1. QED BY <1>1, SumIs
<1>3. SumFunction(f) = SumFunctionOnSet(f, K)
  BY DEF SumFunction
<1>4. QED BY <1>2, <1>3

\* The pairs of a relation, counted by the first and by the second of each.
LEMMA SumOfRows ==
  ASSUME NEW D, IsFiniteSet(D), NEW U, IsFiniteSet(U), NEW R \in SUBSET (D \X U)
  PROVE  /\ SumFunction([d \in D |-> Cardinality({u \in U : <<d, u>> \in R})]) = Cardinality(R)
         /\ SumFunction([u \in U |-> Cardinality({d \in D : <<d, u>> \in R})]) = Cardinality(R)
<1>1. IsFiniteSet(R)
  BY FS_Product, FS_Subset
<1>2. ASSUME NEW d \in D
      PROVE  Cardinality({u \in U : <<d, u>> \in R})
               = Cardinality({p \in R : [q \in R |-> q[1]][p] = d})
  <2> DEFINE A == {u \in U : <<d, u>> \in R}
             B == {p \in R : [q \in R |-> q[1]][p] = d}
             h == [u \in A |-> <<d, u>>]
  <2>1. h \in Bijection(A, B)
    <3>1. h \in [A -> B]
      OBVIOUS
    <3>2. \A u, v \in A : h[u] = h[v] => u = v
      OBVIOUS
    <3>3. \A p \in B : \E u \in A : h[u] = p
      OBVIOUS
    <3> HIDE DEF A, B, h
    <3>4. QED BY <3>1, <3>2, <3>3 DEF Bijection, Injection, Surjection, IsInjective
  <2>2. IsFiniteSet(A)
    BY FS_Subset
  <2>3. QED BY <2>1, <2>2, FS_Bijection DEF ExistsBijection
<1>3. ASSUME NEW u \in U
      PROVE  Cardinality({d \in D : <<d, u>> \in R})
               = Cardinality({p \in R : [q \in R |-> q[2]][p] = u})
  <2> DEFINE A == {d \in D : <<d, u>> \in R}
             B == {p \in R : [q \in R |-> q[2]][p] = u}
             h == [d \in A |-> <<d, u>>]
  <2>1. h \in Bijection(A, B)
    <3>1. h \in [A -> B]
      OBVIOUS
    <3>2. \A d, e \in A : h[d] = h[e] => d = e
      OBVIOUS
    <3>3. \A p \in B : \E d \in A : h[d] = p
      OBVIOUS
    <3> HIDE DEF A, B, h
    <3>4. QED BY <3>1, <3>2, <3>3 DEF Bijection, Injection, Surjection, IsInjective
  <2>2. IsFiniteSet(A)
    BY FS_Subset
  <2>3. QED BY <2>1, <2>2, FS_Bijection DEF ExistsBijection
<1>4. /\ {p \in R : [q \in R |-> q[1]][p] \in D} = R
      /\ {p \in R : [q \in R |-> q[2]][p] \in U} = R
  OBVIOUS
<1>5. /\ SumFunction([d \in D |-> Cardinality({p \in R : [q \in R |-> q[1]][p] = d})])
           = Cardinality({p \in R : [q \in R |-> q[1]][p] \in D})
      /\ SumFunction([u \in U |-> Cardinality({p \in R : [q \in R |-> q[2]][p] = u})])
           = Cardinality({p \in R : [q \in R |-> q[2]][p] \in U})
  <2> DEFINE first == [q \in R |-> q[1]]
             second == [q \in R |-> q[2]]
  <2> HIDE DEF first, second
  <2>1. /\ SumFunction([d \in D |-> Cardinality({p \in R : first[p] = d})])
             = Cardinality({p \in R : first[p] \in D})
        /\ SumFunction([u \in U |-> Cardinality({p \in R : second[p] = u})])
             = Cardinality({p \in R : second[p] \in U})
    BY <1>1, SumOfGroups
  <2>2. QED BY <2>1 DEF first, second
<1>6. /\ [d \in D |-> Cardinality({u \in U : <<d, u>> \in R})]
           = [d \in D |-> Cardinality({p \in R : [q \in R |-> q[1]][p] = d})]
      /\ [u \in U |-> Cardinality({d \in D : <<d, u>> \in R})]
           = [u \in U |-> Cardinality({p \in R : [q \in R |-> q[2]][p] = u})]
  BY <1>2, <1>3
<1>7. QED BY <1>4, <1>5, <1>6

\* A set of ages that is not empty has a greatest one.
LEMMA OldestIs ==
  ASSUME NEW T \in SUBSET Ages, T # {}
  PROVE  Max(T) \in T /\ \A t \in T : Max(T) >= t
<1> DEFINE left == {MaxAge - t : t \in T}
<1>1. MaxAge \in Nat
  BY FiguresAssumption
<1>2. left \subseteq Nat /\ left # {}
  <2>1. \A t \in T : MaxAge - t \in Nat
    BY <1>1 DEF Ages
  <2>2. QED BY <2>1
<1>3. PICK n \in left : \A m \in left : <<m, n>> \notin OpToRel(<, Nat)
  <2> HIDE DEF left
  <2>1. QED BY <1>2, NatLessThanWellFounded, WFMin
<1>4. PICK x \in T : n = MaxAge - x
  OBVIOUS
<1>5. \A t \in T : x >= t
  <2>1. ASSUME NEW t \in T PROVE x >= t
    <3>1. <<MaxAge - t, n>> \notin OpToRel(<, Nat) /\ MaxAge - t \in Nat /\ n \in Nat
      BY <1>2, <1>3
    <3>2. ~(MaxAge - t < n)
      BY <3>1 DEF OpToRel
    <3>3. QED BY <1>1, <1>4, <3>2 DEF Ages
  <2>2. QED BY <2>1
<1>6. QED BY <1>5 DEF Max

-----------------------------------------------------------------------------
(* The invariant.                                                           *)

\* Only a device with an agent has check-ins, a version and states of updates.
Reported ==
  \A d \in Devices :
    \/ device[d].report # Null \/ device[d].version # Null
    \/ \E u \in Updates : held[d][u].state # "none"
    => device[d].enrolled

\* What is open has first_available_at.
OpenSince == \A d \in Devices, u \in Updates : held[d][u].state = "available" => held[d][u].age \in Ages

IInv == TypeOK /\ Reported /\ OpenSince

DeviceRows ==
  [status: {"absent", "active", "archived"}, enrolled: BOOLEAN, seen: Ages \cup {Null},
   report: Reports \cup {Null}, version: STRING \cup {Null}, user: STRING \cup {Null},
   ou: Seq(STRING) \cup {Null}]
StateRows == [state: {"none", "available"} \cup Endings, age: Ages \cup {Null}]

LEMMA Constants ==
  /\ MaxAge \in Nat /\ MaxAge > 0 /\ 0 \in Ages /\ Null \notin Ages
  /\ StaleDays \in Nat /\ StaleDays # Null
  /\ "available" \notin Endings /\ "none" \notin Endings
  /\ IsFiniteSet(Devices) /\ IsFiniteSet(Updates) /\ Security \subseteq Updates
<1>1. MaxAge \in Nat /\ StaleDays \in 0 .. (MaxAge - 1)
  BY FiguresAssumption
<1>2. MaxAge > 0 /\ 0 \in Ages /\ StaleDays \in Nat
  BY <1>1 DEF Ages
<1>3. Null \notin Ages /\ StaleDays # Null
  BY <1>1, <1>2, NullAssumption DEF Ages
<1>4. QED BY <1>1, <1>2, <1>3, FiguresAssumption

LEMMA OlderTyped == ASSUME NEW a \in Ages \cup {Null}
                    PROVE  Older(a) \in Ages \cup {Null} /\ (a \in Ages => Older(a) \in Ages)
BY Constants DEF Older, Ages

\* A device whose row changes, and perhaps its states, the others being left alone.
LEMMA OneDevice ==
  ASSUME IInv, NEW d \in Devices, NEW row \in DeviceRows, NEW states \in [Updates -> StateRows],
         device' = [device EXCEPT ![d] = row], held' = [held EXCEPT ![d] = states],
         \/ row.report # Null \/ row.version # Null
         \/ \E u \in Updates : states[u].state # "none"
         => row.enrolled,
         \A u \in Updates : states[u].state = "available" => states[u].age \in Ages
  PROVE  IInv'
<1>1. /\ device'[d] = row /\ held'[d] = states
      /\ \A e \in Devices \ {d} : device'[e] = device[e] /\ held'[e] = held[e]
  BY DEF IInv, TypeOK
<1>2. TypeOK'
  BY DEF IInv, TypeOK, DeviceRows, StateRows
<1>3. Reported' /\ OpenSince'
  BY <1>1 DEF IInv, Reported, OpenSince
<1>4. QED BY <1>2, <1>3 DEF IInv

LEMMA RowOf == ASSUME TypeOK, NEW d \in Devices
               PROVE  device[d] \in DeviceRows /\ held[d] \in [Updates -> StateRows]
BY DEF TypeOK, DeviceRows, StateRows

LEMMA IInvInit == Init => IInv
BY Constants DEF Init, IInv, TypeOK, Reported, OpenSince, Absent, NotHeld

LEMMA IInvStep == IInv /\ [Next]_vars => IInv'
<1> SUFFICES ASSUME IInv, [Next]_vars PROVE IInv'
  OBVIOUS
<1>0. TypeOK
  BY DEF IInv
<1>same. ASSUME NEW d \in Devices PROVE held = [held EXCEPT ![d] = held[d]]
  BY <1>0 DEF TypeOK
<1>1. ASSUME NEW d \in Devices, NEW row \in DeviceRows, device' = [device EXCEPT ![d] = row],
             UNCHANGED held, row.report = device[d].report, device[d].enrolled => row.enrolled,
             row.version = device[d].version \/ row.enrolled
      PROVE  IInv'
  <2>1. /\ held' = [held EXCEPT ![d] = held[d]] /\ held[d] \in [Updates -> StateRows]
    BY <1>0, <1>1, <1>same, RowOf
  <2>2. /\ \/ row.report # Null \/ row.version # Null
           \/ \E u \in Updates : held[d][u].state # "none"
           => row.enrolled
        /\ \A u \in Updates : held[d][u].state = "available" => held[d][u].age \in Ages
    BY <1>1 DEF IInv, Reported, OpenSince
  <2>3. QED BY <1>1, <2>1, <2>2, OneDevice
<1>2. ASSUME NEW d \in Devices, Known(d) PROVE IInv'
  <2> DEFINE row == [device[d] EXCEPT !.status = "active", !.ou = Home[d]]
  <2>1. row \in DeviceRows
    BY <1>0, RowOf, FiguresAssumption DEF DeviceRows
  <2>2. device' = [device EXCEPT ![d] = row] /\ UNCHANGED held
    BY <1>0, <1>2 DEF Known, TypeOK
  <2>3. /\ row.report = device[d].report /\ row.version = device[d].version
        /\ row.enrolled = device[d].enrolled
    BY <1>0, RowOf DEF DeviceRows
  <2> HIDE DEF row
  <2>4. QED BY <1>1, <2>1, <2>2, <2>3
<1>3. ASSUME NEW d \in Devices, Enrol(d) PROVE IInv'
  <2> DEFINE row == [device[d] EXCEPT !.status = "active", !.enrolled = TRUE]
  <2>1. row \in DeviceRows
    BY <1>0, RowOf DEF DeviceRows
  <2>2. device' = [device EXCEPT ![d] = row] /\ UNCHANGED held
    BY <1>0, <1>3 DEF Enrol, TypeOK
  <2>3. row.report = device[d].report /\ row.enrolled
    BY <1>0, RowOf DEF DeviceRows
  <2> HIDE DEF row
  <2>4. QED BY <1>1, <2>1, <2>2, <2>3
<1>4. ASSUME NEW d \in Devices, NEW to \in {"active", "archived"}, SetArchived(d, to) PROVE IInv'
  <2> DEFINE row == [device[d] EXCEPT !.status = to]
  <2>1. row \in DeviceRows
    BY <1>0, RowOf DEF DeviceRows
  <2>2. device' = [device EXCEPT ![d] = row] /\ UNCHANGED held
    BY <1>0, <1>4 DEF SetArchived, TypeOK
  <2>3. /\ row.report = device[d].report /\ row.version = device[d].version
        /\ row.enrolled = device[d].enrolled
    BY <1>0, RowOf DEF DeviceRows
  <2> HIDE DEF row
  <2>4. QED BY <1>1, <2>1, <2>2, <2>3
<1>11. ASSUME NEW d \in Devices, NEW v \in Versions, AgentUpdated(d, v) PROVE IInv'
  <2> DEFINE row == [device[d] EXCEPT !.version = v]
  <2>1. row \in DeviceRows
    BY <1>0, RowOf, FiguresAssumption DEF DeviceRows
  <2>2. device' = [device EXCEPT ![d] = row] /\ UNCHANGED held
    BY <1>0, <1>11 DEF AgentUpdated, TypeOK
  <2>3. row.report = device[d].report /\ row.enrolled = device[d].enrolled /\ row.enrolled
    BY <1>0, <1>11, RowOf DEF DeviceRows, AgentUpdated
  <2> HIDE DEF row
  <2>4. QED BY <1>1, <2>1, <2>2, <2>3
<1>5. ASSUME NEW d \in Devices, Delete(d) PROVE IInv'
  <2>1. Absent \in DeviceRows /\ [u \in Updates |-> NotHeld] \in [Updates -> StateRows]
    BY DEF Absent, NotHeld, DeviceRows, StateRows
  <2>2. /\ Absent.report = Null /\ Absent.version = Null
        /\ \A u \in Updates : [v \in Updates |-> NotHeld][u].state = "none"
    BY DEF Absent, NotHeld
  <2> DEFINE states == [u \in Updates |-> NotHeld]
  <2>3. device' = [device EXCEPT ![d] = Absent] /\ held' = [held EXCEPT ![d] = states]
    BY <1>5 DEF Delete
  <2> HIDE DEF states
  <2>4. \A u \in Updates : states[u].state # "available" /\ ~(states[u].state # "none")
    BY <2>2 DEF states
  <2>5. states \in [Updates -> StateRows]
    BY <2>1 DEF states
  <2>6. QED BY <2>1, <2>2, <2>3, <2>4, <2>5, OneDevice
<1>6. ASSUME NEW d \in Devices, NEW r \in Reports, NEW open \in SUBSET Updates, CheckIn(d, r, open)
      PROVE  IInv'
  <2>1. PICK left \in Endings :
          held' = [held EXCEPT ![d] = [u \in Updates |->
                     CASE u \in open /\ held[d][u].state = "available" -> held[d][u]
                       [] u \in open /\ held[d][u].state # "available" -> [state |-> "available", age |-> 0]
                       [] u \notin open /\ held[d][u].state = "available" -> [state |-> left, age |-> Null]
                       [] OTHER -> held[d][u]]]
    BY <1>6 DEF CheckIn
  <2> DEFINE row == [device[d] EXCEPT !.seen = 0, !.report = r, !.version = r.version, !.user = r.user]
             states == [u \in Updates |->
                     CASE u \in open /\ held[d][u].state = "available" -> held[d][u]
                       [] u \in open /\ held[d][u].state # "available" -> [state |-> "available", age |-> 0]
                       [] u \notin open /\ held[d][u].state = "available" -> [state |-> left, age |-> Null]
                       [] OTHER -> held[d][u]]
  <2>2. row \in DeviceRows /\ row.enrolled = device[d].enrolled
    <3>1. r.version \in STRING /\ r.user \in STRING
      BY FiguresAssumption
    <3>2. QED BY <1>0, <3>1, RowOf, Constants DEF DeviceRows
  <2>3. device[d].enrolled /\ device' = [device EXCEPT ![d] = row]
    BY <1>0, <1>6 DEF CheckIn, TypeOK
  <2>4. \A u \in Updates : /\ states[u] \in StateRows
                           /\ states[u].state = "available" => states[u].age \in Ages
    BY <1>0, RowOf, Constants DEF StateRows, IInv, OpenSince
  <2>5. states \in [Updates -> StateRows] /\ held' = [held EXCEPT ![d] = states]
    BY <2>1, <2>4
  <2> HIDE DEF row, states
  <2>6. QED BY <2>2, <2>3, <2>4, <2>5, OneDevice
<1>7. ASSUME Retention PROVE IInv'
  <2>1. \A d \in Devices : /\ device'[d] \in DeviceRows /\ device'[d].enrolled = device[d].enrolled
                           /\ device'[d].report \in {device[d].report, Null}
                           /\ device'[d].version = device[d].version
    BY <1>0, <1>7, RowOf DEF Retention, DeviceRows
  <2>2. device' \in [Devices -> DeviceRows] /\ UNCHANGED held
    BY <1>7, <2>1 DEF Retention
  <2>3. TypeOK'
    BY <1>0, <2>2 DEF TypeOK, DeviceRows
  <2>4. QED BY <2>1, <2>2, <2>3 DEF IInv, Reported, OpenSince
<1>8. ASSUME Day PROVE IInv'
  <2>1. \A d \in Devices : /\ device'[d] \in DeviceRows /\ device'[d].enrolled = device[d].enrolled
                           /\ device'[d].report = device[d].report
                           /\ device'[d].version = device[d].version
    BY <1>0, <1>8, RowOf, OlderTyped DEF Day, DeviceRows
  <2>2. \A d \in Devices, u \in Updates :
          /\ held'[d][u] \in StateRows /\ held'[d][u].state = held[d][u].state
          /\ held[d][u].age \in Ages => held'[d][u].age \in Ages
    <3> SUFFICES ASSUME NEW d \in Devices, NEW u \in Updates
                 PROVE  /\ held'[d][u] \in StateRows /\ held'[d][u].state = held[d][u].state
                        /\ held[d][u].age \in Ages => held'[d][u].age \in Ages
      OBVIOUS
    <3>1. held[d][u] \in StateRows
      BY <1>0, RowOf
    <3>2. held'[d][u] = [held[d][u] EXCEPT !.age = Older(@)]
      BY <1>8 DEF Day
    <3>3. Older(held[d][u].age) \in Ages \cup {Null}
          /\ (held[d][u].age \in Ages => Older(held[d][u].age) \in Ages)
      BY <3>1, OlderTyped DEF StateRows
    <3>4. QED BY <3>1, <3>2, <3>3 DEF StateRows
  <2>3. device' \in [Devices -> DeviceRows] /\ held' \in [Devices -> [Updates -> StateRows]]
    BY <1>8, <2>1, <2>2 DEF Day
  <2>4. TypeOK'
    BY <2>3 DEF TypeOK, DeviceRows, StateRows
  <2>5. QED BY <2>1, <2>2, <2>4 DEF IInv, Reported, OpenSince
<1>9. CASE UNCHANGED vars
  BY <1>9 DEF vars, IInv, TypeOK, Reported, OpenSince
<1>10. QED BY <1>2, <1>3, <1>4, <1>5, <1>6, <1>7, <1>8, <1>9, <1>11 DEF Next

LEMMA Invariant == Spec => []IInv
BY IInvInit, IInvStep, PTL DEF Spec

\* Devices and states keep their types.
THEOREM TypeCorrect == Spec => []TypeOK
<1>1. IInv => TypeOK
  BY DEF IInv
<1>2. QED BY <1>1, Invariant, PTL

-----------------------------------------------------------------------------
(* Numbers and lists.                                                       *)

LEMMA Names == "active" # Null /\ "archived" # Null /\ TRUE # Null /\ FALSE # Null
BY NullAssumption

LEMMA Finite ==
  ASSUME TypeOK
  PROVE  \A S : S \subseteq Devices \/ S \subseteq Updates => IsFiniteSet(S)
BY Constants, FS_Subset

\* The fields of a query, and a query that has one of them beside the status.
Asks(q, search, status, ou, agentVersion, updateSource, staleDays, pendingReboot, hasOpenSecurity, hasAgent) ==
  /\ q.search = search /\ q.status = status /\ q.ou = ou
  /\ q.agentVersion = agentVersion /\ q.updateSource = updateSource /\ q.staleDays = staleDays
  /\ q.pendingReboot = pendingReboot /\ q.hasOpenSecurity = hasOpenSecurity /\ q.hasAgent = hasAgent

\* What the links of the dashboard ask for.
LEMMA Opening ==
  LET Q(page) == FilterParams(page) IN
  /\ Asks(Q(Opened), Null, "active", Null, Null, Null, Null, Null, FALSE, Null)
  /\ Asks(Q([Opened EXCEPT !.hasOpenSecurity = TRUE]), Null, "active", Null, Null, Null, Null, Null, TRUE, Null)
  /\ Asks(Q([Opened EXCEPT !.staleDays = StaleDays]), Null, "active", Null, Null, Null, StaleDays, Null, FALSE, Null)
  /\ Asks(Q([Opened EXCEPT !.hasAgent = FALSE]), Null, "active", Null, Null, Null, Null, Null, FALSE, FALSE)
  /\ Asks(Q([Opened EXCEPT !.pendingReboot = TRUE]), Null, "active", Null, Null, Null, Null, TRUE, FALSE, Null)
  /\ \A s : Asks(Q([Opened EXCEPT !.updateSource = s]), Null, "active", Null, Null, s, Null, Null, FALSE, Null)
  /\ \A v : Asks(Q([Opened EXCEPT !.agentVersion = v]), Null, "active", Null, v, Null, Null, Null, FALSE, Null)
BY DEF Opened, FilterParams, Asks

\* The parts of Shown; what the other pieces of the rings link to.
LEMMA ShownParts ==
  ASSUME NEW t \in Shown
  PROVE  \/ t \in {[value |-> Summary.devicesActive, link |-> Opened],
                   [value |-> Summary.staleAgents, link |-> [Opened EXCEPT !.staleDays = StaleDays]],
                   [value |-> Summary.devicesWithoutAgent, link |-> [Opened EXCEPT !.hasAgent = FALSE]],
                   [value |-> Summary.devicesPendingReboot, link |-> [Opened EXCEPT !.pendingReboot = TRUE]]}
         \/ t = CriticalHint
         \/ t \in VersionRing
         \/ \E s \in Sources \ {"unknown"} :
              t = [value |-> Distribution[s], link |-> [Opened EXCEPT !.updateSource = s]]
<1>1. CASE t \in Tiles \ {CriticalTile}
  BY <1>1 DEF Tiles
<1>2. CASE t = CriticalHint \/ t \in VersionRing
  BY <1>2
<1>3. CASE t \in SourceRing /\ t.link.updateSource # "unknown"
  <2>1. PICK s \in Sources : t = [value |-> Distribution[s], link |-> [Opened EXCEPT !.updateSource = s]]
    BY <1>3 DEF SourceRing
  <2>2. t.link.updateSource = s
    BY <2>1 DEF Opened
  <2>3. QED BY <1>3, <2>1, <2>2
<1>4. CASE t \in Coverage /\ t.link.hasAgent # TRUE
  <2>1. [Opened EXCEPT !.hasAgent = TRUE].hasAgent = TRUE
    BY DEF Opened
  <2>2. t \in {[value |-> Summary.staleAgents, link |-> [Opened EXCEPT !.staleDays = StaleDays]],
              [value |-> Summary.devicesWithoutAgent, link |-> [Opened EXCEPT !.hasAgent = FALSE]]}
    <3>1. CASE t = [value |-> Summary.devicesEnrolled - Summary.staleAgents,
                    link |-> [Opened EXCEPT !.hasAgent = TRUE]]
      <4>1. t.link = [Opened EXCEPT !.hasAgent = TRUE]
        BY <3>1
      <4>2. QED BY <1>4, <2>1, <4>1
    <3>2. QED BY <1>4, <3>1 DEF Coverage
  <2>3. QED BY <2>2
<1>5. QED BY <1>1, <1>2, <1>3, <1>4 DEF Shown

\* The lists behind the links.
LEMMA TilesHold == IInv => TilesMatch
<1> SUFFICES ASSUME IInv PROVE TilesMatch
  OBVIOUS
<1> DEFINE Behind(page) == List(FilterParams(page), Null)
<1>0. TypeOK
  BY DEF IInv
<1>1. /\ Fleet = {d \in Rows : device[d].status = "active"}
      /\ \A d \in Rows : d \in Devices /\ device[d].enrolled \in BOOLEAN
  BY <1>0 DEF Fleet, Active, Rows, TypeOK
<1>2. Behind(Opened) = Fleet
  BY <1>1, Opening, Names DEF Asks, List, BuildWhere
<1>3. Behind([Opened EXCEPT !.hasOpenSecurity = TRUE]) = WithOpenSecurity
  BY <1>1, Opening, Names DEF Asks, List, BuildWhere, WithOpenSecurity
<1>4. Behind([Opened EXCEPT !.staleDays = StaleDays]) = Silent
  BY <1>1, Opening, Names, Constants DEF Asks, List, BuildWhere, Silent, Agents, Stale
<1>5. Behind([Opened EXCEPT !.hasAgent = FALSE]) = Fleet \ Agents
  BY <1>1, Opening, Names DEF Asks, List, BuildWhere, Agents
<1>6. Behind([Opened EXCEPT !.pendingReboot = TRUE]) = {d \in Fleet : PendingReboot(d)}
  <2>1. \A d \in Rows : PendingReboot(d) \in BOOLEAN
    BY <1>0, <1>1, FiguresAssumption DEF PendingReboot, TypeOK
  <2>2. QED BY <1>1, <2>1, Opening, Names DEF Asks, List, BuildWhere
<1>7. ASSUME NEW s \in Sources, s # "unknown"
      PROVE  Behind([Opened EXCEPT !.updateSource = s]) = {d \in Agents : Source(d) = s}
  <2>1. s # Null
    BY <1>7, FiguresAssumption, NullAssumption DEF Sources
  <2>2. \A d \in Rows : device[d].report # Null => device[d].enrolled
    BY <1>1 DEF IInv, Reported
  <2> DEFINE q == FilterParams([Opened EXCEPT !.updateSource = s])
  <2>3. Asks(q, Null, "active", Null, Null, s, Null, Null, FALSE, Null)
    BY Opening
  <2> HIDE DEF q
  <2>4. \A d \in Rows : BuildWhere(d, q, Null)
                         <=> /\ device[d].status = "active"
                             /\ device[d].report # Null /\ device[d].report.source = s
    BY <2>1, <2>3, Names DEF Asks, BuildWhere
  <2>5. QED BY <1>1, <1>7, <2>2, <2>4 DEF q, List, Agents, Source
<1>8. ASSUME NEW v, v # Null
      PROVE  Behind([Opened EXCEPT !.agentVersion = v]) = {d \in Agents : device[d].version = v}
  <2>1. \A d \in Rows : device[d].version # Null => device[d].enrolled
    BY <1>1 DEF IInv, Reported
  <2> DEFINE q == FilterParams([Opened EXCEPT !.agentVersion = v])
  <2>2. Asks(q, Null, "active", Null, v, Null, Null, Null, FALSE, Null)
    BY Opening
  <2> HIDE DEF q
  <2>3. \A d \in Rows : BuildWhere(d, q, Null) <=> device[d].status = "active" /\ device[d].version = v
    BY <1>8, <2>2, Names DEF Asks, BuildWhere
  <2>4. QED BY <1>1, <1>8, <2>1, <2>3 DEF q, List, Agents
<1>9. ASSUME NEW t \in Shown PROVE t.value = Total(t.link)
  <2>1. CASE t = [value |-> Summary.devicesActive, link |-> Opened]
    BY <1>2, <2>1 DEF Summary, Total
  <2>2. CASE t = [value |-> Summary.staleAgents, link |-> [Opened EXCEPT !.staleDays = StaleDays]]
    BY <1>4, <2>2 DEF Summary, Total
  <2>3. CASE t = [value |-> Summary.devicesWithoutAgent, link |-> [Opened EXCEPT !.hasAgent = FALSE]]
    BY <1>5, <2>3 DEF Summary, Total
  <2>4. CASE t = [value |-> Summary.devicesPendingReboot, link |-> [Opened EXCEPT !.pendingReboot = TRUE]]
    BY <1>6, <2>4 DEF Summary, Total
  <2>5. CASE t = CriticalHint
    BY <1>3, <2>5 DEF CriticalHint, Summary, Total
  <2>6. CASE t \in VersionRing
    <3>1. PICK v \in DOMAIN AgentVersions \ {Null} :
            t = [value |-> AgentVersions[v], link |-> [Opened EXCEPT !.agentVersion = v]]
      BY <2>6 DEF VersionRing
    <3>2. AgentVersions[v] = Cardinality({d \in Agents : device[d].version = v})
      BY DEF AgentVersions
    <3>3. QED BY <1>8, <3>1, <3>2 DEF Total
  <2>7. CASE \E s \in Sources \ {"unknown"} :
               t = [value |-> Distribution[s], link |-> [Opened EXCEPT !.updateSource = s]]
    BY <1>7, <2>7 DEF Distribution, Total
  <2>8. QED BY <2>1, <2>2, <2>3, <2>4, <2>5, <2>6, <2>7, ShownParts
<1>10. CriticalTile.value <= Total(CriticalTile.link)
  <2>1. {d \in Fleet : Critical(d)} \subseteq WithOpenSecurity
    BY DEF Critical, WithOpenSecurity
  <2>2. IsFiniteSet(WithOpenSecurity)
    BY <1>0, <1>1, Finite DEF WithOpenSecurity
  <2>3. Cardinality({d \in Fleet : Critical(d)}) <= Cardinality(WithOpenSecurity)
    BY <2>1, <2>2, FS_Subset
  <2>4. /\ CriticalTile.value = Cardinality({d \in Fleet : Critical(d)})
        /\ Total(CriticalTile.link) = Cardinality(WithOpenSecurity)
    BY <1>3 DEF CriticalTile, Summary, Total
  <2>5. QED BY <2>3, <2>4
<1>11. QED BY <1>9, <1>10 DEF TilesMatch

\* What ExportCsv writes of rows that it could all write is all of them.
LEMMA ExportHolds == IInv => ExportsMatch
<1> SUFFICES ASSUME IInv, NEW p \in Pages
             PROVE  /\ IsExport(Export(p), List(FilterParams(p), Null))
                    /\ IsExport(ExportSelected(p), List(FilterParams(p), Null))
  BY DEF ExportsMatch
<1> DEFINE rows == List(FilterParams(p), Null)
<1>1. /\ rows \subseteq Rows /\ IsFiniteSet(rows) /\ ExportLimit \in Nat
  BY Finite, FiguresAssumption DEF IInv, List, Rows
<1>2. List(DeviceQueryDto, rows) = rows
  <2>1. Asks(DeviceQueryDto, Null, Null, Null, Null, Null, Null, Null, FALSE, Null)
    BY DEF DeviceQueryDto, FilterParams, Opened, Asks
  <2>2. rows # Null
    BY <1>1, NullAssumption DEF Rows
  <2> HIDE DEF rows
  <2>3. \A d \in Rows : BuildWhere(d, DeviceQueryDto, rows) <=> d \in rows
    BY <2>1, <2>2 DEF Asks, BuildWhere
  <2>4. QED BY <1>1, <2>3 DEF List
<1>3. ASSUME NEW q, NEW ids, List(q, ids) = rows PROVE IsExport(ExportCsv(q, ids), rows)
  <2> HIDE DEF rows
  <2>1. Cardinality(rows) \in Nat
    BY <1>1, FS_CardinalityType
  <2>2. QED BY <1>1, <1>3, <2>1 DEF ExportCsv, IsExport
<1>4. QED BY <1>2, <1>3 DEF Export, ExportSelected

\* A node of the tree has the devices in the units below it, each unit counted once.
LEMMA NodeHolds ==
  ASSUME IInv, NEW s, NEW n \in Tree(s), NEW q,
         Asks(q, Null, s, n.dn, Null, Null, Null, Null, FALSE, Null)
  PROVE  n.total = Cardinality(List(q, Null))
<1> DEFINE units == OrganizationalUnits(s)
           below == {y \in units : IsSuffix(n.dn, y.dn)}
           Unit(d) == [dn |-> device[d].ou,
                       devices |-> Cardinality({e \in Grouped(s) : device[e].ou = device[d].ou})]
           g == [d \in Grouped(s) |-> Unit(d)]
<1>0. TypeOK
  BY DEF IInv
<1>1. /\ n.dn \in UNION {{SubSeq(x.dn, i, Len(x.dn)) : i \in 1..Len(x.dn)} : x \in units}
      /\ n.total = SumFunction([x \in below |-> x.devices])
  <2>1. PICK m \in UNION {{SubSeq(x.dn, i, Len(x.dn)) : i \in 1..Len(x.dn)} : x \in units} :
          n = [dn |-> m, total |-> SumFunction([x \in {y \in units : IsSuffix(m, y.dn)} |-> x.devices])]
    BY DEF Tree
  <2>2. QED BY <2>1
<1>2. Grouped(s) \subseteq Devices /\ IsFiniteSet(Grouped(s))
  BY <1>0, Finite DEF Grouped, Rows
<1>3. units = {Unit(d) : d \in Grouped(s)}
  BY DEF OrganizationalUnits
<1>4. n.dn \in Seq(STRING)
  <2>1. PICK x \in units : \E i \in 1..Len(x.dn) : n.dn = SubSeq(x.dn, i, Len(x.dn))
    BY <1>1
  <2>2. x.dn \in Seq(STRING)
    <3>1. PICK d \in Grouped(s) : x = Unit(d)
      BY <1>3
    <3>2. device[d].ou \in Seq(STRING)
      BY <1>0, <1>2 DEF Grouped, TypeOK
    <3>3. QED BY <3>1, <3>2
  <2>3. PICK i \in 1..Len(x.dn) : n.dn = SubSeq(x.dn, i, Len(x.dn))
    BY <2>1
  <2>4. Len(x.dn) \in Int /\ i \in Int /\ \A j \in i..Len(x.dn) : x.dn[j] \in STRING
    BY <2>2
  <2>5. QED BY <2>3, <2>4, SubSeqProperties
<1>5. n.dn # Null
  BY <1>4, NullAssumption
<1>6. IsFiniteSet(below)
  <2>1. g \in Surjection(Grouped(s), units)
    BY <1>3 DEF Surjection
  <2>2. IsFiniteSet(units)
    BY <1>2, <2>1, FS_Surjection DEF ExistsSurjection
  <2>3. QED BY <2>2, FS_Subset
<1>7. [x \in below |-> x.devices] = [x \in below |-> Cardinality({d \in Grouped(s) : g[d] = x})]
  <2>1. ASSUME NEW x \in below PROVE x.devices = Cardinality({d \in Grouped(s) : g[d] = x})
    <3>1. PICK e \in Grouped(s) : x = Unit(e)
      BY <1>3
    <3>2. {d \in Grouped(s) : g[d] = x} = {d \in Grouped(s) : device[d].ou = device[e].ou}
      BY <3>1
    <3>3. QED BY <3>1, <3>2
  <2>2. QED BY <2>1
<1>8. SumFunction([x \in below |-> Cardinality({d \in Grouped(s) : g[d] = x})])
        = Cardinality({d \in Grouped(s) : g[d] \in below})
  <2> HIDE DEF g, below
  <2>1. QED BY <1>2, <1>6, SumOfGroups
<1>9. {d \in Grouped(s) : g[d] \in below} = {d \in Grouped(s) : IsSuffix(n.dn, device[d].ou)}
  BY <1>3
<1>10. List(q, Null) = {d \in Grouped(s) : IsSuffix(n.dn, device[d].ou)}
  BY <1>5 DEF Asks, List, BuildWhere, Within, Grouped
<1>11. QED BY <1>1, <1>7, <1>8, <1>9, <1>10

LEMMA TreeHolds == IInv => TreeMatches
<1> SUFFICES ASSUME IInv, NEW status \in {"active", "archived", "all"},
                    NEW n \in Tree(IF status = "all" THEN Null ELSE status)
             PROVE  n.total = Total(Clicked(status, n))
  BY DEF TreeMatches
<1> DEFINE s == IF status = "all" THEN Null ELSE status
           q == FilterParams(Clicked(status, n))
<1>1. Asks(q, Null, s, n.dn, Null, Null, Null, Null, FALSE, Null)
  BY DEF Clicked, Opened, FilterParams, Asks
<1>2. n \in Tree(s)
  OBVIOUS
<1> HIDE DEF s, q
<1>3. n.total = Cardinality(List(q, Null))
  BY <1>1, <1>2, NodeHolds
<1>4. QED BY <1>3 DEF q, Total

\* The numbers NumbersMatchLists names are the lengths of the lists behind them, and an export
\* has the rows of the list it is made of, up to the limit.
THEOREM NumbersMatch == Spec => []NumbersMatchLists
<1>1. IInv => NumbersMatchLists
  BY TilesHold, TreeHolds, ExportHolds DEF NumbersMatchLists
<1>2. QED BY <1>1, Invariant, PTL

-----------------------------------------------------------------------------
(* What is counted in several places.                                       *)

LEMMA OldestTyped ==
  ASSUME IInv, NEW d \in Devices
  PROVE  OldestOpen(d) = Null \/ OldestOpen(d) \in 0..MaxAge
<1>1. CASE OpenStates(d) = {}
  BY <1>1 DEF OldestOpen
<1>2. CASE OpenStates(d) # {}
  <2> DEFINE ages == {held[d][u].age : u \in OpenStates(d)}
  <2>1. ages \in SUBSET Ages /\ ages # {}
    BY <1>2 DEF IInv, OpenSince, OpenStates
  <2>2. OldestOpen(d) = Max(ages)
    BY <1>2 DEF OldestOpen
  <2>3. QED BY <2>1, <2>2, OldestIs DEF Ages
<1>3. QED BY <1>1, <1>2

\* Every agent is in one of the buckets, and in one only.
LEMMA BucketsHold == IInv => SumFunction(PatchAge) = Cardinality(Agents)
<1> SUFFICES ASSUME IInv PROVE SumFunction(PatchAge) = Cardinality(Agents)
  OBVIOUS
<1> DEFINE K == BucketEnds \cup {0, Null}
           g == [d \in Agents |-> IF OldestOpen(d) = Null THEN Null
                                  ELSE IF OldestOpen(d) = MaxAge THEN 0 ELSE OldestOpen(d) + 1]
<1>0. TypeOK /\ Agents \subseteq Devices /\ MaxAge \in Nat /\ MaxAge > 0
  BY Constants DEF IInv, Agents, Fleet, Rows
<1>1. IsFiniteSet(Agents)
  BY <1>0, Finite
<1>2. IsFiniteSet(K)
  <2>1. IsFiniteSet(1..MaxAge)
    BY <1>0, FS_Interval
  <2>2. K = ((1..MaxAge) \cup {0}) \cup {Null}
    BY DEF BucketEnds
  <2>3. QED BY <2>1, <2>2, FS_AddElement
<1>3. \A d \in Agents : OldestOpen(d) = Null \/ OldestOpen(d) \in 0..MaxAge
  BY <1>0, OldestTyped
<1>4. Null \notin 0..(MaxAge + 1)
  BY <1>0, NullAssumption
<1>5. ASSUME NEW d \in Agents, NEW b \in K
      PROVE  g[d] = b
               <=> IF b = Null THEN OldestOpen(d) = Null
                   ELSE /\ OldestOpen(d) # Null
                        /\ IF b = 0 THEN \A e \in BucketEnds : OldestOpen(d) >= e ELSE OldestOpen(d) = b - 1
  <2> DEFINE age == OldestOpen(d)
  <2>1. CASE age = Null
    BY <2>1
  <2>2. CASE age \in 0..MaxAge
    <3>1. age # Null /\ g[d] = IF age = MaxAge THEN 0 ELSE age + 1
      BY <1>0, <1>4, <2>2
    <3>2. g[d] \in 0..MaxAge
      BY <1>0, <2>2, <3>1
    <3> HIDE DEF age, g
    <3>3. CASE b = Null
      BY <1>0, <1>4, <3>1, <3>2, <3>3 DEF age
    <3>4. CASE b = 0
      <4>1. (\A e \in 1..MaxAge : age >= e) <=> age = MaxAge
        BY <1>0, <2>2
      <4>2. b # Null
        BY <1>0, <1>4, <3>4
      <4>3. (g[d] = 0) <=> age = MaxAge
        BY <1>0, <2>2, <3>1
      <4>4. QED BY <3>1, <3>4, <4>1, <4>2, <4>3 DEF age, BucketEnds
    <3>5. CASE b \in 1..MaxAge
      <4>1. b # Null /\ b # 0
        BY <1>0, <1>4, <3>5
      <4>2. (g[d] = b) <=> age = b - 1
        BY <1>0, <2>2, <3>1, <3>5
      <4>3. QED BY <3>1, <4>1, <4>2 DEF age
    <3>6. QED BY <3>3, <3>4, <3>5 DEF BucketEnds
  <2>3. QED BY <1>3, <2>1, <2>2
<1>6. PatchAge = [b \in K |-> Cardinality({d \in Agents : g[d] = b})]
  <2>1. ASSUME NEW b \in K
        PROVE  {d \in Agents : g[d] = b}
                 = {d \in Agents : LET age == OldestOpen(d) IN
                      IF b = Null THEN age = Null
                      ELSE age # Null /\ (IF b = 0 THEN \A e \in BucketEnds : age >= e ELSE age = b - 1)}
    BY <1>5
  <2>2. QED BY <2>1 DEF PatchAge
<1>7. {d \in Agents : g[d] \in K} = Agents
  BY <1>0, <1>3 DEF BucketEnds
<1>8. SumFunction([b \in K |-> Cardinality({d \in Agents : g[d] = b})])
        = Cardinality({d \in Agents : g[d] \in K})
  <2> HIDE DEF g, K
  <2>1. QED BY <1>1, <1>2, SumOfGroups
<1>9. QED BY <1>6, <1>7, <1>8

LEMMA SourcesHold == IInv => SumFunction(Distribution) = Cardinality(Agents)
<1> SUFFICES ASSUME IInv PROVE SumFunction(Distribution) = Cardinality(Agents)
  OBVIOUS
<1> DEFINE g == [d \in Agents |-> Source(d)]
<1>0. TypeOK /\ Agents \subseteq Devices
  BY DEF IInv, Agents, Fleet, Rows
<1>1. IsFiniteSet(Agents)
  BY <1>0, Finite
<1>2. \A d \in Agents : Source(d) \in Sources
  BY <1>0 DEF Source, Sources, TypeOK
<1>3. IsFiniteSet(Sources)
  <2> DEFINE named == {r.source : r \in Reports}
             h == [r \in Reports |-> r.source]
  <2>1. h \in Surjection(Reports, named)
    BY DEF Surjection
  <2>2. IsFiniteSet(named)
    <3> HIDE DEF h, named
    <3>1. QED BY <2>1, FiguresAssumption, FS_Surjection
  <2>3. QED BY <2>2, FS_AddElement DEF Sources
<1>4. Distribution = [s \in Sources |-> Cardinality({d \in Agents : g[d] = s})]
  <2>1. ASSUME NEW s \in Sources PROVE {d \in Agents : Source(d) = s} = {d \in Agents : g[d] = s}
    OBVIOUS
  <2>2. QED BY <2>1 DEF Distribution
<1>5. {d \in Agents : g[d] \in Sources} = Agents
  BY <1>2
<1>6. SumFunction([s \in Sources |-> Cardinality({d \in Agents : g[d] = s})])
        = Cardinality({d \in Agents : g[d] \in Sources})
  <2> HIDE DEF g
  <2>1. QED BY <1>1, <1>3, SumOfGroups
<1>7. QED BY <1>4, <1>5, <1>6

LEMMA VersionsHold == IInv => SumFunction(AgentVersions) = Cardinality(Agents)
<1> SUFFICES ASSUME IInv PROVE SumFunction(AgentVersions) = Cardinality(Agents)
  OBVIOUS
<1> DEFINE g == [d \in Agents |-> device[d].version]
           K == {device[d].version : d \in Agents}
<1>1. IsFiniteSet(Agents)
  BY Finite DEF IInv, Agents, Fleet, Rows
<1>2. IsFiniteSet(K)
  <2>1. g \in Surjection(Agents, K)
    BY DEF Surjection
  <2> HIDE DEF g, K
  <2>2. QED BY <1>1, <2>1, FS_Surjection DEF ExistsSurjection
<1>3. AgentVersions = [v \in K |-> Cardinality({d \in Agents : g[d] = v})]
  <2>1. ASSUME NEW v \in K PROVE {d \in Agents : device[d].version = v} = {d \in Agents : g[d] = v}
    OBVIOUS
  <2>2. QED BY <2>1 DEF AgentVersions
<1>4. {d \in Agents : g[d] \in K} = Agents
  OBVIOUS
<1>5. SumFunction([v \in K |-> Cardinality({d \in Agents : g[d] = v})])
        = Cardinality({d \in Agents : g[d] \in K})
  <2> HIDE DEF g, K
  <2>1. QED BY <1>1, <1>2, SumOfGroups
<1>6. QED BY <1>3, <1>4, <1>5

LEMMA OpenHolds ==
  IInv => /\ OpenNow = Summary.openUpdatesTotal
          /\ SumFunction([u \in Updates |-> Counted(u, "available")]) = Summary.openUpdatesTotal
          /\ SumFunction([u \in Security |-> Counted(u, "available")]) = Summary.openSecurityTotal
<1> SUFFICES ASSUME IInv
             PROVE  /\ OpenNow = Summary.openUpdatesTotal
                    /\ SumFunction([u \in Updates |-> Counted(u, "available")]) = Summary.openUpdatesTotal
                    /\ SumFunction([u \in Security |-> Counted(u, "available")]) = Summary.openSecurityTotal
  OBVIOUS
<1> DEFINE Open(U) == {p \in Fleet \X U : held[p[1]][p[2]].state = "available"}
<1>0. TypeOK /\ Fleet \subseteq Devices /\ Security \subseteq Updates
  BY Constants DEF IInv, Fleet, Rows
<1>1. IsFiniteSet(Fleet) /\ IsFiniteSet(Updates) /\ IsFiniteSet(Security)
  BY <1>0, Finite
<1>2. OpenNow = Summary.openUpdatesTotal
  BY DEF OpenNow, Summary, OpenStates
<1>3. ASSUME NEW U \in SUBSET Updates, IsFiniteSet(U)
      PROVE  SumFunction([u \in U |-> Counted(u, "available")])
               = SumFunction([d \in Fleet |-> Cardinality({u \in U : held[d][u].state = "available"})])
  <2>1. ASSUME NEW d \in Fleet
        PROVE  {u \in U : held[d][u].state = "available"} = {u \in U : <<d, u>> \in Open(U)}
    OBVIOUS
  <2>2. ASSUME NEW u \in U
        PROVE  Counted(u, "available") = Cardinality({d \in Fleet : <<d, u>> \in Open(U)})
    <3>1. {d \in Joined(u) : held[d][u].state = "available"} = {d \in Fleet : <<d, u>> \in Open(U)}
      BY DEF Joined, Fleet
    <3>2. QED BY <3>1 DEF Counted
  <2>3. /\ SumFunction([d \in Fleet |-> Cardinality({u \in U : <<d, u>> \in Open(U)})]) = Cardinality(Open(U))
        /\ SumFunction([u \in U |-> Cardinality({d \in Fleet : <<d, u>> \in Open(U)})]) = Cardinality(Open(U))
    <3>1. Open(U) \in SUBSET (Fleet \X U)
      OBVIOUS
    <3> HIDE DEF Open
    <3>2. QED BY <1>1, <1>3, <3>1, SumOfRows
  <2>4. /\ [u \in U |-> Counted(u, "available")]
             = [u \in U |-> Cardinality({d \in Fleet : <<d, u>> \in Open(U)})]
        /\ [d \in Fleet |-> Cardinality({u \in U : held[d][u].state = "available"})]
             = [d \in Fleet |-> Cardinality({u \in U : <<d, u>> \in Open(U)})]
    BY <2>1, <2>2
  <2>5. QED BY <2>3, <2>4
<1>4. /\ [d \in Fleet |-> Cardinality({u \in Updates : held[d][u].state = "available"})]
           = [d \in Fleet |-> Cardinality(OpenStates(d))]
      /\ [d \in Fleet |-> Cardinality({u \in Security : held[d][u].state = "available"})]
           = [d \in Fleet |-> Cardinality(OpenSecurity(d))]
  <2>1. ASSUME NEW d \in Fleet
        PROVE  /\ {u \in Updates : held[d][u].state = "available"} = OpenStates(d)
               /\ {u \in Security : held[d][u].state = "available"} = OpenSecurity(d)
    BY <1>0 DEF OpenStates, OpenSecurity
  <2>2. QED BY <2>1
<1>5. QED BY <1>0, <1>1, <1>2, <1>3, <1>4 DEF Summary

\* The agents that know of an update and those that do not.
LEMMA PageHolds ==
  ASSUME IInv, NEW u \in Updates
  PROVE  Cardinality(PageRows(u)) + Cardinality(Unaffected(u)) = Cardinality(Agents)
<1>1. TypeOK /\ Agents \subseteq Devices
  BY DEF IInv, Agents, Fleet, Rows
<1>2. PageRows(u) \cup Unaffected(u) = Agents /\ PageRows(u) \cap Unaffected(u) = {}
  BY DEF IInv, Reported, PageRows, Unaffected, Agents, Fleet, Rows
<1>3. IsFiniteSet(PageRows(u)) /\ IsFiniteSet(Unaffected(u))
  BY <1>1, <1>2, Finite
<1>4. /\ Cardinality(PageRows(u) \cup Unaffected(u))
           = Cardinality(PageRows(u)) + Cardinality(Unaffected(u)) - Cardinality(PageRows(u) \cap Unaffected(u))
      /\ Cardinality(PageRows(u)) \in Nat /\ Cardinality(Unaffected(u)) \in Nat
  BY <1>3, FS_Union, FS_CardinalityType
<1>5. Cardinality(PageRows(u) \cap Unaffected(u)) = 0
  BY <1>2, FS_EmptySet
<1>6. Cardinality(PageRows(u) \cup Unaffected(u)) = Cardinality(Agents)
  BY <1>2
<1> HIDE DEF PageRows, Unaffected, Agents
<1>7. QED BY <1>4, <1>5, <1>6

LEMMA CountsHold == IInv => CountsAgree
<1> SUFFICES ASSUME IInv PROVE CountsAgree
  OBVIOUS
<1>1. /\ Summary.devicesCritical = Cardinality({d \in Fleet : Critical(d)})
      /\ Summary.staleAgents = Cardinality(Silent)
      /\ Summary.devicesWithoutAgent = Cardinality(Fleet \ Agents)
      /\ Summary.devicesEnrolled = Cardinality(Agents)
  BY DEF Summary
<1>2. Compliance = {d \in Fleet : Critical(d)}
  BY DEF Compliance, Critical, OpenSecurity
<1>3. StaleAgents = Silent
  BY DEF StaleAgents, Silent, Agents, Stale
<1>4. MissingAgents = Fleet \ Agents
  BY DEF MissingAgents, Agents
<1>5. \A u \in Updates, s \in {"available", "failed", "installed"} : PageCount(u, s) = Counted(u, s)
  BY DEF PageCount, Counted, PageRows, Joined
<1>6. ASSUME NEW state \in {"open", "failed", "closed", Null}, NEW c \in {"security", "other"}
      PROVE  Classifications(state)[c] = Cardinality(Catalogue(c, state))
  <2>1. {u \in Catalogue(Null, state) : Classification(u) = c} = Catalogue(c, state)
    BY NullAssumption DEF Catalogue
  <2>2. QED BY <2>1 DEF Classifications
<1>7. QED BY <1>1, <1>2, <1>3, <1>4, <1>5, <1>6, BucketsHold, SourcesHold, VersionsHold, OpenHolds, PageHolds DEF CountsAgree

\* What is open, silent, critical or known is the same on every page.
THEOREM CountsAreOne == Spec => []CountsAgree
<1>1. IInv => CountsAgree
  BY CountsHold
<1>2. QED BY <1>1, Invariant, PTL
=============================================================================
