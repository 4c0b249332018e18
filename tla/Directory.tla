----------------------------- MODULE Directory -----------------------------
(***************************************************************************)
(* Which records the backend keeps of one computer, and which of them its  *)
(* agent speaks for: the synchronisation with the Active Directory         *)
(* (ad-sync.service.ts), the enrolment of the agent (enrollment.service),  *)
(* the check of its secret (device-auth.guard) and what an administrator   *)
(* does by hand (devices.service.ts).                                      *)
(*                                                                         *)
(* Abstractions.                                                           *)
(*  - One computer under one host name that does not change; accounts of   *)
(*    that name come, go and move between the synchronised units and the   *)
(*    rest of the directory, which holds other computers as well.          *)
(*  - PostgreSQL at READ COMMITTED: `row` is what is committed. apply()    *)
(*    sees its own versions of the records it has written, `mine`, which   *)
(*    stay `locked` until it commits; who wants to write one waits.        *)
(*    Statements of one transaction are one step where a commit of another *)
(*    one between them comes to the same as before or after both: the two  *)
(*    SELECTs of upsert(), its DELETE and UPDATE of two records by their   *)
(*    ids, the two statements that archive.                                *)
(*  - enroll() reads the record, compares its copy with it when save()     *)
(*    reads it again, and writes and commits, three steps. enrolled_at is  *)
(*    a rank, equal for those whose clocks nothing tells apart.            *)
(*  - Secrets: the agent either holds one that is valid for its record or  *)
(*    none; a refused one makes it enrol (401).                            *)
(*  - Texts of archived_reason: "directory" or "hand".                     *)
(***************************************************************************)
EXTENDS Naturals, FiniteSets

CONSTANTS
  Rows,      \* ids of devices
  Accounts,  \* objectGUIDs of computer accounts with the host name
  Requests,  \* enrolments under way at the same time
  Nothing,   \* no record, no account, no request
  MaxUpsets  \* bound: accounts moved, what administrators do, identities lost, requests given
             \* up, queries and transactions that fail, taken together

ASSUME DirectoryAssumption ==
  IsFiniteSet(Rows) /\ Nothing \notin Rows \cup Accounts \cup Requests

VARIABLES
  account,   \* account[g]: "absent", "inside" the synchronised units or "outside"
  row,       \* row[r]: the record with the id r
  identity,  \* device-identity of the agent: a record it has a valid secret for
  enroll,    \* enroll[e]: how far the backend has come with the request e
  waiting,   \* the request the agent waits for; others it has given up
  adSync,    \* how far sync() has come
  mine,      \* the records as the transaction of sync() has written them
  locked,    \* which ones it has written
  blind,     \* an agent's first report to them came between the look at them and the DELETE
  upsets     \* what the bound counts

transaction == <<adSync, mine, locked>>
directoryVars == <<account, row, identity, enroll, waiting, transaction, blind, upsets>>

Places == {"absent", "inside", "outside"}
NoRow == [status |-> "none", reason |-> "", guid |-> Nothing, enrolled |-> 0]
New(guid, rank) == [status |-> "active", reason |-> "", guid |-> guid, enrolled |-> rank]

NoPlan == [guid |-> Nothing, gone |-> {}, target |-> {}]
AtRest == [pc |-> "idle", found |-> {}, todo |-> {}, outside |-> FALSE, plan |-> NoPlan]
NoRequest == [pc |-> "idle", id |-> Nothing, saw |-> NoRow, set |-> NoRow, columns |-> {}]

Present(t) == {r \in Rows : t[r].status # "none"}
Inside == {g \in Accounts : account[g] = "inside"}

\* Ids are never given out twice, and no id is better than another.
Free == Rows \ (Present(row) \cup locked \cup {enroll[e].id : e \in Requests})
Fresh == IF Free = {} THEN {} ELSE {CHOOSE r \in Free : TRUE}

DirectoryInit ==
  /\ account \in [Accounts -> Places]
  /\ row = [r \in Rows |-> NoRow] /\ identity = Nothing
  /\ enroll = [e \in Requests |-> NoRequest] /\ waiting = Nothing
  /\ adSync = AtRest /\ mine = [r \in Rows |-> NoRow] /\ locked = {} /\ blind = {}
  /\ upsets = 0

\* The one enrolled last; among records never enrolled any.
Latest(t, S) == {r \in S : \A s \in S : t[s].enrolled <= t[r].enrolled}

\* The rank of an enrolment that comes now: one more than the last one's.
Now == {n \in {1} \cup {row[r].enrolled + 1 : r \in Rows} : \A r \in Rows : row[r].enrolled < n}

-----------------------------------------------------------------------------
(* The directory and the administrators.                                   *)

Upset == upsets < MaxUpsets /\ upsets' = upsets + 1

Move(g, place) ==
  /\ Upset /\ account[g] # place
  /\ account' = [account EXCEPT ![g] = place]
  /\ UNCHANGED <<row, identity, enroll, waiting, transaction, blind>>

SetArchived(r, status) ==
  /\ Upset /\ r \in Present(row) \ locked
  /\ row' = [row EXCEPT ![r].status = status,
                        ![r].reason = IF status = "archived" THEN "hand" ELSE ""]
  /\ UNCHANGED <<account, identity, enroll, waiting, transaction, blind>>

\* The secrets go with the record.
Gone(S) == identity' = IF identity \in S THEN Nothing ELSE identity

RemoveRow(r) ==
  /\ Upset /\ r \notin locked /\ row[r].status = "archived"
  /\ row' = [row EXCEPT ![r] = NoRow] /\ Gone({r})
  /\ UNCHANGED <<account, enroll, waiting, transaction, blind>>

-----------------------------------------------------------------------------
(* The agent.                                                              *)

\* canActivate(): 401 without a valid secret, 403 for an archived device.
Accepted == identity # Nothing /\ row[identity].status = "active"

\* The computer is set up anew, or its identity cannot be read.
LoseIdentity ==
  /\ identity # Nothing /\ Upset
  /\ identity' = Nothing
  /\ UNCHANGED <<account, row, enroll, waiting, transaction, blind>>

\* The request times out or its answer is lost; the backend goes on with it.
GiveUp ==
  /\ waiting # Nothing /\ Upset
  /\ waiting' = Nothing
  /\ UNCHANGED <<account, row, identity, enroll, transaction, blind>>

\* Whoever comes back is active again.
WelcomeAlways(saw, rank) ==
  [saw EXCEPT !.status = "active", !.reason = "", !.enrolled = IF @ = 0 THEN rank ELSE @]

\* The record it found, as the enrolment sets it: whoever comes back is active
\* again, unless the directory says otherwise.
Welcome(saw, rank) ==
  LET back == saw.status = "archived" /\ saw.reason # "directory" IN
  [saw EXCEPT !.status = IF back THEN "active" ELSE @, !.reason = IF back THEN "" ELSE @,
              !.enrolled = IF @ = 0 THEN rank ELSE @]

EnrollRead(e) ==
  /\ identity = Nothing /\ waiting = Nothing
  /\ enroll[e].pc = "idle" /\ e = CHOOSE f \in Requests : enroll[f].pc = "idle"
  /\ waiting' = e
  /\ \E rank \in Now :
       \/ \E r \in Latest(row, Present(row)) :
            enroll' = [enroll EXCEPT ![e] =
              [pc |-> "save", id |-> r, saw |-> row[r], set |-> Welcome(row[r], rank),
               columns |-> {}]]
       \/ Present(row) = {} /\ \E r \in Fresh :
            enroll' = [enroll EXCEPT ![e] =
              [pc |-> "insert", id |-> r, saw |-> NoRow, set |-> New(Nothing, rank),
               columns |-> {}]]
  /\ UNCHANGED <<account, row, identity, transaction, blind, upsets>>

\* save() reads the record once more: it writes the columns that differ from its copy,
\* and all of them when the record is no longer there.
EnrollCompare(e) ==
  /\ enroll[e].pc = "save"
  /\ LET r == enroll[e].id
         there == r \in Present(row)
     IN  enroll' = [enroll EXCEPT ![e] =
           [pc |-> IF there THEN "update" ELSE "insert", id |-> r,
            saw |-> enroll[e].saw, set |-> enroll[e].set,
            columns |-> {c \in DOMAIN NoRow : there /\ enroll[e].set[c] # row[r][c]}]]
  /\ UNCHANGED <<account, row, identity, waiting, transaction, blind, upsets>>

\* The record as the enrolment leaves it.
Saved(e) ==
  [c \in DOMAIN NoRow |-> IF enroll[e].pc = "insert" \/ c \in enroll[e].columns
                          THEN enroll[e].set[c] ELSE row[enroll[e].id][c]]

\* It waits for the synchronisation to commit what it wants to write, or an objectGUID.
MustWait(e) ==
  \E r \in locked : \/ r = enroll[e].id
                     \/ Saved(e).guid \in {row[r].guid, mine[r].guid} \ {Nothing}

\* The objectGUID is unique, and so is the id. Without the record the secret has none to
\* refer to.
Refused(e) ==
  \/ enroll[e].pc = "insert" <=> enroll[e].id \in Present(row)
  \/ \E r \in Rows \ {enroll[e].id} : row[r].guid = Saved(e).guid /\ row[r].guid # Nothing

\* save(), the secrets and the commit: older secrets are revoked, but for one that was
\* not committed yet.
EnrollCommit(e) ==
  /\ enroll[e].pc \in {"update", "insert"} /\ ~MustWait(e) /\ ~Refused(e)
  /\ row' = [row EXCEPT ![enroll[e].id] = Saved(e)]
  /\ \/ waiting = e /\ identity' = enroll[e].id /\ waiting' = Nothing
     \/ waiting # e /\ UNCHANGED <<identity, waiting>>
     \/ waiting # e /\ Gone({enroll[e].id}) /\ UNCHANGED waiting
  /\ enroll' = [enroll EXCEPT ![e] = NoRequest]
  /\ blind' = IF row[enroll[e].id].enrolled = 0
              THEN blind \cup ({enroll[e].id} \cap adSync.plan.gone) ELSE blind
  /\ UNCHANGED <<account, transaction, upsets>>

EnrollFails(e) ==
  /\ enroll[e].pc \in {"update", "insert"} /\ ~MustWait(e) /\ Refused(e)
  /\ enroll' = [enroll EXCEPT ![e] = NoRequest]
  /\ waiting' = IF waiting = e THEN Nothing ELSE waiting
  /\ UNCHANGED <<account, row, identity, transaction, blind, upsets>>

-----------------------------------------------------------------------------
(* The synchronisation.                                                    *)

Fetch ==
  /\ adSync.pc = "idle"
  /\ adSync' = [AtRest EXCEPT !.pc = "lookup", !.found = Inside]
  /\ UNCHANGED <<account, row, identity, enroll, waiting, mine, locked, blind, upsets>>

\* findOutsideScope(): agents without an account in what was read, whose account
\* the directory has elsewhere.
Elsewhere ==
  /\ adSync.found = {}
  /\ \E r \in Rows : row[r].status = "active" /\ row[r].guid = Nothing
  /\ \E g \in Accounts : account[g] # "absent"

\* Without the answer of the directory there is nothing to archive on that account.
Lookup ==
  /\ adSync.pc = "lookup"
  /\ \E outside \in {Elsewhere, FALSE} :
       /\ adSync' = [adSync EXCEPT !.pc = "select", !.todo = adSync.found, !.outside = outside]
       /\ IF outside = Elsewhere THEN UNCHANGED upsets
          ELSE Upset
  /\ UNCHANGED <<account, row, identity, enroll, waiting, mine, locked, blind>>

\* The table as the transaction sees it.
Seen == [r \in Rows |-> IF r \in locked THEN mine[r] ELSE row[r]]

ByGuid(g) == {r \in Rows : Seen[r].guid = g}

\* Every record of that name, whatever account it stands for.
PredecessorsAny(g) == Present(Seen) \ ByGuid(g)

\* A record of that name without an account, or whose account is gone.
Predecessors(g) == {r \in Present(Seen) : Seen[r].guid \notin adSync.found} \ ByGuid(g)

\* The newer record is dissolved whether or not an agent reported to it.
MergeableAll(own) == TRUE
\* A record an agent has reported to keeps its own history.
Mergeable(own) == \A r \in own : Seen[r].enrolled = 0

\* upsert(): a predecessor takes the objectGUID over, and the record the synchronisation
\* has created for it in the meantime is to be dissolved; else its own record, if any.
Select(g) ==
  /\ adSync.pc = "select" /\ g \in adSync.todo
  /\ LET pred == Predecessors(g)
         own  == ByGuid(g)
     IN  \/ /\ pred # {} /\ Mergeable(own)
            /\ \E r \in Latest(Seen, pred) :
                 adSync' = [adSync EXCEPT !.pc = "write",
                              !.plan = [guid |-> g, gone |-> own, target |-> {r}]]
         \/ /\ ~(pred # {} /\ Mergeable(own))
            /\ adSync' = [adSync EXCEPT !.pc = "write",
                              !.plan = [guid |-> g, gone |-> {}, target |-> own]]
  /\ UNCHANGED <<account, row, identity, enroll, waiting, mine, locked, blind, upsets>>

\* The record the objectGUID is written to: a new one, or the one selected if it is
\* still there.
Targets == IF adSync.plan.target = {} THEN {{r} : r \in Fresh}
           ELSE {adSync.plan.target \cap Present(Seen)}

\* Somebody else has the objectGUID by now.
Taken(S) == S # {} /\ ByGuid(adSync.plan.guid) \ (S \cup adSync.plan.gone) # {}

\* upsert(): DELETE by id, then INSERT or UPDATE by id.
Upsert ==
  /\ adSync.pc = "write"
  /\ \E S \in Targets :
       /\ ~Taken(S)
       /\ mine' = [r \in Rows |-> IF r \in S THEN New(adSync.plan.guid, Seen[r].enrolled)
                                 ELSE IF r \in adSync.plan.gone THEN NoRow ELSE mine[r]]
       /\ locked' = locked \cup S \cup (adSync.plan.gone \cap Present(Seen))
  /\ adSync' = [adSync EXCEPT !.pc = "select", !.todo = @ \ {adSync.plan.guid}, !.plan = NoPlan]
  /\ UNCHANGED <<account, row, identity, enroll, waiting, blind, upsets>>

\* Accounts outside the units are left to the agents without an account.
MissingElsewhere(r) ==
  Seen[r].guid \notin adSync.found \cup {Nothing} /\ account[Seen[r].guid] = "absent"

\* archiveMissing(): an account that was not read, deleted or moved.
Missing(r) == Seen[r].guid \notin adSync.found \cup {Nothing}

\* archiveOutsideScope().
OutsideScope(r) == adSync.outside /\ Seen[r].guid = Nothing

Archive ==
  /\ adSync.pc = "select" /\ adSync.todo = {}
  /\ LET S == {r \in Rows : Seen[r].status = "active" /\ (Missing(r) \/ OutsideScope(r))}
     IN  /\ mine' = [r \in Rows |-> IF r \in S THEN [Seen[r] EXCEPT !.status = "archived",
                                                                  !.reason = "directory"]
                                   ELSE mine[r]]
         /\ locked' = locked \cup S
  /\ adSync' = [adSync EXCEPT !.pc = "commit"]
  /\ UNCHANGED <<account, row, identity, enroll, waiting, blind, upsets>>

Over == adSync' = AtRest /\ mine' = [r \in Rows |-> NoRow] /\ locked' = {} /\ blind' = {}

Commit ==
  /\ adSync.pc = "commit"
  /\ row' = Seen /\ Gone(Rows \ Present(Seen))
  /\ Over
  /\ UNCHANGED <<account, enroll, waiting, upsets>>

\* An error on the way: nothing is applied.
SyncFails ==
  /\ \/ adSync.pc # "idle" /\ Upset
     \/ adSync.pc = "write" /\ (\E S \in Targets : Taken(S)) /\ UNCHANGED upsets
  /\ Over
  /\ UNCHANGED <<account, row, identity, enroll, waiting>>

-----------------------------------------------------------------------------

EnvNext ==
  \/ \E g \in Accounts, place \in Places : Move(g, place)
  \/ \E r \in Rows : \/ RemoveRow(r)
                     \/ \E status \in {"active", "archived"} : SetArchived(r, status)
  \/ LoseIdentity \/ GiveUp

EnrollNext(e) == EnrollRead(e) \/ EnrollCompare(e) \/ EnrollCommit(e) \/ EnrollFails(e)
SyncNext ==
  Fetch \/ Lookup \/ (\E g \in Accounts : Select(g)) \/ Upsert \/ Archive \/ Commit \/ SyncFails

DirectoryNext == EnvNext \/ (\E e \in Requests : EnrollNext(e)) \/ SyncNext
DirectorySpec == DirectoryInit /\ [][DirectoryNext]_directoryVars

\* The interval starts one synchronisation after the other, the directory answers;
\* the agent enrols with every cycle while it has no identity. An enrolment that waits for
\* a record gets it when the synchronisation commits, before the next one (SF).
LiveSpec == /\ DirectorySpec /\ WF_directoryVars(SyncNext)
            /\ WF_directoryVars(\E e \in Requests : EnrollRead(e))
            /\ \A e \in Requests : SF_directoryVars(EnrollNext(e))

-----------------------------------------------------------------------------

Record == [status: {"none", "active", "archived"}, reason: {"", "directory", "hand"},
           guid: Accounts \cup {Nothing}, enrolled: Nat]

Plans == [guid: Accounts \cup {Nothing}, gone: SUBSET Rows, target: SUBSET Rows]
Runs == [pc: {"idle", "lookup", "select", "write", "commit"}, found: SUBSET Accounts,
         todo: SUBSET Accounts, outside: BOOLEAN, plan: Plans]
Enrolments ==
  {NoRequest} \cup [pc: {"save", "update", "insert"}, id: Rows, saw: Record,
                    set: Record, columns: SUBSET DOMAIN NoRow]

\* A record that is not there has nothing in its columns, and no account has two of them.
Sound(copy) == copy.status = "none" <=> copy = NoRow
Table(t) == /\ t \in [Rows -> Record] /\ \A r \in Rows : Sound(t[r])
            /\ \A r, s \in Rows : t[r].guid = t[s].guid /\ t[r].guid # Nothing => r = s

\* What is committed and what a synchronisation is about to commit are both such tables,
\* and the agent speaks for a record that is there.
DirectoryTypes ==
  /\ account \in [Accounts -> Places]
  /\ Table(row) /\ Table(Seen)
  /\ identity \in Present(row) \cup {Nothing}
  /\ enroll \in [Requests -> Enrolments] /\ waiting \in Requests \cup {Nothing}
  /\ \A e \in Requests : enroll[e].pc # "idle" =>
       enroll[e].set.status # "none" /\ enroll[e].set.enrolled > 0
  /\ adSync \in Runs /\ \A r, s \in adSync.plan.target : r = s
  /\ mine \in [Rows -> Record] /\ \A r \in Rows : Sound(mine[r])
  /\ locked \subseteq Rows /\ blind \subseteq Rows

\* A record an agent has reported to is dissolved by the synchronisation only if the first
\* report came after the synchronisation had looked at it; its history goes with it
\* (ad-sync.service.ts:241-246).
HistoryStays ==
  [][\A r \in Rows : row[r].enrolled > 0 /\ row'[r].status = "none"
                       => RemoveRow(r) \/ r \in blind]_directoryVars

\* An enrolment never takes back what the directory decided (enrollment.service.ts:
\* 85-93), unless the decision fell between its first and its last step.
EnrollmentObeys ==
  [][\A e \in Requests, r \in Rows :
       EnrollCommit(e) /\ row[r].reason = "directory" /\ row[r].status = "archived"
         /\ row'[r].status = "active"
         => enroll[e].saw.status # "archived" \/ enroll[e].saw.reason # "directory"]_directoryVars

\* No two records an agent has reported to.
OneHistory == \A r, s \in Rows : row[r].enrolled > 0 /\ row[s].enrolled > 0 => r = s

\* Every account has its active record, and the agent speaks for one of these, unless two
\* enrolments at once have made two histories of it. Without an account to synchronise
\* there is an active record only if it never had one and has none elsewhere.
Right ==
  /\ \A g \in Inside : \E r \in Rows : row[r].guid = g /\ row[r].status = "active"
  /\ Inside # {} /\ OneHistory => Accepted /\ row[identity].guid \in Inside
  /\ Inside = {} => \A r \in Rows : row[r].status = "active" =>
                      row[r].guid = Nothing /\ \A g \in Accounts : account[g] = "absent"

\* Agent and synchronisation come to the right records whatever happened before,
\* and stop undoing each other's work (device-auth.guard.ts:73-81).
Converges == <>[]Right
ComesToRest == <>[][FALSE]_row
=============================================================================
