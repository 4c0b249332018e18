------------------------------ MODULE Figures ------------------------------
(***************************************************************************)
(* The numbers the console shows and the lists behind them: the tiles and  *)
(* rings of the dashboard with the device list they link to, the tree of   *)
(* organizational units, the reports, the catalogue of updates with the    *)
(* page of an update. Each is a query of its own in reports.service.ts,    *)
(* devices.service.ts or updates.service.ts over the same tables, written  *)
(* out again each time; the links are put together in DashboardView.vue    *)
(* and taken apart again in DevicesView.vue.                               *)
(*                                                                         *)
(* Abstractions.                                                           *)
(*  - The tables change as the other components change them: a device      *)
(*    appears, enrols, checks in, is archived, comes back, is deleted; old *)
(*    check-ins are deleted; days pass.                                    *)
(*  - A time is its age in days. Ages stop growing at MaxAge.              *)
(*  - A report is what a check-in says of update source, pending restart,  *)
(*    agent version and last user; of a device's check-ins the latest is   *)
(*    kept.                                                                *)
(*  - A DN is the sequence of its segments, the innermost first.           *)
(*  - A search term is found in a name that it is, and in a DN of which it *)
(*    is a segment.                                                        *)
(*  - Sorting and pages are left out: what the export's limit lets through *)
(*    is any part of the list of that length.                              *)
(***************************************************************************)
EXTENDS Naturals, Sequences, FiniteSets, FiniteSetsExt, SequencesExt

CONSTANTS
  Devices, Updates,
  Security,     \* the updates with is_security
  Home,         \* Home[d]: the unit the directory has d in
  Host,         \* Host[d]: the host name
  Reports,      \* the [source, reboot, version, user] a check-in may carry
  Versions,     \* the versions an update of the agent may lead to
  Endings,      \* the states an update may be left in
  Null,         \* NULL
  MaxAge,       \* bound: ages in days
  StaleDays, CriticalDays,  \* SettingsService.getThresholds
  CheckinDays,  \* SettingsService.getRetention
  Terms,        \* bound: what is searched for
  ExportLimit   \* the rows of an export, 50 000

ASSUME FiguresAssumption ==
  /\ IsFiniteSet(Devices) /\ IsFiniteSet(Updates) /\ Security \subseteq Updates
  /\ Home \in [Devices -> Seq(STRING)] /\ Host \in [Devices -> STRING]
  /\ Reports \subseteq [source: STRING, reboot: BOOLEAN, version: STRING, user: STRING]
  /\ IsFiniteSet(Reports) /\ Versions \subseteq STRING
  /\ Endings \subseteq {"installed", "failed", "superseded"}
  /\ MaxAge \in Nat /\ {StaleDays, CriticalDays, CheckinDays} \subseteq 0..(MaxAge - 1)
  /\ Terms \subseteq STRING \ {""} /\ ExportLimit \in Nat

ASSUME NullAssumption ==
  /\ Null \notin {"active", "archived", "security", "other"}
  /\ Null \notin STRING /\ Null \notin Seq(STRING) /\ Null \notin Nat /\ Null \notin BOOLEAN
  /\ \A r \in Reports : Null # r
  /\ \A ids \in SUBSET Devices : Null # ids

VARIABLES
  device,  \* devices, with its latest row of device_checkins
  held     \* device_update_states with first_available_at

vars == <<device, held>>

Ages == 0..MaxAge
Older(age) == IF age = Null \/ age = MaxAge THEN age ELSE age + 1
Absent == [status |-> "absent", enrolled |-> FALSE, seen |-> Null, report |-> Null,
           version |-> Null, user |-> Null, ou |-> Null]
NotHeld == [state |-> "none", age |-> Null]

Sources == {r.source : r \in Reports} \cup {"unknown"}
Rows == {d \in Devices : device[d].status # "absent"}

Init ==
  /\ device = [d \in Devices |-> Absent]
  /\ held = [d \in Devices |-> [u \in Updates |-> NotHeld]]

-----------------------------------------------------------------------------
(* What happens to the tables.                                             *)

\* The synchronisation finds the computer. It does not ask whether it was archived.
Known(d) ==
  /\ device' = [device EXCEPT ![d].status = "active", ![d].ou = Home[d]]
  /\ UNCHANGED held

Enrol(d) ==
  /\ device[d].status # "archived"
  /\ device' = [device EXCEPT ![d].status = "active", ![d].enrolled = TRUE]
  /\ UNCHANGED held

\* The guard lets active devices through. Of what was offered and is not offered any more
\* an attempt decides, or it is superseded.
CheckIn(d, report, open) ==
  /\ device[d].status = "active" /\ device[d].enrolled
  /\ device' = [device EXCEPT ![d].seen = 0, ![d].report = report,
                              ![d].version = report.version, ![d].user = report.user]
  /\ \E left \in Endings :
       held' = [held EXCEPT ![d] = [u \in Updates |->
                  CASE u \in open /\ held[d][u].state = "available" -> held[d][u]
                    [] u \in open /\ held[d][u].state # "available" -> [state |-> "available", age |-> 0]
                    [] u \notin open /\ held[d][u].state = "available" -> [state |-> left, age |-> Null]
                    [] OTHER -> held[d][u]]]

\* The report of a finished update of the agent comes before the next check-in.
AgentUpdated(d, v) ==
  /\ device[d].status = "active" /\ device[d].enrolled
  /\ device' = [device EXCEPT ![d].version = v]
  /\ UNCHANGED held

SetArchived(d, to) ==
  /\ device[d].status # "absent"
  /\ device' = [device EXCEPT ![d].status = to]
  /\ UNCHANGED held

\* Check-ins and states go with the device.
Delete(d) ==
  /\ device[d].status = "archived"
  /\ device' = [device EXCEPT ![d] = Absent]
  /\ held' = [held EXCEPT ![d] = [u \in Updates |-> NotHeld]]

\* Only the check-ins: what they left on the device, and the states, stay.
Retention ==
  /\ device' = [d \in Devices |->
       IF device[d].seen # Null /\ device[d].seen > CheckinDays
       THEN [device[d] EXCEPT !.report = Null] ELSE device[d]]
  /\ UNCHANGED held

Day ==
  /\ device' = [d \in Devices |-> [device[d] EXCEPT !.seen = Older(@)]]
  /\ held' = [d \in Devices |-> [u \in Updates |-> [held[d][u] EXCEPT !.age = Older(@)]]]

Next ==
  \/ \E d \in Devices : \/ Known(d) \/ Enrol(d) \/ Delete(d)
                        \/ \E r \in Reports, open \in SUBSET Updates : CheckIn(d, r, open)
                        \/ \E v \in Versions : AgentUpdated(d, v)
                        \/ \E to \in {"active", "archived"} : SetArchived(d, to)
  \/ Retention \/ Day

Spec == Init /\ [][Next]_vars

-----------------------------------------------------------------------------
(* What the queries have in common.                                        *)

Active(d) == device[d].status = "active"
OpenStates(d) == {u \in Updates : held[d][u].state = "available"}
OpenSecurity(d) == OpenStates(d) \cap Security
Critical(d) == \E u \in OpenSecurity(d) : held[d][u].age > CriticalDays
OldestOpen(d) == IF OpenStates(d) = {} THEN Null ELSE Max({held[d][u].age : u \in OpenStates(d)})
Stale(d, days) == device[d].enrolled /\ (device[d].seen = Null \/ device[d].seen > days)
PendingReboot(d) == device[d].report # Null /\ device[d].report.reboot

Fleet == {d \in Rows : Active(d)}
Agents == {d \in Fleet : device[d].enrolled}

-----------------------------------------------------------------------------
(* ReportsService.                                                         *)

\* Mutation: archived devices are counted, as they once were.
SilentAll == {d \in Rows : Stale(d, StaleDays)}

Silent == {d \in Agents : Stale(d, StaleDays)}
WithOpenSecurity == {d \in Fleet : OpenSecurity(d) # {}}

Summary == [
  devicesActive           |-> Cardinality(Fleet),
  devicesEnrolled         |-> Cardinality(Agents),
  devicesWithoutAgent     |-> Cardinality(Fleet \ Agents),
  staleAgents             |-> Cardinality(Silent),
  devicesWithOpenSecurity |-> Cardinality(WithOpenSecurity),
  devicesCritical         |-> Cardinality({d \in Fleet : Critical(d)}),
  devicesPendingReboot    |-> Cardinality({d \in Fleet : PendingReboot(d)}),
  openUpdatesTotal        |-> SumFunction([d \in Fleet |-> Cardinality(OpenStates(d))]),
  openSecurityTotal       |-> SumFunction([d \in Fleet |-> Cardinality(OpenSecurity(d))])]

Compliance == {d \in Fleet : OpenStates(d) # {} /\ Critical(d)}
StaleAgents == {d \in Fleet : Stale(d, StaleDays)}
MissingAgents == {d \in Fleet : ~device[d].enrolled}

\* count per source. A device without check-ins counts as unknown.
Source(d) == IF device[d].report = Null THEN "unknown" ELSE device[d].report.source
Distribution == [s \in Sources |-> Cardinality({d \in Agents : Source(d) = s})]

\* count per version; an agent that has not reported has none.
AgentVersions == [v \in {device[d].version : d \in Agents} |->
  Cardinality({d \in Agents : device[d].version = v})]

\* The ages at which the buckets of patchAge end; the last one is open, one has nothing open.
BucketEnds == 1..MaxAge
PatchAge == [b \in BucketEnds \cup {0, Null} |->
  Cardinality({d \in Agents :
    LET age == OldestOpen(d) IN
    IF b = Null THEN age = Null
    ELSE age # Null /\ (IF b = 0 THEN \A e \in BucketEnds : age >= e ELSE age = b - 1)})]

\* The last point of the curve, from which trend reckons backwards.
OpenNow == SumFunction([d \in Fleet |-> Cardinality({u \in Updates : held[d][u].state = "available"})])

Failures == {u \in Updates : \E d \in Rows : held[d][u].state = "failed"}

-----------------------------------------------------------------------------
(* DevicesService: the list under its filters, each of which may be unset. *)

\* The unit and everything below.
Within(dn, ou) == dn # Null /\ IsSuffix(ou, dn)

Matches(d, term) ==
  \/ term \in {Host[d], device[d].user}
  \/ device[d].ou # Null /\ \E i \in DOMAIN device[d].ou : device[d].ou[i] = term

BuildWhere(d, q, ids) ==
  /\ ids # Null => d \in ids
  /\ q.search # Null => Matches(d, q.search)
  /\ q.status # Null => device[d].status = q.status
  /\ q.ou # Null => Within(device[d].ou, q.ou)
  /\ q.agentVersion # Null => device[d].version = q.agentVersion
  /\ q.updateSource # Null => device[d].report # Null /\ device[d].report.source = q.updateSource
  /\ q.staleDays # Null => Stale(d, q.staleDays)
  /\ q.pendingReboot # Null => PendingReboot(d) = q.pendingReboot
  /\ q.hasOpenSecurity => OpenSecurity(d) # {}
  /\ q.hasAgent # Null => device[d].enrolled = q.hasAgent

List(q, ids) == {d \in Rows : BuildWhere(d, q, ids)}

\* The export is the list's first page, of ExportLimit rows.
ExportCsv(q, ids) ==
  LET rows == List(q, ids)
  IN IF Cardinality(rows) <= ExportLimit THEN {rows}
     ELSE {part \in SUBSET rows : Cardinality(part) = ExportLimit}

\* ad_ou and the number of devices directly in it.
Grouped(status) == {d \in Rows : device[d].ou # Null /\ (status # Null => device[d].status = status)}
OrganizationalUnits(status) ==
  {[dn |-> dn, devices |-> Cardinality({d \in Grouped(status) : device[d].ou = dn})]
     : dn \in {device[d].ou : d \in Grouped(status)}}

-----------------------------------------------------------------------------
(* The frontend.                                                           *)

\* DevicesView when it is opened: the filters it starts with, the link's query over them.
Opened == [search |-> "", status |-> "active", ou |-> Null, agentVersion |-> Null,
           updateSource |-> Null, staleDays |-> Null, pendingReboot |-> Null,
           hasOpenSecurity |-> FALSE, hasAgent |-> Null]

\* The filters of the page as the backend expects them, for list and export alike.
FilterParams(page) == [
  search          |-> IF page.search = "" THEN Null ELSE page.search,
  status          |-> IF page.status = "all" THEN Null ELSE page.status,
  ou              |-> page.ou,
  agentVersion    |-> page.agentVersion,
  updateSource    |-> page.updateSource,
  staleDays       |-> page.staleDays,
  pendingReboot   |-> page.pendingReboot,
  hasOpenSecurity |-> page.hasOpenSecurity,
  hasAgent        |-> page.hasAgent]

\* What a request without filters asks for.
DeviceQueryDto == FilterParams([Opened EXCEPT !.status = "all"])

Total(page) == Cardinality(List(FilterParams(page), Null))

\* Mutation: the export has filters of its own and forgets one, as it once did.
ExportForgets(page) == ExportCsv(FilterParams([page EXCEPT !.agentVersion = Null]), Null)

Export(page) == ExportCsv(FilterParams(page), Null)

\* All matches are ticked, page by page, and the selection is exported.
ExportSelected(page) == ExportCsv(DeviceQueryDto, List(FilterParams(page), Null))

\* DashboardView: a number and the filters of the link on it. The tile that leads to the
\* reports is left out.
CriticalTile == [value |-> Summary.devicesCritical, link |-> [Opened EXCEPT !.hasOpenSecurity = TRUE]]
CriticalHint == [value |-> Summary.devicesWithOpenSecurity, link |-> [Opened EXCEPT !.hasOpenSecurity = TRUE]]
Tiles == {
  [value |-> Summary.devicesActive, link |-> Opened],
  CriticalTile,
  [value |-> Summary.staleAgents, link |-> [Opened EXCEPT !.staleDays = StaleDays]],
  [value |-> Summary.devicesWithoutAgent, link |-> [Opened EXCEPT !.hasAgent = FALSE]],
  [value |-> Summary.devicesPendingReboot, link |-> [Opened EXCEPT !.pendingReboot = TRUE]]}

Coverage == {
  [value |-> Summary.devicesEnrolled - Summary.staleAgents, link |-> [Opened EXCEPT !.hasAgent = TRUE]],
  [value |-> Summary.staleAgents, link |-> [Opened EXCEPT !.staleDays = StaleDays]],
  [value |-> Summary.devicesWithoutAgent, link |-> [Opened EXCEPT !.hasAgent = FALSE]]}

SourceRing == {[value |-> Distribution[s], link |-> [Opened EXCEPT !.updateSource = s]] : s \in Sources}
\* The piece without a version leads nowhere.
VersionRing ==
  {[value |-> AgentVersions[v], link |-> [Opened EXCEPT !.agentVersion = v]]
     : v \in DOMAIN AgentVersions \ {Null}}

\* OuNavigator: the nodes are the units and all that lie above them, each with the sum of
\* what lies below.
Tree(status) ==
  LET units == OrganizationalUnits(status)
      above == UNION {{SubSeq(x.dn, i, Len(x.dn)) : i \in 1..Len(x.dn)} : x \in units}
  IN {[dn |-> n, total |-> SumFunction([x \in {y \in units : IsSuffix(n, y.dn)} |-> x.devices])] : n \in above}

\* The page a node of the tree leads to; the tree is loaded for the status the page has.
Clicked(status, node) == [Opened EXCEPT !.status = status, !.ou = node.dn]

-----------------------------------------------------------------------------
(* UpdatesService: the catalogue and the page of an update.                *)

\* Mutation: the states of archived devices count, as they once did.
JoinedAll(u) == {d \in Rows : held[d][u].state # "none"}

\* The states a catalogue row is joined with.
Joined(u) == {d \in Rows : held[d][u].state # "none" /\ Active(d)}
Counted(u, s) == Cardinality({d \in Joined(u) : held[d][u].state = s})

Classification(u) == IF u \in Security THEN "security" ELSE "other"
Having(u, state) ==
  CASE state = "open"   -> Counted(u, "available") > 0
    [] state = "failed" -> Counted(u, "failed") > 0
    [] state = "closed" -> Counted(u, "available") = 0
    [] OTHER -> TRUE
Catalogue(class, state) == {u \in Updates : (class # Null => Classification(u) = class) /\ Having(u, state)}
Classifications(state) ==
  [c \in {"security", "other"} |-> Cardinality({u \in Catalogue(Null, state) : Classification(u) = c})]

PageRows(u) == {d \in Rows : held[d][u].state # "none" /\ Active(d)}
Unaffected(u) == {d \in Agents : held[d][u].state = "none"}

\* UpdateDetailView: the numbers over the page's rows.
PageCount(u, s) == Cardinality({d \in PageRows(u) : held[d][u].state = s})

-----------------------------------------------------------------------------
(* Properties.                                                             *)

TypeOK ==
  /\ device \in [Devices -> [status: {"absent", "active", "archived"}, enrolled: BOOLEAN,
                            seen: Ages \cup {Null}, report: Reports \cup {Null},
                            version: STRING \cup {Null}, user: STRING \cup {Null},
                            ou: Seq(STRING) \cup {Null}]]
  /\ held \in [Devices -> [Updates -> [state: {"none", "available"} \cup Endings,
                                      age: Ages \cup {Null}]]]

Shown ==
  (Tiles \ {CriticalTile}) \cup {CriticalHint} \cup VersionRing
    \cup {r \in SourceRing : r.link.updateSource # "unknown"}
    \cup {r \in Coverage : r.link.hasAgent # TRUE}

TilesMatch ==
  /\ \A t \in Shown : t.value = Total(t.link)
  /\ CriticalTile.value <= Total(CriticalTile.link)

TreeMatches ==
  \A s \in {"active", "archived", "all"} :
    \A n \in Tree(IF s = "all" THEN Null ELSE s) : n.total = Total(Clicked(s, n))

\* An export: the rows of the list, as many of them as the limit lets through.
IsExport(files, rows) ==
  \A file \in files : /\ file \subseteq rows /\ Cardinality(file) <= ExportLimit
                      /\ Cardinality(rows) <= ExportLimit => file = rows

\* The pages the links lead to, and those of a search.
Pages ==
  {t.link : t \in Tiles \cup Coverage \cup SourceRing \cup VersionRing}
    \cup {[Opened EXCEPT !.search = x] : x \in Terms}
ExportsMatch ==
  \A p \in Pages : LET rows == List(FilterParams(p), Null)
                   IN IsExport(Export(p), rows) /\ IsExport(ExportSelected(p), rows)

\* "Jede Kachel verlinkt in die Geraeteliste, und die zeigt aktive; eine Zahl, die dort nicht
\* wiederzufinden ist, ist schlimmer als keine" (reports.service.ts:73-75): whatever has become
\* of the devices, the list behind a number has as many rows as the number says. So for the
\* tiles but the critical one, whose hint has as many; its own devices are among them. So for
\* the ring of versions, the ring of sources but the unknown, the silent agents and the devices
\* without agent in the ring of coverage, and the nodes of the tree of units. "Liste, Export und
\* 'alle Treffer auswaehlen'" mean the same set (DevicesView.vue:196-201), up to the limit.
NumbersMatchLists == TilesMatch /\ TreeMatches /\ ExportsMatch

\* OPEN_STATES "stellt sicher, dass 'offen' ueberall dasselbe bedeutet": the reports, the curve,
\* the catalogue and the pages of its updates agree with the dashboard.
CountsAgree ==
  /\ Cardinality(Compliance) = Summary.devicesCritical
  /\ Cardinality(StaleAgents) = Summary.staleAgents
  /\ Cardinality(MissingAgents) = Summary.devicesWithoutAgent
  /\ SumFunction(PatchAge) = Summary.devicesEnrolled
  /\ SumFunction(Distribution) = Summary.devicesEnrolled
  /\ SumFunction(AgentVersions) = Summary.devicesEnrolled
  /\ OpenNow = Summary.openUpdatesTotal
  /\ SumFunction([u \in Updates |-> Counted(u, "available")]) = Summary.openUpdatesTotal
  /\ SumFunction([u \in Security |-> Counted(u, "available")]) = Summary.openSecurityTotal
  /\ \A u \in Updates :
       /\ \A s \in {"available", "failed", "installed"} : PageCount(u, s) = Counted(u, s)
       /\ Cardinality(PageRows(u)) + Cardinality(Unaffected(u)) = Summary.devicesEnrolled
  /\ \A state \in {"open", "failed", "closed", Null} : \A c \in {"security", "other"} :
       Classifications(state)[c] = Cardinality(Catalogue(c, state))

\* Refuted: an open security update need not be overdue.
CriticalIsFound == CriticalTile.value = Total(CriticalTile.link)

\* Refuted: a device that has enrolled and not reported, or whose check-ins have been deleted,
\* counts as unknown but is not in the list under that source; the piece of the active agents
\* leads to a list that has the silent ones too.
RingsMatch == \A r \in Coverage \cup SourceRing : r.value = Total(r.link)

\* "Wie ueberall sonst nur aktive Geraete" (reports.service.ts:250). Refuted: failures counts
\* the archived devices; the page of the update has none of them.
FailuresAreFound == \A u \in Failures : PageCount(u, "failed") > 0
=============================================================================
