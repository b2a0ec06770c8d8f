------------------------------ MODULE Findings ------------------------------
(***************************************************************************)
(* The findings table of one tenant (qw-store) and the handlers that write *)
(* it: record_scan, set_finding_status, verify_finding, and the migration  *)
(* dedupe_findings of the start-up; each of the first three ends with the  *)
(* drift alarm snapshot_and_alert (admin/graph.rs).  A handler holds no    *)
(* lock between two statements of the store, so its statements interleave  *)
(* with those of the other handlers; the gateway may crash between any two.*)
(*                                                                         *)
(* Abstractions: a finding is its key (location and title), the scan that  *)
(* recorded it, its posture and its triage ("acknowledged" is told apart   *)
(* from "open" by no code below and is left out); an attack path is the    *)
(* key of the finding it runs through.                                     *)
(***************************************************************************)
EXTENDS Naturals, Sequences, FiniteSets, SequencesExt

CONSTANTS
    Keys,       \* (location, title) pairs: the findings there can be
    Endpoints,  \* groups of keys: the findings on one port of one host
    Severe,     \* keys whose attack path is critical or high
    Jobs,       \* handlers that run at one time
    Modes,      \* which of serial (TRUE) and concurrent (FALSE) handling to explore
    Origins,    \* which tables the gateway may be started on
    MaxOps,     \* bound: handlers started, one at a time
    MaxOverlap, \* bound: handlers started, concurrently
    MaxChanges, \* bound: changes of the endpoints
    MaxCrashes  \* bound: crashes of the gateway

ASSUME FindingsAssumption ==
    /\ IsFiniteSet(Keys) /\ IsFiniteSet(Jobs) /\ Modes \subseteq BOOLEAN
    /\ Endpoints \subseteq SUBSET Keys /\ Severe \subseteq Keys
    /\ Origins \subseteq {"fresh", "duplicates", "single"}
    /\ MaxOps \in Nat /\ MaxOverlap \in Nat /\ MaxChanges \in Nat /\ MaxCrashes \in Nat

VARIABLES
    serial,     \* one handler at a time
    origin,     \* the table the gateway was first started on
    boot,       \* where the start-up is: "dedupe" .. "serving"
    kept,       \* dedupe_findings: the rows to insert again
    table,      \* the findings table, oldest row first
    index,      \* idx_findings_tenant_id exists
    scans,      \* ids in the scans table
    snapshots,  \* graph_snapshots: the path ids of each
    alerts,     \* new_attack_path alerts fired for each path
    job,        \* [at, todo, scan, row, paths, fresh] of each handler
    world,      \* posture of each endpoint
    said,       \* auxiliary: the triage last stored for each key
    exposed,    \* auxiliary: keys whose triage a handler or a crash may have undone
    looked,     \* auxiliary: the postures that the last probe for each key saw
    dropped,    \* auxiliary: alerts for each path that a crash cut off
    ops, changes, crashes

store == <<table, index, scans, snapshots>>
startup == <<boot, kept>>
bounds == <<ops, changes, crashes>>
ghosts == <<said, exposed, looked, dropped>>
findingsVars == <<serial, origin, startup, store, alerts, job, world, ghosts, bounds>>

-----------------------------------------------------------------------------
(* Rows. *)

Postures == {"weak", "hybrid"}
Statuses == {"open", "suppressed"}

\* stable_finding_id, injective on the keys; rows of earlier releases have
\* random ids, <<k, n>> with n > 0.
stable_finding_id(k) == <<k, 0>>

\* The first row of the table with this id.
RowOf(id) == CHOOSE i \in DOMAIN table : table[i].id = id /\ \A m \in 1..(i - 1) : table[m].id # id

\* get_finding: the row, if there is one.
Found(id) == \E r \in Range(table) : r.id = id
get_finding(id) == table[RowOf(id)]

\* INSERT OR REPLACE: with the unique index the old row goes, the only one
\* there is with this id; without the index it stays.
Upsert(row) ==
    IF index /\ Found(row.id) THEN Append(RemoveAt(table, RowOf(row.id)), row)
                              ELSE Append(table, row)

\* update_finding: an UPDATE, which inserts nothing.
update_finding(row) == [i \in DOMAIN table |-> IF table[i].id = row.id THEN row ELSE table[i]]

KeysOf(t) == {r.key : r \in Range(t)}

\* The findings on the port of k.
EndpointOf(k) == {k} \cup UNION {e \in Endpoints : k \in e}

\* min_by_key(pqc_rank): the worst of some postures.
WorstOf(L) == IF "weak" \in L THEN "weak" ELSE "hybrid"

-----------------------------------------------------------------------------
(* Handlers. *)

Idle == [at |-> "idle", todo |-> << >>, scan |-> 0, row |-> << >>, paths |-> {}, fresh |-> {}]

Busy == {j \in Jobs : job[j].at # "idle"}

\* A request or a scheduled scan is started.
Begins(j, state) ==
    /\ boot = "serving" /\ ops < IF serial THEN MaxOps ELSE MaxOverlap
    /\ job[j].at = "idle"
    /\ serial => Busy = {}
    /\ ops' = ops + 1
    /\ job' = [job EXCEPT ![j] = state]
    /\ UNCHANGED <<changes, crashes>>

At(j, pc) == job[j].at = pc
Goto(j, pc) == job' = [job EXCEPT ![j].at = pc]

\* scan_all of run_full_scan, trigger_scan and scan_target: the endpoints S answer.
Probe(j, S) ==
    /\ Begins(j, [Idle EXCEPT !.at = "insert", !.scan = ops + 1,
                               !.todo = SetToSeq({<<k, world[k]>> : k \in S})])
    /\ looked' = [k \in Keys |-> IF k \in S THEN {world[k]} ELSE looked[k]]
    /\ UNCHANGED <<serial, origin, startup, store, alerts, world, said, exposed, dropped>>

\* record_scan: the row of the scan itself.
InsertScan(j) ==
    /\ At(j, "insert")
    /\ scans' = scans \cup {job[j].scan}
    /\ Goto(j, "triage")
    /\ UNCHANGED <<serial, origin, startup, table, index, snapshots, alerts, world, ghosts, bounds>>

\* Mutant: every finding is stored as open.
MutTriageOf(k) == "open"

\* The triage that record_scan carries over to the new row of a finding.
TriageOf(k) == IF Found(stable_finding_id(k)) THEN get_finding(stable_finding_id(k)).status ELSE "open"

\* record_scan, for the next finding: get_finding and the new row in memory.
ReadTriage(j) ==
    /\ At(j, "triage")
    /\ LET k == Head(job[j].todo)[1]
       IN  job' = [job EXCEPT ![j].at = "upsert",
                              ![j].row = [id |-> stable_finding_id(k), key |-> k, scan |-> job[j].scan,
                                          pqc |-> Head(job[j].todo)[2], status |-> TriageOf(k)]]
    /\ UNCHANGED <<serial, origin, startup, store, alerts, world, ghosts, bounds>>

\* record_scan, for that finding: the row is stored whole.
UpsertFinding(j) ==
    /\ At(j, "upsert")
    /\ table' = Upsert(job[j].row)
    /\ LET rest == Tail(job[j].todo)
       IN  job' = [job EXCEPT ![j].at = IF rest = << >> THEN "build" ELSE "triage", ![j].todo = rest]
    /\ UNCHANGED <<serial, origin, startup, index, scans, snapshots, alerts, world, ghosts, bounds>>

\* set_finding_status: the row is read and changed in memory.
SetFindingStatus(j, id, s) ==
    /\ Found(id)
    /\ Begins(j, [Idle EXCEPT !.at = "restatus", !.row = [get_finding(id) EXCEPT !.status = s]])
    /\ UNCHANGED <<serial, origin, startup, store, alerts, world, ghosts>>

\* The findings of which these handlers hold a copy with the triage they read.
HeldBy(J) == {job[j].row.key : j \in {i \in J : job[i].at \in {"upsert", "recheck", "restore"}}}

\* set_finding_status: the row is written back.
StoreStatus(j) ==
    /\ At(j, "restatus")
    /\ table' = update_finding(job[j].row)
    /\ said' = [said EXCEPT ![job[j].row.key] = job[j].row.status]
    /\ exposed' = (exposed \ {job[j].row.key}) \cup ({job[j].row.key} \cap HeldBy(Jobs \ {j}))
    /\ Goto(j, "build")
    /\ UNCHANGED <<serial, origin, startup, index, scans, snapshots, alerts, world, looked, dropped, bounds>>

\* verify_finding: the row is read, then the endpoint probed.
VerifyFinding(j, id) ==
    /\ Found(id)
    /\ Begins(j, [Idle EXCEPT !.at = "recheck", !.row = get_finding(id)])
    /\ UNCHANGED <<serial, origin, startup, store, alerts, world, ghosts>>

\* The findings S answer on the port of the row's finding, which takes the worst
\* of their postures; nothing is written when none does.
Recheck(j) ==
    /\ At(j, "recheck")
    /\ LET k == job[j].row.key
       IN  \/ \E S \in SUBSET EndpointOf(k) :
                 /\ S # {}
                 /\ LET fresh == {world[m] : m \in S}
                    IN  /\ job' = [job EXCEPT ![j].at = "restore", ![j].row.pqc = WorstOf(fresh)]
                        /\ looked' = [looked EXCEPT ![k] = fresh]
           \/ /\ job' = [job EXCEPT ![j] = Idle]
              /\ UNCHANGED looked
    /\ UNCHANGED <<serial, origin, startup, store, alerts, world, said, exposed, dropped, bounds>>

\* verify_finding: the row read before the probe is written back whole; the
\* graph is taken again if the endpoint is resolved or improved.
StorePosture(j) ==
    /\ At(j, "restore")
    /\ table' = update_finding(job[j].row)
    /\ job' = [job EXCEPT ![j] = IF job[j].row.pqc = "hybrid"
                                 THEN [job[j] EXCEPT !.at = "build"] ELSE Idle]
    /\ UNCHANGED <<serial, origin, startup, index, scans, snapshots, alerts, world, ghosts, bounds>>

-----------------------------------------------------------------------------
(* snapshot_and_alert. *)

\* build_graph: a weak finding that is not suppressed makes a path.
Paths(t) == {r.key : r \in {x \in Range(t) : x.pqc = "weak" /\ x.status # "suppressed"}}

BuildGraph(j) ==
    /\ At(j, "build")
    /\ job' = [job EXCEPT ![j].at = "compare", ![j].paths = Paths(table)]
    /\ UNCHANGED <<serial, origin, startup, store, alerts, world, ghosts, bounds>>

\* Mutant: paths are compared with the baseline.
MutSinceBaseline(paths) == IF snapshots = << >> THEN {} ELSE paths \ Head(snapshots)

\* The paths that the last snapshot has not; none if this is the first.
NewPaths(paths) == IF snapshots = << >> THEN {} ELSE paths \ Last(snapshots)

CompareSnapshot(j) ==
    /\ At(j, "compare")
    /\ job' = [job EXCEPT ![j].at = "record", ![j].fresh = NewPaths(job[j].paths)]
    /\ UNCHANGED <<serial, origin, startup, store, alerts, world, ghosts, bounds>>

RecordSnapshot(j) ==
    /\ At(j, "record")
    /\ snapshots' = Append(snapshots, job[j].paths)
    /\ Goto(j, "alert")
    /\ UNCHANGED <<serial, origin, startup, table, index, scans, alerts, world, ghosts, bounds>>

\* One alert for each new path that is critical or high; then the handler is done.
AlertPath(j) ==
    /\ At(j, "alert")
    /\ \/ \E k \in job[j].fresh \cap Severe :
             /\ alerts' = [alerts EXCEPT ![k] = @ + 1]
             /\ job' = [job EXCEPT ![j].fresh = @ \ {k}]
       \/ /\ job[j].fresh \cap Severe = {}
          /\ job' = [job EXCEPT ![j] = Idle]
          /\ UNCHANGED alerts
    /\ UNCHANGED <<serial, origin, startup, store, world, ghosts, bounds>>

-----------------------------------------------------------------------------
(* Start-up and crash. *)

\* The newest row of every finding, and that row with the stable id.
NewestRows(t) == {n \in DOMAIN t : \A m \in DOMAIN t : t[m].key = t[n].key => m <= n}
KeepNewest(t) == {[t[n] EXCEPT !.id = stable_finding_id(t[n].key)] : n \in NewestRows(t)}

\* dedupe_findings: the table is read; if no finding is there twice, it stays.
DedupeRead ==
    /\ boot = "dedupe"
    /\ LET keep == KeepNewest(table)
       IN  /\ kept' = SetToSeq(keep)
           /\ boot' = IF Cardinality(keep) = Len(table) THEN "index" ELSE "delete"
    /\ UNCHANGED <<serial, origin, store, alerts, job, world, ghosts, bounds>>

DedupeDelete ==
    /\ boot = "delete"
    /\ table' = << >>
    /\ boot' = "reinsert"
    /\ UNCHANGED <<serial, origin, kept, index, scans, snapshots, alerts, job, world, ghosts, bounds>>

DedupeInsert ==
    /\ boot = "reinsert"
    /\ table' = Append(table, Head(kept))
    /\ kept' = Tail(kept)
    /\ boot' = IF Tail(kept) = << >> THEN "index" ELSE "reinsert"
    /\ UNCHANGED <<serial, origin, index, scans, snapshots, alerts, job, world, ghosts, bounds>>

\* CREATE UNIQUE INDEX, which fails on a table with two rows of one id; the
\* gateway serves.
CreateIndex ==
    /\ boot = "index"
    /\ index' = IsInjective([i \in DOMAIN table |-> table[i].id])
    /\ boot' = "serving" /\ kept' = << >>
    /\ UNCHANGED <<serial, origin, table, scans, snapshots, alerts, job, world, ghosts, bounds>>

\* The gateway dies and is started again: handlers and the start-up are cut
\* off between two statements.  Only the findings that dedupe_findings has yet to
\* insert, and the alerts that a stored snapshot has yet to fire, are lost.
Crash ==
    /\ crashes < MaxCrashes /\ crashes' = crashes + 1
    /\ boot' = "dedupe" /\ kept' = << >>
    /\ job' = [j \in Jobs |-> Idle]
    /\ exposed' = exposed \cup (IF boot = "reinsert" THEN KeysOf(kept) ELSE {})
    /\ dropped' = [k \in Keys |-> IF \E j \in Jobs : At(j, "alert") /\ k \in job[j].fresh \cap Severe
                                  THEN dropped[k] + 1 ELSE dropped[k]]
    /\ UNCHANGED <<serial, origin, store, alerts, world, said, looked, ops, changes>>

\* An endpoint is migrated, or falls back.
WorldChanges(k) ==
    /\ changes < MaxChanges /\ changes' = changes + 1
    /\ world' = [world EXCEPT ![k] = IF @ = "weak" THEN "hybrid" ELSE "weak"]
    /\ UNCHANGED <<serial, origin, startup, store, alerts, job, ghosts, ops, crashes>>

-----------------------------------------------------------------------------
(* Tables of earlier releases: every scan appended its findings. *)

OldRow(k, n, s) == [id |-> <<k, n>>, key |-> k, scan |-> 0, pqc |-> "weak", status |-> s]

OldTables(o) ==
    CASE o = "fresh" -> {<< >>}
      [] o = "single" -> {<<OldRow(k, 1, s)>> : k \in Keys, s \in Statuses}
      [] o = "duplicates" ->
            {<<OldRow(k, 1, s), OldRow(k, 2, t), OldRow(m, 3, u)>> :
                k \in Keys, m \in Keys, s \in Statuses, t \in Statuses, u \in Statuses}

\* The triage of a key's newest row.
NewestStatus(t, k) ==
    IF k \in KeysOf(t) THEN t[CHOOSE n \in NewestRows(t) : t[n].key = k].status ELSE "open"

FindingsInit ==
    /\ serial \in Modes /\ origin \in Origins
    /\ boot = "dedupe" /\ kept = << >>
    /\ table \in OldTables(origin)
    /\ index = FALSE
    /\ scans = {0}
    /\ snapshots = << >>
    /\ alerts = [k \in Keys |-> 0]
    /\ job = [j \in Jobs |-> Idle]
    /\ world = [k \in Keys |-> "weak"]
    /\ said = [k \in Keys |-> NewestStatus(table, k)]
    /\ exposed = {}
    /\ looked = [k \in Keys |-> {"weak"}]
    /\ dropped = [k \in Keys |-> 0]
    /\ ops = 0 /\ changes = 0 /\ crashes = 0

Handler(j) ==
    \/ InsertScan(j) \/ ReadTriage(j) \/ UpsertFinding(j)
    \/ StoreStatus(j) \/ Recheck(j) \/ StorePosture(j)
    \/ BuildGraph(j) \/ CompareSnapshot(j) \/ RecordSnapshot(j) \/ AlertPath(j)

Request(j) ==
    \/ \E S \in (SUBSET Keys) \ {{}} : Probe(j, S)
    \/ \E r \in Range(table), s \in Statuses : SetFindingStatus(j, r.id, s)
    \/ \E r \in Range(table) : VerifyFinding(j, r.id)

Boot == DedupeRead \/ DedupeDelete \/ DedupeInsert \/ CreateIndex

FindingsNext ==
    \/ \E j \in Jobs : Request(j) \/ Handler(j)
    \/ Boot \/ Crash
    \/ \E k \in Keys : WorldChanges(k)

FindingsSpec == FindingsInit /\ [][FindingsNext]_findingsVars

-----------------------------------------------------------------------------
(* Properties. *)

Row == [id : Keys \X Nat, key : Keys, scan : Nat, pqc : Postures, status : Statuses]

FindingsTypeOK ==
    /\ boot \in {"dedupe", "delete", "reinsert", "index", "serving"}
    /\ kept \in Seq(Row) /\ table \in Seq(Row)
    /\ index \in BOOLEAN /\ scans \subseteq Nat
    /\ snapshots \in Seq(SUBSET Keys) /\ alerts \in [Keys -> Nat]
    /\ world \in [Keys -> Postures]

\* Every stored finding names a scan that is stored, whatever handlers
\* interleave and wherever the gateway crashes: record_scan writes the scan's
\* row before the rows that point at it, and no handler forgets it.
FindingHasScan == \A r \in Range(table) : r.scan \in scans

\* Once the gateway serves, the migration is done: a finding has one row,
\* whatever handlers interleave and wherever the gateway crashes.
OneRowPerFinding ==
    boot = "serving" => \A m, n \in DOMAIN table : table[m].key = table[n].key => m = n

Quiet == boot = "serving" /\ Busy = {}

\* Handlers interleave and the gateway crashes: the triage an operator stored for
\* a finding survives every re-scan, re-verification and restart, unless a handler
\* held a copy of the row when it was stored (record_scan, verify_finding) or a
\* crash met dedupe_findings between its DELETE and that row's INSERT.
TriageKept ==
    boot = "serving" => \A r \in Range(table) : r.key \notin exposed => r.status = said[r.key]

\* The promise record_scan makes in its comment, for handlers that interleave:
\* between two handlers, every row has the triage last stored for it.
TriageSurvives == crashes = 0 /\ Quiet => \A r \in Range(table) : r.status = said[r.key]

\* Handled one at a time, the stored posture of a finding is the worst that the
\* last probe for it saw: its own posture in a scan, that of its whole port in a
\* re-verification.
RowIsLastLook ==
    serial /\ crashes = 0 /\ Quiet => \A r \in Range(table) : r.pqc = WorstOf(looked[r.key])

\* What the findings table says can be relied on.  Whatever interleaves and
\* wherever the gateway crashes, each finding names a stored scan; unless the
\* gateway was first started on a table of random ids without duplicates, which
\* dedupe_findings leaves alone, each finding is there once and its triage is the
\* one last stored, except where TriageKept says; handled one at a time, its
\* posture is the last one seen.
FindingsAreSound ==
    /\ FindingsTypeOK /\ FindingHasScan
    /\ origin # "single" => OneRowPerFinding /\ TriageKept /\ RowIsLastLook

\* Snapshots in which k is, and was not in the one before.
Appearances(k) == Cardinality({n \in 2..Len(snapshots) : k \in snapshots[n] /\ k \notin snapshots[n - 1]})

\* Handled one at a time, drift is alerted exactly once each time a critical or
\* high path appears, and never for another path; the first snapshot is the
\* baseline and alerts nothing.  A crash costs an alert only when it falls between
\* the snapshot and the alert itself.
AlertedOnce ==
    serial /\ Quiet => \A k \in Keys :
        alerts[k] + dropped[k] = IF k \in Severe THEN Appearances(k) ELSE 0

\* An alert is never about a path that no snapshot shows, even when handlers
\* interleave or the gateway crashes: the snapshot is stored before its alerts.
AlertHasSnapshot ==
    \A k \in Keys : alerts[k] <= Cardinality({n \in 2..Len(snapshots) : k \in snapshots[n]})

\* The drift alarm (snapshot_and_alert) invents no path, whatever interleaves and
\* wherever the gateway crashes; handled one at a time, it neither misses nor
\* repeats a critical or high path, but for the alerts a crash cuts off.
DriftIsAlerted == AlertedOnce /\ AlertHasSnapshot

\* No finding is lost while the gateway serves: a re-scan, a re-verification or a
\* triage replaces its row, and a crash leaves it there.
FindingsStay ==
    origin # "single" /\ boot = "serving" => KeysOf(table) \subseteq KeysOf(table')
=============================================================================
