# QuantaWatch: a TLA+ verification project

QuantaWatch is a gateway in front of LLM providers that signs what passes
through it with post-quantum cryptography, watches it, and keeps an inventory
of the cryptography an organisation uses. This directory holds TLA+ models of
its stateful and concurrent parts and of what it computes from its inventory,
TLC configurations that check them on small instances, and TLAPS proofs of the
results that matter most for every instance. `PROJECT.json` is the machine-readable index: components, runs,
mutants, findings, hazards, theorems, and for every definition the source lines
it models.

Run a model with `tlc -config X.cfg M` (the modules are those of the table
"Runs"), check the proofs with `tlapm M.tla`.

## 1. Inventory

| Component | State it keeps | Operations that change it | What makes it correct |
|---|---|---|---|
| Audit log (`qw-audit`, audit tables of `qw-store`) | per replica: command channel, `AuditChain` (last hash, sequence, batch); shared: `audit_entries`, `audit_checkpoints` | log, checkpoint, flush, shutdown; append; the statements of `commit_checkpoint`; resume at start-up | every stored chain verifies over crashes; one unforked checkpoint chain; anchors stored and monotone; accepted events get stored |
| Audit verification (`verifier.rs`, `audit_api.rs`) | none | two reads and a pure check | no alarm for an untouched log |
| Resilience (`resilience.rs`) | per provider: circuit, failures, deadline; per call: attempt | allow, record success or failure, retry | failure trips the circuit; a completion is not sent twice; the circuit recovers |
| Proxy data path (`router.rs`, `proxy_stream.rs`, `middleware/`) | sessions, flows, the request in flight | one step per layer, both response paths | nothing refused is forwarded; every answer is audited; a threat in a stream is withheld; every request ends |
| Authentication (`auth.rs`, `oidc.rs`, `auth_api.rs`, `users_api.rs`) | `auth_users`, `auth_sessions`, `mfa_pending`, `login_lockouts`, `oidc_states` | login, second factor, enrolment, setup, user management, logout, validation, purge, SSO | one-time credentials are used once; revoked sessions stay revoked; lockout; setup only on an empty installation |
| Findings (`qw-store`, `scans.rs`, `remediation.rs`, `graph.rs`) | `scans`, `findings`, `graph_snapshots`, alerts | record_scan, triage, re-verification, drift alarm, start-up migration | one row per finding; triage survives re-scans; nothing lost; a new path is alerted once |
| Posture tasks (`background.rs`, `alerts.rs`, `slos.rs`, `webhooks.rs`) | posture cache and history, SLO and governance rows, alerts, tickets | four kinds of task and the webhooks, each a sequence of statements and awaits | history, audit events and alerts tell the same story; a ticket's end is alerted once; nothing leaves an air-gapped gateway |
| Estate (`targets_api.rs`, `overlay.rs`, `pki_api.rs`, `qw-pki`) | target rows, route rows, listeners in memory, certificates | register, sweep, deep scan, protect, certify, delete, restart, connections | a service marked as protected is served; what is deleted is gone; counters add up |
| Desktop client (`qw-desktop`) | snapshot, tabs, terminal, worker channels | frames, clicks, worker results | own writes are visible; one network operation; results are read |
| Attack graph (`qw-graph`) | none | build, rank, simulate | paths stand on nodes; ids unique; a simulation never lies upwards |
| Policies, roles, routes, admission (`qw-policy`, `crypto_policy.rs`, `rbac.rs`, `k8s_admission.rs`) | configuration | pure decisions | blocking never grants; every change is authorised and logged |
| Rate limiter (`ratelimit.rs`) | a bucket per class and client | check, prune | nobody gets more than burst + rate * time; nobody is refused who has not spent it |
| Crypto-agility policies (`agility.rs`, `crypto_policies.rs`) | baselines, tickets | evaluate, enforce | drift adds up; no ticket is lost |
| Scores, compliance, plans, gates, control reports (`qw-cbom`) | none | pure computations | four classifications of one finding agree; gates are monotone |
| Scanners (`qw-scanner`) | none | probe, classify, file | classifiers agree; readers stay inside their packet; findings do not overwrite each other |
| Merkle trees (`merkle.rs`) | none | root, proof, check | a root stands for one batch |
| Everything else | none of its own, or pure I/O | | listed in `PROJECT.json` with the reason |

**Interactions.** A proxied request passes identity, policy and monitor layers,
then the handler, which consults the crypto policy and the provider's breaker,
calls the upstream, and logs to the audit log before it answers. Admin requests
pass the rate limiter and the auth layer, which validates a session in the
shared store. All replicas share the store (Postgres) or there is one replica
(SQLite). `AuthManager` and `AuditLogger` hold no state that another replica
would need, so what one replica does is visible to the others one SQL statement
at a time.

**What is hard here.** Handlers are sequences of single SQL statements without
a transaction, on several replicas at once. Replicas crash between statements.
Handlers read a row, wait for a sweep, an SSH login or a ticket system, and
write the whole row back. Errors of the store are dropped (`exec_pg`) or read as
"no row". Outcomes of
upstream calls arrive after the circuit has changed. A client that goes away
drops its request's task at any await. The hazards of `PROJECT.json` name the
lines.

## 2. Modules

| Module | Models | Notes |
|---|---|---|
| `AuditLog` | `qw-audit` and the audit tables | replicas, channel, chain, checkpoint commits statement by statement, faults, crashes, restarts; `verify_sharded` as an operator |
| `AnchoredLog` | what `AuditBackend` promises: an append-only log and one chain of anchors | abstract; `AuditLog` implements it |
| `AuditVerify` | `POST /api/audit/verify` and the bundle export beside the writers | extends `AuditLog` |
| `AuditLogProofs` | theorems about `AuditLog`: the checkpoint chain, the refinement, the stored chains | |
| `AuditVerifyProofs` | theorems about what a reader relies on: order, batches, final anchor, verification | extends `AuditVerify` and `AuditLogProofs` |
| `Resilience` | circuit breaker, retry loop | |
| `ProxyPipeline` | the whole data path | composes `Resilience`: its calls are the upstream calls of the requests |
| `ProxyProofs` | theorems about `Resilience`, then about `ProxyPipeline` | carries the invariants of the breaker over to the pipeline |
| `Auth` | authentication over the shared store | |
| `AuthProofs` | theorems about `Auth` | |
| `Findings` | the findings table and the handlers that write it | statement by statement, with crashes and the migration |
| `FindingsProofs` | theorems about `Findings` | |
| `Posture` | what follows a scan; tickets; webhooks | four tasks and a webhook over one posture cache |
| `PostureProofs` | theorems about `Posture` | |
| `Estate` | targets, overlay routes, certificates | handlers, connections, restarts |
| `EstateProofs` | theorems about `Estate` | |
| `Desktop` | the desktop client beside a gateway on the same store | one UI thread, workers, channels |
| `DesktopProofs` | theorems about `Desktop` | |
| `RateLimiter`, `CryptoPolicies` | token buckets; policies, drift and enforcement | small state machines |
| `AttackGraph`, `Access`, `Scoring`, `Controls`, `Scanning`, `Merkle` | pure functions | operators, no variables |
| `MCBackground` | `Findings`, `Posture` and `Estate` side by side | they share no variable: a behaviour runs one of them |
| `MCDecisions` | inputs for the operator modules, and their properties | a behaviour builds or picks an input for one part |
| other `MC*` | symmetry sets and instances for TLC | |

### AuditLog

`pc[w]` is the await at which the writer task of replica `w` is: `boot`
(before `writer_tip`), `recv`, `append` (chain advanced, entry not stored),
`tips` and `insert` (between the statements of `commit_checkpoint` on
Postgres), `down`, `stopped`. `HandleLog` builds, hashes and signs an entry and
advances the chain, as `writer_task` does before the store is asked;
`AppendEntry` is the INSERT. On SQLite a commit holds the connection's mutex
and is one step (`CommitLocked`). `Faults` names the calls that may fail; each
failure does what the code does with it (log and go on, or read as an empty
result). A digest is the tuple of the hashed fields: SHA3 is taken to be
collision free. Bounds: `MaxEvents`, `MaxControl`, `MaxCrashes` per writer.

### Resilience and ProxyPipeline

Time is the cooldown left, in ticks; `cooling` is the same clock as the promise
counts it, from the trip. A call is idle, being sent, or in a backoff. In
`ProxyPipeline`, `stage[r]` is the layer of request `r`; verdicts of policy,
monitor and crypto policy are inputs; what a body contains is what its scan
says. `ClientGone` drops a request anywhere (hyper drops the future).
Configuration constants: `Stream` and `Scan` (`monitor.stream_responses`,
`monitor.scan_responses`).

### Auth

A task is one request handler on any replica; `task[t].at` is the statement it
does next, the other fields its locals, so a row read early and written late is
exactly that. Tokens are drawn from a finite set (`Tokens`, `Codes`; a request
starts only while a token is left for every running one). Whether a password or
code is right is a choice; expiry, idleness and the end of a lock are steps of
the environment. `uses`, `revoked`, `deleted` and `streak` are history
variables for the properties.

### Findings

`job[j]` is a handler and the statement it does next. A scan inserts its row,
then reads the triage and upserts each finding; a triage and a re-verification
read, wait and write back; each ends by building the graph, comparing it with
the last snapshot, storing the new one and alerting, in that order.
`dedupe_findings` runs at the start, `Crash` anywhere. `serial` tells behaviours
in which handlers do not overlap: promises that a lost update can break are
stated for those, the structural ones for all.

### Posture

The scan at the start, the scheduler over all tenants, a tenant's own schedule,
an admin request and a webhook are tasks. After a scan each writes the shared
cache, compares and inserts the posture row, audits, alerts, checks the SLO and
stores the governance row, one step each. `turns` tells behaviours in which
tasks do not overlap. Tickets are opened at the integration (`remote`) before
they are recorded (`ticket`); a webhook may be late, and may hit the ticket of
another tenant that has the same number.

### Estate

`work[h]` is a handler with its copy of the target's row. The listeners
(`routes`) live in memory and the route rows in the store; a restart re-binds
them. A connection is accepted, negotiates and ends in one of the ways of
`handle_conn`, each with its counters.

### Desktop

A frame polls the channels of the workers, then handles at most one click on
the page it shows. `db` is the store, `data` the snapshot the client draws from,
`behind` says that someone else wrote since it was taken. A page may be left at
any time; results arrive on a channel that may have been replaced.

### The operator modules

Their inputs keep what the code distinguishes and nothing else: a name is the
set of the marks the classifiers look for, a title the tuple of its parts, a
path the sequence of its segments. Weights are integers in hundredths, scores in
tenths. `Access` has the whole table of admin routes, with the
user-chosen names of `/api/users/{username}` that `rbac.rs` takes for the name of
a route: a user called "metrics" is changed with `metrics:read` and no change of
it is audited, so `ChangesAreTracked` ("record every successful mutating action",
`router.rs`) and `RolesAreALadder` name those paths and hold of every other.
`Scanning` names the place that makes a finding (`check`), which the code does
not keep, so that properties can say "the same check".

## 3. Runs

| Run | Module, cfg | Shows |
|---|---|---|
| `audit_replicas` | `MCAuditVerify`, `AuditReplicas` | two Postgres replicas, crashes, no failing call, the verify endpoint beside them: the log verifies in every state; a size-capped bundle verifies exactly when it reaches back to the oldest committed row; the endpoint alarms only if a checkpoint lands between its reads |
| `audit_faults` | `MCAuditLog`, `AuditFaults` | with failing appends, signatures and commits: the checkpoint chain is unforked, its tips stored, anchors monotone, rows in order; `AuditLog` implements `AnchoredLog` |
| `audit_liveness` | `MCAuditLog`, `AuditLiveness` | an accepted event is stored unless its replica goes away |
| `audit_sqlite` | `MCAuditLog`, `AuditSqlite` | one process: a shutdown anchors the last entry, Merkle roots cover their batch over restarts |
| `resilience` | `MCResilience`, `Resilience` | trips, never duplicates, probes, recovers |
| `proxy` | `MCProxyPipeline`, `Proxy` | the data path's safety and liveness |
| `auth_serial` | `MCAuth`, `AuthSerial` | one request at a time: single use, deletion, lockout; one of two users has a name JSON escapes |
| `auth_concurrent` | `MCAuth`, `AuthConcurrent` | concurrent handlers, two names that differ in case: revocation is final, no late replay |
| `background` | `MCBackground`, `Background` | findings, whatever interleaves and crashes: every row has its scan, one row per finding, a triage is lost only to a handler that held the row or to a crash in the migration, no alert without its snapshot, nothing is lost; one at a time: the posture is the worst the last probe saw, a critical or high path is alerted once. Posture, interleaved: every breach is alerted once, tickets exist, no alert leaves an air-gapped gateway; taking turns: history without repeats, audited and alerted, the SLO judges its own scan, every resolution alerted once, terminal tickets are left alone. Estate, overlapping: certificates recorded before they are named, status is the worst service, counters add up; undisturbed: a marker is served and survives re-scans, deleted targets are gone |
| `desktop` | `MCDesktop`, `Desktop` | the client sees its own writes, runs one network operation and reads its result, its simulation is the one ticked, tabs and terminal stay sound, a revoked certificate stays revoked, the scan button returns, the last probe resolves |
| `decisions` | `MCDecisions`, `Decisions` | the pure parts over bounded inputs: properties that compare a result with a reference or relate the results for two inputs, and the two machines `RateLimiter` and `CryptoPolicies` |
| `decisions_rescan` | `MCDecisions`, `DecisionsRescan` | violation: after its posture changed an asset has two findings of one check; `qw-store/src/lib.rs:1058` "so a changed posture updates the same row" |

Properties that belong together are checked as one conjunction; a cfg names the
whole, and each part is a definition of its own with its comment:

| Property | About | Parts |
|---|---|---|
| `Verifiable` | an honest log verifies whole, and exported in part unless the limit cuts off a committed row | `LogVerifies`, `ExportVerdict` |
| `OrderKept` | rows keep their order and checkpoints keep every writer | `StoredInOrder`, `AnchorsKeepWriters` |
| `BooksAreKept` | counts and audit rows match what the requests did | `PipelineTypeOK`, `TrafficCounted`, `AnswerIsAudited` |
| `CredentialsAreSound` | a one-time credential is spent once | `AuthTypeOK`, `PendingUsedOnce`, `BackupCodeUsedOnce` |
| `FindingsAreSound` | rows agree with scans and triage | `FindingsTypeOK`, `FindingHasScan`, `OneRowPerFinding`, `TriageKept`, `RowIsLastLook` |
| `DriftIsAlerted` | no path is invented; one at a time, no critical or high one is missed or repeated | `AlertedOnce`, `AlertHasSnapshot` |
| `PostureIsTold` | history, events and alerts tell one story | `PostureTypeOK`, `HistoryHasNoRepeats`, `HistoryIsAudited`, `DropsAreAlerted`, `SloJudgesOwnScan`, `BreachesAreAlerted` |
| `TicketsAreTrue` | tickets match the tracker, an end is alerted once | `TicketIsReal`, `ResolutionAlertedOnce`, `AlertsStayInside` |
| `EstateIsSound` | rows, listeners, certificates and counters agree | `EstateTypeOK`, `MarkerIsServed`, `DeletedIsGone`, `CertIsRecorded`, `StatusIsWorst`, `CountersAddUp` |
| `NothingIsUndone` | steps that lose a row, re-open a ticket or take a marker away | `FindingsStay`, `TerminalIsFinal`, `MarkersStay` |
| `WindowIsTrue` | what the client shows is what it did | `DesktopTypeOK`, `ViewShowsOwnWrites`, `OneNetOp`, `SimulationIsCurrent`, `TabsAreSound`, `ConsoleIsTail` |
| `WorkEnds` | started work comes to an end | `RevokedStays`, `ScanButtonReturns`, `LastProbeResolves` |
| `TreesAreSound` | roots and proofs stand for one batch | `RootBindsBatch`, `ProofsAreSound` |
| `ScannersAreSound` | classifiers agree, packet readers stay inside | `CertViewsAgree`, `ReadsStayInside`, `PqcKexNeverHurts`, `OverwrittenIsKnown`, `StableChecksAreReplaced`, `PortsAreIndependent`, `CodeRowsCoverPatterns`, `NewestAreMonitored` |
| `PoliciesAreKept` | drift, tickets and enforcement of the crypto-agility policies | `DriftAddsUp`, `NoTicketIsLost`, `EnforcementIsComplete`, `AgilityGlobIsExact`, `DefaultPoliciesCover` |
| `ConclusionsAgree` | scores, plans, gates and reports agree | `PlansCoverTheRoadmap`, `PostureIsConsistent`, `RoadmapIsComplete`, `GateIsMonotone`, `RiskRanksTheWork`, `SafeguardsCloseGaps` |
| `GraphIsSound` | paths, simulation and suppression | `GraphIsClosed`, `PathIdsAreUnique`, `SimulationIsSafe`, `SuppressedIsSilent`, `ListedIsExploitable` |
| `AccessIsSound` | roles, routes, policies and admission | `OneStarIsAWildcard`, `BlockingNeverGrants`, `StrongerIsNeverWorse`, `ChangesAreTracked`, `RolesAreALadder`, `AdmissionIsRecorded` |
| `BudgetIsExact` | neither more nor less than the budget, but for what pruning and overtaking give | `WithinBudget`, `OnlySlowBucketsAreForgotten`, `DenialIsEarned` |

Further configurations are kept as records of disagreements between code and
documents. Each makes TLC refute the one property it names:

| cfg (module) | Property | What happens |
|---|---|---|
| `AuditAppendFailure` (`MCAuditLog`) | `LogVerifies` | the chain advances before the INSERT; one that fails leaves a gap for good; `docs/SOC2.md:51` "stays verifiable" |
| `AuditShutdownRace` (`MCAuditLog`) | `FinalStateAnchored` | a final commit that loses the race is ignored; `logger.rs:176` "Anchor the final state before exiting" |
| `ResilienceStraggler` (`MCResilience`) | `RejectedDuringCooldown` | a late success closes an open circuit; `resilience.rs:27` "rejected until the cooldown elapses" |
| `ProxyBufferedThreat` (`MCProxyPipeline`) | `BufferedBlocks` | the buffered path forwards a response it found a threat in; `proxy_stream.rs:4` "lets it block a bad response before any byte reaches the client" |
| `ProxyStreamHash` (`MCProxyPipeline`) | `StreamHashCoversBody` | with scanning off the audited hash of a stream covers no byte; `proxy_stream.rs:88` "using the bytes we actually saw" |
| `AuthPendingRace` (`MCAuth`) | `PendingUsedOnce` | SELECT and DELETE are two statements; `lib.rs:1334` "single-use" |
| `AuthDeleteRace` (`MCAuth`) | `DeletedIsRevoked` | a handler that read the row before the deletion writes it back; `users_api.rs:221` "access is revoked immediately" |
| `AuthSerial` (`MCAuth`), without `u \notin Escaped` in the property | `DeletedIsRevoked` | the sessions of a name that JSON escapes are not found by `LIKE` and outlive the user; the same line |
| `AuthLoginLog` (`MCAuth`), with this property instead | `RoleChangeRevokes` | `update_user` leaves sessions alone; `lib.rs:1347` says they are revoked when the role changes |
| `AuthLoginLog` (`MCAuth`) | `LoginIsLogged` | logins by second factor, enrolment or OIDC log no `LoginSucceeded`; `docs/SOC2.md:42` |
| `FindingsSingleUpgrade` (`MCBackground`) | `OneRowPerFinding` | a database without duplicates is not re-keyed, so the next scan stores every finding again; `qw-store/src/lib.rs:1160` "re-keyed by the stable finding id" |
| `FindingsTriageRace` (`MCBackground`) | `TriageSurvives` | a triage between the read and the upsert is overwritten; `qw-store/src/lib.rs:1063` "Preserve triage" |
| `PostureAirGap` (`MCBackground`) | `NothingLeaves` | `remediate_path` and the reconciliation call the integration; `config.rs:62` disables "outbound integration calls" |
| `DesktopProbes` (`MCDesktop`) | `ResultsStillDrain` | a second probe drops the receiver of the first |

**Bounds.** Two writers are enough for a checkpoint race, and every property of
checkpoints relates at most two of them; two events and a batch of two give a
link and an entry in flight over a restart; the SQLite run has four events for
full batches on both sides of one. Three calls and a
threshold of two leave a straggler beside the calls that trip the circuit. Two
requests share a session or a breaker; two chunks let a threat straddle one.
Two users, two tasks and two tokens let every pair of handlers interleave; the
serial run has three tokens, so a whole login, enrolment and second login fit.
Two findings on one port, one of them on a critical path, and two handlers let
any two handlers meet on one row, a re-verification see a neighbour's posture, and
leave a path that is not alerted; three operations are a scan, a triage and a
re-scan. Two tenants share the cache, two scores and two numbers of
assets let either change alone, three rounds are a ticket, its
resolution and the round after; interleaved, two rounds meet at every pair of
steps. Two targets, one of them a demo, three addresses and three requests let
a protection, a deletion and a sweep overlap before a restart. The desktop run
explores one group of pages at a time (`Foci`), four clicks each. Inputs of
`decisions` are small enough to be enumerated: estates of four things, packets
of a few lengths, all combinations of settings, batches of up to seven leaves
(two odd levels). The rate limiter's part has two threads that may overtake
each other, a login class that fills up more slowly than the API class, as with
the default limits, and a table at its ceiling. Governance has inventories of 2
and of 2000 findings, around the point where the score is rounded up. Handlers,
threads and certificates that are alike are symmetric.
The proofs remove the bounds for the results they cover.

**Fairness.** `AuditLog`: weak fairness of a writer's own steps (tokio polls a
spawned task); none of events, commands, crashes or restarts. `Resilience`:
weak fairness of time, of the end of a backoff and of new requests (the
property is about a provider in use), strong fairness of outcomes, because the
HTTP client's timeouts end every attempt and not every client can be assumed to
leave before its answer. `ProxyPipeline`: weak fairness of each request's next
step; the upstream call ends by a timeout at the latest. `Desktop`: weak fairness
of frames, which workers request when they are done, and of the workers, whose
calls have timeouts; none of clicks or of the gateway. Deadlock is off where
the bounded inputs end (`ProxyPipeline`, `background`, `desktop`, `decisions`);
`AuditLog` has an explicit `Quiescent` step instead, so that a stuck writer is a
deadlock.

## 4. Proofs

The theorems hold for every value of the constants that the `ASSUME`s of the
modules allow: any number of replicas, calls, requests, users, findings,
tenants, targets or clicks, any bounds, thresholds and batch sizes, `Faults` of
any kind unless the theorem excludes one. Each rests on an inductive invariant;
the lemmas show that the initial states satisfy it, that each action keeps it
(one lemma or step per action) and that it implies the property.

| Theorem | Says | Invariant |
|---|---|---|
| `AuditLogProofs!TypeCorrect` | `Spec => []TypeOK` | itself |
| `CheckpointChainHolds`, `CommittedTipsStoredHolds`, `AnchorsMonotoneHolds` | the checkpoint properties, for any writers, faults and crashes | `CheckpointInv` |
| `ImplementsAnchoredLogHolds` | `Spec => Anchored!ASpec`, with `log <- entries`, `anchors <- checkpoints` | every step maps to `Add`, `Anchor` or a stutter, from `CheckpointInv` |
| `StoredChainsIntactHolds` | stored chains verify, if appends and `writer_tip` do not fail | `ChainInv` |
| `AuditVerifyProofs!OrderKeptHolds` | rows are in the order of their events and checkpoints keep every writer, if `writer_tip` does not fail | `OrderInv`, `KeepInv` |
| `FinalStateAnchoredHolds` | SQLite: a shutdown anchors the last row, if commits do not fail | `FinalInv` |
| `RootCoversBatchHolds` | a Merkle root covers exactly its batch, over crashes, if appends and `writer_tip` do not fail | `ChainInv`, `BatchInv` |
| `VerifiableHolds` | the log verifies in every state, and a bundle exactly when it holds every committed row, if appends, `writer_tip` and checkpoint signatures do not fail | `ReaderInv` |
| `AlarmOnlyWhenRacedHolds` | on a log within the cap, the verify endpoint alarms only if a checkpoint lands between its reads; same faults excluded | `VerdictInv` |
| `ProxyProofs!ResilienceTypeCorrect`, `TrippedWhenDownHolds`, `NeverDuplicatedHolds` | for any number of calls, thresholds and retries | `TrippedWhenDown` is inductive with the types; `TriedAtMostOnce` strengthens `NeverDuplicated` |
| `ResilienceInPipeline` | the last two, inside the proxy | `BreakerInv` |
| `ForwardedIsApprovedHolds`, `ThreatIsWithheldHolds`, `BooksAreKeptHolds` | the safety of the data path, for any concurrent requests and streams of any length | `PipelineInv` |
| `AuthProofs!RevokedStaysRevokedHolds` | a deleted session never comes back, for any users, tokens and handlers | `RevocationInv` |
| `AuthTypeCorrect`, `NoLateReplayHolds` | tables stay well formed; a credential presented after it was accepted is refused; any concurrent handlers | `AuthInv` |
| `CredentialsAreSoundHolds`, `DeletedIsRevokedHolds`, `LockedAtThresholdHolds` | single use, deletion (of a name that JSON does not escape) and lockout, one request at a time (`OneAtATime`) | `OnceInv`, `CodesInv`, `DeletionInv`, `LockInv` |
| `FindingsProofs!DriftIsAlertedHolds` | no alert without its snapshot; handled one at a time, exactly one per snapshot a critical or high path newly appears in, but for those a crash cuts off | `CoreInv`, `DriftInv` |
| `FindingsAreSoundHolds`, `FindingsStayHolds` | rows agree with scans and triage, nothing is lost, on every port layout; started on the origin `single` only the scan of a row is promised (`FindingsSingleUpgrade` refutes the rest) | `TableInv`: `CoreInv` and, for the other origins, `SoundInv` |
| `PostureProofs!PostureIsToldHolds` | the five records of a scan tell one story: breaches and their alerts whatever interleaves, the others while scans take turns | `PostureInv` |
| `TicketsAreTrueHolds`, `TerminalIsFinalHolds` | tickets match the tracker, an end is alerted once; only a webhook re-opens a ticket | `PostureInv` |
| `EstateProofs!EstateIsSoundHolds` | certificates are recorded before a row names them, the posture is the worst service, counters add up, whatever overlaps; on a target that no overlap or crash disturbed a marker is served and a deletion leaves nothing to bind | `EstateInv` |
| `MarkersStayHolds` | a request that has its target for itself takes no protection marker from a port that stays exposed | `EstateInv` |
| `DesktopProofs!WindowIsTrueHolds` | own writes are shown, one network operation whose message is read, the simulation is the one ticked, tabs and terminal are sound, for any clicks, workers and restarts | `DesktopInv` |
| `RevokedStaysHolds` | a revoked certificate stays revoked, whoever writes | `DesktopInv` |

Why the invariants are what they are:

- `CheckpointInv`: no lock orders committers, so it speaks about drafts. A draft
  follows a committed checkpoint and every smaller number is taken (`Follows`):
  whoever commits first makes the others' INSERT fail on the primary key instead
  of forking the chain. Its tips are stored and not older than those of any
  smaller checkpoint (`Covers`), because the latest checkpoint is read before
  the tips and tables only grow. `KeepInv` is the same for the writers a
  checkpoint names.
- `ChainInv`: the chain in memory continues the stored one, by way of the entry
  in flight; a crash forgets both and `writer_tip` finds the continuation again.
  `OrderInv` orders events along rows, entry in flight and channel; `BatchInv`
  says that the batch in memory is the tail of the rows since the last root;
  `ReaderInv` adds the index of rows and that checkpoints are signed, which is
  all that verification of a whole log or of an export needs. `VerdictInv` ties
  what the endpoint read first to what it may read later.
- `TriedAtMostOnce`: a call that is still being tried has not reached the
  upstream; only errors from which it may have end it. In the pipeline a request
  may be admitted and never sent; each step is a step of `Resilience`, a stutter
  or such an admission. `PipelineInv` relates a request's stage to the verdicts
  and audit rows it has, and counts sessions and flows by the requests behind
  them (finitely many: `IsFiniteSet(Calls)`).
- `RevocationInv`: sessions and revoked sessions carry tokens that were drawn,
  so a new session's token is in neither, and touch updates a row but never
  inserts one. `TokenInv`, part of `AuthInv`, extends this to challenges, OIDC
  states and what handlers hold. With one handler at a time, `OnceInv` and
  `CodesInv` say that what a handler is about to accept was never accepted,
  `DeletionInv` how far a deletion has come, `LockInv` that failures are counted
  or the account is locked. Concurrent handlers break these four; the
  configurations `AuthPendingRace` and `AuthDeleteRace` show how.
- `SoundInv`: wherever a row is (table, the copies a migration keeps, a
  handler's hands), it names a stored scan, has the stable id and, with handlers
  one at a time, the last triage and posture, through each phase of the start.
  `DriftInv` counts alerts against snapshots and handlers that have yet to alert.
- `PostureInv`: what is due. Between two statements the records disagree by
  exactly what the task at work still has to write: the audit event
  (`AuditDue`), the drop alert (`DropDue`), the alert of a resolution
  (`Resolving`). Taking turns there is one such task (`OneAwake`); breaches are
  counted over all tasks (`BreachInv`) and hold when they interleave.
- `EstateInv`: a handler that is alone on its target holds the row that is
  stored (`AloneOK`), so writing it back loses nothing. Between binding a route,
  marking the row and storing the route the three disagree by the step at work:
  a bound route is served until it is recorded (`BoundOK`), markers are those of
  stored routes but for the one being recorded or deleted (`MarkedOK`), a listed
  route is stored or being recorded (`IdsOK`). Overlaps and crashes break these
  three, which is why they speak of undisturbed targets. A route's counters
  count its live connections, and apart the ones still in the handshake
  (`CountOK`), whose outcome is not counted yet.
- `DesktopInv`: there is at most one network job, it sends to the receiver that
  waits, and while it runs no message waits (`NetOK`): this is why a poll that
  drops the receiver loses nothing, and why a click may replace it only when
  idle. A job past its first read has a connection's row, which it writes back.
  A graph was built with its overrides unless the next sync is forced
  (`GraphFine`); each operation on the tabs keeps them distinct and leaves one
  (`TabsFine`, with lemmas about the retained, removed and inserted elements of
  a sequence); lines of the terminal end at the number printed (`IsTail`), over
  commands, captures, trimming and clearing. For `RevokedStays`, every write of
  the store leaves the certificates, appends one or revokes one (`CertStep`).

Assumptions are the named `ASSUME`s of the modules: types of the bounds,
finiteness of `Calls`, `Keys`, `Jobs`, `Tenants` and the connections of `Estate`
where something is counted (the code keeps them in tables and lists); for `Auth`,
that config and runtime users and tokens and codes are apart, and that names
which differ only in case are not among those JSON escapes; for `Estate`, that
ids, ports and addresses are naturals other than 0, which stands for none; for
`Desktop`, that hosts and assets have different ids, that there is an overview
page and that the terminal keeps a line.

Left to TLC: liveness under fairness (`AcceptedIsStored`, `ProbeGoesOut`,
`Recovers`, `EveryRequestEnds`, `WorkEnds`), which the prover does not support;
`BudgetIsExact`, whose reference adds up grants with a fold, and the properties
of `MCDecisions` on recursive definitions (Merkle trees, graphs, plans), which
need induction over data; `NothingIsUndone` as a whole, which is about three
modules side by side and whose parts `FindingsStay`, `TerminalIsFinal` and
`MarkersStay` are proved each for its own module. Of `WorkEnds` the safety part
`RevokedStays` is proved.

## 5. Not modelled

The components of `PROJECT.json` with status `not_modelled`, each with its
reason: issue-tracker clients, provider adapters, CBOM documents, configuration
files, the command line, dashboard and SDKs are I/O and formatting; the threat
monitor is text classification, whose verdict is an input of `ProxyPipeline`;
cryptographic primitives are assumed (hashes injective, signatures fail or
verify). The cloud and connection APIs read a row, call out and write it back
like the desktop client's, which is modelled. In the modelled parts: metrics,
log wording, JSON shapes and HTTP status codes; the legacy single-file audit
verifier; API keys (compared, never written); the arithmetic of TOTP; durations
of backoffs; X.509 and DER encodings; the signature of a webhook; texts, costs
and efforts of plans; layout, filters and sort orders of the desktop's tables.

## 6. Plan

1. The connection and cloud APIs beside `Desktop`, as a second writer that runs
   the same read, call and write.
2. The admin layer as a composition: `RateLimiter`, `Auth` and the decision of
   `Access` for one request.
3. Of `BudgetIsExact`, the bound on one bucket between two refills, stated
   without the fold over grants, so that it can be proved.
