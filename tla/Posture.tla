------------------------------- MODULE Posture -------------------------------
(***************************************************************************)
(* What follows a scan (qw-gateway, background.rs): the posture cache and  *)
(* history, the audit event and the alerts of a change, the SLO check, the *)
(* governance trend; the tasks that scan (the scan at the start, the       *)
(* scheduler over all tenants, a tenant's own schedule, a request of the   *)
(* admin API); the remediation tickets, opened by a request and reconciled *)
(* by the schedules (admin/remediation.rs) and by the webhooks of the      *)
(* integrations (admin/webhooks.rs); and the evidence delivery.            *)
(* The tasks share one posture cache and the tables, and interleave at     *)
(* every await and every statement.                                        *)
(*                                                                         *)
(* Abstractions: a scan is the score it leads to and the assets it counts; *)
(* the rows it stores and the graph snapshot are those of Findings; a      *)
(* tenant has at most one ticket, and "open" stands for Open and InProgress; there is one SLO, on *)
(* posture, and a declared crypto policy.                                  *)
(***************************************************************************)
EXTENDS Naturals, Sequences, FiniteSets, SequencesExt

CONSTANTS
    Tenants,      \* orgs with data or configuration
    Default,      \* DEFAULT_TENANT
    Own,          \* the tenants with a schedule of their own
    Scores,       \* posture scores
    AssetCounts,  \* numbers of assets that a scan finds
    Drop,         \* alerts.posture_drop_threshold
    Floor,        \* threshold of the SLO
    Channels,     \* 0 or 1 alert channels
    AirGaps,      \* which values of config.air_gapped to explore
    TurnModes,        \* TRUE: tasks take turns; FALSE: they interleave
    MaxRounds,    \* bound: rounds of the tasks together, taking turns
    MaxInterleaved    \* bound: rounds of the tasks together, interleaving

ASSUME PostureAssumption ==
    /\ IsFiniteSet(Tenants) /\ Default \in Tenants /\ Own \subseteq Tenants
    /\ Scores \subseteq Nat /\ AssetCounts \subseteq Nat /\ Drop \in Nat \ {0} /\ Floor \in Nat
    /\ Channels \in 0..1 /\ AirGaps \subseteq BOOLEAN /\ TurnModes \subseteq BOOLEAN /\ MaxRounds \in Nat /\ MaxInterleaved \in Nat

VARIABLES
    turns,      \* tasks take turns
    airGapped,   \* config.air_gapped
    paused,      \* tenants whose settings say scanning_paused
    cache,       \* state.posture_cache: [tenant, score], or none
    history,     \* the posture table of each tenant: [score, assets]
    changed,     \* PostureChanged events of each tenant: <<previous, new>>
    slo,         \* slo_snapshots of each tenant: [score, failing, scan]
    governance,  \* rows of governance_snapshots of each tenant
    notices,      \* the alerts table: [fired (number of each kind), newest] of each tenant
    outside,     \* auxiliary: what left the gateway although it is air-gapped
    ticket,      \* remediations: the stored status of each tenant's ticket
    remote,      \* the status of that ticket at the integration
    resolutions, \* auxiliary: how often it was stored as resolved, having been something else
    task,        \* [at, tenant, score, assets, prev, todo, status] of each task
    rounds

fixed == <<turns, airGapped>>
postureTables == <<history, slo, governance, notices, outside, ticket>>
postureVars == <<fixed, paused, cache, postureTables, changed, remote, resolutions, task, rounds>>

Tasks == {"startup", "scheduler", "schedule", "request", "webhook"}
NoScore == [tenant |-> "none", score |-> 0]
Asleep == [at |-> "asleep", tenant |-> "none", score |-> 0, assets |-> 0, prev |-> << >>,
           todo |-> << >>, status |-> "none"]

In(k, pc) == task[k].at = pc
Move(k, pc) == task' = [task EXCEPT ![k].at = pc]

Turn(k) == turns => \A m \in Tasks \ {k} : task[m].at \in {"asleep", "new"}

\* A tick of a schedule, a request, or the one scan at the start.
Wakes(k, state) ==
    /\ In(k, IF k = "startup" THEN "new" ELSE "asleep") /\ Turn(k)
    /\ rounds < IF turns THEN MaxRounds ELSE MaxInterleaved
    /\ rounds' = rounds + 1
    /\ task' = [task EXCEPT ![k] = state]

-----------------------------------------------------------------------------
(* Alerts. *)

\* What goes to an integration, a channel or a sink leaves the gateway.
Leaves(what) == outside' = IF airGapped THEN outside \cup what ELSE outside

Kinds == {"test", "posture_drop", "slo_breach", "new_critical", "remediation_resolved"}

\* The kinds whose alerts are counted; of the others only the newest is kept.
Counted == {"posture_drop", "slo_breach", "remediation_resolved"}

\* fire: the alert goes to the channels it may go to, each of which may fail.
Delivered == IF airGapped THEN {0} ELSE 0..Channels

\* fire: the alert is recorded, with the number of deliveries.
Fire(t, kind) ==
    \E d \in Delivered :
        /\ notices' = [notices EXCEPT ![t].fired[kind] = IF kind \in Counted THEN @ + 1 ELSE @,
                                            ![t].newest = kind]
        /\ Leaves(IF d > 0 THEN {"alert"} ELSE {})

NoAlert == UNCHANGED <<notices, outside>>

-----------------------------------------------------------------------------
(* The tasks. *)

\* spawn, the scheduled loop: all_tenants, in order.
SchedulerTicks ==
    /\ Wakes("scheduler", [Asleep EXCEPT !.at = "next", !.todo = SetToSeq(Tenants)])
    /\ UNCHANGED <<fixed, paused, cache, postureTables, changed, resolutions, remote>>

\* The pause switch of a tenant's settings, which the scheduler respects.
Skips(t) == t \in paused

\* The next tenant of the scheduler: skipped, or scanned; after the last, the tickets.
SchedulerNext ==
    /\ In("scheduler", "next")
    /\ LET todo == task["scheduler"].todo
       IN  task' = [task EXCEPT !["scheduler"] =
                      IF todo = << >> THEN [Asleep EXCEPT !.at = "tickets", !.todo = SetToSeq(Tenants)]
                      ELSE [@ EXCEPT !.todo = Tail(todo), !.tenant = Head(todo),
                                     !.at = IF Skips(Head(todo)) THEN "next" ELSE "scan"]]
    /\ UNCHANGED <<fixed, paused, cache, postureTables, changed, resolutions, remote, rounds>>

\* spawn, the scan shortly after the start.
StartupScan(t) ==
    /\ Wakes("startup", [Asleep EXCEPT !.at = "scan", !.tenant = t])
    /\ UNCHANGED <<fixed, paused, cache, postureTables, changed, resolutions, remote>>

\* spawn, the schedule of a tenant.
ScheduleTicks(t) ==
    /\ Wakes("schedule", [Asleep EXCEPT !.at = "scan", !.tenant = t])
    /\ UNCHANGED <<fixed, paused, cache, postureTables, changed, resolutions, remote>>

\* trigger_scan.
TriggerScan(t) ==
    /\ Wakes("request", [Asleep EXCEPT !.at = "scan", !.tenant = t])
    /\ UNCHANGED <<fixed, paused, cache, postureTables, changed, resolutions, remote>>

\* put_settings.
PutSettings(t) ==
    /\ Wakes("request", Asleep)
    /\ paused' = (paused \cup {t}) \ (paused \cap {t})
    /\ UNCHANGED <<fixed, cache, postureTables, changed, resolutions, remote>>

\* deliver_evidence, on its own ticker: the pack of each tenant goes to the sink.
DeliverEvidence ==
    /\ ~airGapped
    /\ Leaves({"evidence"})
    /\ UNCHANGED <<fixed, paused, cache, history, slo, governance, notices, ticket, changed, resolutions, remote, task, rounds>>

\* test_alert: fire, then what the newest alert says of its delivery.
TestAlert(t) ==
    /\ Wakes("request", [Asleep EXCEPT !.at = "report", !.tenant = t])
    /\ Fire(t, "test")
    /\ UNCHANGED <<fixed, paused, cache, history, slo, governance, ticket, changed, resolutions, remote>>

ReportTest ==
    /\ In("request", "report")
    /\ task' = [task EXCEPT !["request"] = [Asleep EXCEPT !.status = notices[task["request"].tenant].newest]]
    /\ UNCHANGED <<fixed, paused, cache, postureTables, changed, resolutions, remote, rounds>>

-----------------------------------------------------------------------------
(* run_full_scan and recompute_and_snapshot. *)

\* What follows a task's scan: the next tenant, the tickets, or nothing.
AfterScan(k) ==
    CASE k = "scheduler" -> [Asleep EXCEPT !.at = "next", !.todo = task[k].todo]
      [] k = "schedule" -> [Asleep EXCEPT !.at = "tickets", !.todo = <<task[k].tenant>>]
      [] OTHER -> Asleep

\* The targets are scanned; the summary gives a score and a number of assets, and
\* the last score is read.
ScanTargets(k) ==
    /\ In(k, "scan")
    /\ \E s \in Scores, a \in AssetCounts :
          task' = [task EXCEPT ![k].at = "cache", ![k].score = s, ![k].assets = a,
                               ![k].prev = IF history[task[k].tenant] = << >> THEN << >>
                                           ELSE <<Last(history[task[k].tenant]).score>>]
    /\ UNCHANGED <<fixed, paused, cache, postureTables, changed, resolutions, remote, rounds>>

\* The one posture cache, whatever tenant was scanned.
WriteCache(k) ==
    /\ In(k, "cache")
    /\ cache' = [tenant |-> task[k].tenant, score |-> task[k].score]
    /\ Move(k, "history")
    /\ UNCHANGED <<fixed, paused, postureTables, changed, resolutions, remote, rounds>>

\* record_posture: a snapshot with the score and the number of assets of the last
\* one is not stored.
Skipped(t, s, a) == history[t] # << >> /\ Last(history[t]) = [score |-> s, assets |-> a]

ComparePosture(k) ==
    /\ In(k, "history")
    /\ Move(k, IF Skipped(task[k].tenant, task[k].score, task[k].assets) THEN "audit" ELSE "insert")
    /\ UNCHANGED <<fixed, paused, cache, postureTables, changed, resolutions, remote, rounds>>

InsertPosture(k) ==
    /\ In(k, "insert")
    /\ history' = [history EXCEPT ![task[k].tenant] = Append(@, [score |-> task[k].score, assets |-> task[k].assets])]
    /\ Move(k, "audit")
    /\ UNCHANGED <<fixed, paused, cache, slo, governance, notices, outside, ticket, changed, resolutions, remote, rounds>>

IsChange(prev, s) == prev # << >> /\ prev[1] # s

\* A score that differs from the one read before is audited.
AuditChange(k) ==
    /\ In(k, "audit")
    /\ LET prev == task[k].prev  s == task[k].score  t == task[k].tenant
       IN  changed' = IF IsChange(prev, s) THEN [changed EXCEPT ![t] = Append(@, <<prev[1], s>>)] ELSE changed
    /\ Move(k, "drop")
    /\ UNCHANGED <<fixed, paused, cache, postureTables, resolutions, remote, rounds>>

\* Mutant: the threshold itself does not count.
MutIsDrop(prev, s) == prev # << >> /\ prev[1] > s + Drop

IsDrop(prev, s) == prev # << >> /\ prev[1] >= s + Drop

\* A drop of at least the threshold is alerted.
AlertDrop(k) ==
    /\ In(k, "drop")
    /\ \/ IsDrop(task[k].prev, task[k].score) /\ Fire(task[k].tenant, "posture_drop")
       \/ ~IsDrop(task[k].prev, task[k].score) /\ NoAlert
    /\ Move(k, "slo")
    /\ UNCHANGED <<fixed, paused, cache, history, slo, governance, ticket, changed, resolutions, remote, rounds>>

\* check_and_alert: the SLO is evaluated on the cache and recorded.
CheckSlo(k) ==
    /\ In(k, "slo")
    /\ LET t == task[k].tenant  failing == cache.score < Floor
       IN  /\ slo' = [slo EXCEPT ![t] = Append(@, [score |-> cache.score, failing |-> failing,
                                                  scan |-> task[k].score])]
           /\ Move(k, IF failing THEN "breach" ELSE "governance")
    /\ UNCHANGED <<fixed, paused, cache, history, governance, notices, outside, ticket, changed, resolutions, remote, rounds>>

\* check_and_alert: a breach is alerted.
AlertBreach(k) ==
    /\ In(k, "breach")
    /\ Fire(task[k].tenant, "slo_breach")
    /\ Move(k, "governance")
    /\ UNCHANGED <<fixed, paused, cache, history, slo, governance, ticket, changed, resolutions, remote, rounds>>

\* record_snapshot of governance, with a policy declared.
RecordGovernance(k) ==
    /\ In(k, "governance")
    /\ governance' = [governance EXCEPT ![task[k].tenant] = @ + 1]
    /\ Move(k, "critical")
    /\ UNCHANGED <<fixed, paused, cache, history, slo, notices, outside, ticket, changed, resolutions, remote, rounds>>

\* evaluate_findings_alerts: the results hold something critical, or not.
AlertFindings(k) ==
    /\ In(k, "critical")
    /\ Fire(task[k].tenant, "new_critical") \/ NoAlert
    /\ task' = [task EXCEPT ![k] = AfterScan(k)]
    /\ UNCHANGED <<fixed, paused, cache, history, slo, governance, ticket, changed, resolutions, remote, rounds>>

-----------------------------------------------------------------------------
(* Remediation tickets. *)

Terminal == {"resolved", "closed"}

\* remediate: refused when air-gapped; the ticket is opened at the integration.
Remediate(t) ==
    /\ ~airGapped /\ remote[t] = "none"
    /\ Wakes("request", [Asleep EXCEPT !.at = "ticket", !.tenant = t])
    /\ remote' = [remote EXCEPT ![t] = "open"]
    /\ Leaves({"ticket"})
    /\ UNCHANGED <<fixed, paused, cache, history, slo, governance, notices, ticket, changed, resolutions>>

\* remediate_path: the same from an attack path, air-gapped or not.
RemediatePath(t) ==
    /\ remote[t] = "none"
    /\ Wakes("request", [Asleep EXCEPT !.at = "ticket", !.tenant = t])
    /\ remote' = [remote EXCEPT ![t] = "open"]
    /\ Leaves({"ticket"})
    /\ UNCHANGED <<fixed, paused, cache, history, slo, governance, notices, ticket, changed, resolutions>>

\* record_remediation.
RecordTicket ==
    /\ In("request", "ticket")
    /\ ticket' = [ticket EXCEPT ![task["request"].tenant] = "open"]
    /\ task' = [task EXCEPT !["request"] = Asleep]
    /\ UNCHANGED <<fixed, paused, cache, history, slo, governance, notices, outside, changed, resolutions, remote, rounds>>

\* The ticket is resolved, closed or opened again.
TicketMoves(t, s) ==
    /\ remote[t] # "none" /\ (remote[t] = "open") = (s \in Terminal)
    /\ remote' = [remote EXCEPT ![t] = s]
    /\ UNCHANGED <<fixed, paused, cache, postureTables, changed, resolutions, task, rounds>>

\* sync_remediations.
SyncRemediations(t) ==
    /\ Wakes("request", [Asleep EXCEPT !.at = "tickets", !.todo = <<t>>])
    /\ UNCHANGED <<fixed, paused, cache, postureTables, changed, resolutions, remote>>

\* The stored tickets with the id of the event and another status: tenants are
\* searched in turn and the first match is taken (in which order is left open);
\* `same' says that their tickets share the id (two repositories number their
\* pull requests alike).
Addressed(t, s, same) ==
    {u \in Tenants : (same \/ u = t) /\ ticket[u] \notin {"none", s}}

\* update_ticket, for an event of the integration about t's ticket: what the
\* ticket is now, or a late one of when it was opened or worked on.
Webhook(t, s, same) ==
    /\ remote[t] # "none" /\ s \in {remote[t], "open"}
    /\ \E u \in Addressed(t, s, same) :
          Wakes("webhook", [Asleep EXCEPT !.at = "save", !.tenant = u, !.status = s])
    /\ UNCHANGED <<fixed, paused, cache, postureTables, changed, resolutions, remote>>

\* A ticket that sync_ticket_status asks about.
Unsettled(t) == ticket[t] \notin {"none"} \cup Terminal

\* sync_ticket_status: the tickets of the next tenant are listed.
ListTickets(k) ==
    /\ In(k, "tickets")
    /\ LET todo == task[k].todo
       IN  task' = [task EXCEPT ![k] =
                      IF todo = << >> THEN Asleep
                      ELSE [@ EXCEPT !.todo = Tail(todo), !.tenant = Head(todo), !.status = ticket[Head(todo)],
                                     !.at = IF Unsettled(Head(todo)) THEN "ask" ELSE "tickets"]]
    /\ UNCHANGED <<fixed, paused, cache, postureTables, changed, resolutions, remote, rounds>>

\* remediation_status answers with a new status, or it fails or is the same.
AskStatus(k) ==
    /\ In(k, "ask")
    /\ \/ /\ remote[task[k].tenant] # task[k].status
          /\ task' = [task EXCEPT ![k].at = "save", ![k].status = remote[task[k].tenant]]
       \/ Move(k, "tickets")
    /\ UNCHANGED <<fixed, paused, cache, postureTables, changed, resolutions, remote, rounds>>

\* The listed ticket is stored with the new status.
SaveStatus(k) ==
    /\ In(k, "save")
    /\ LET t == task[k].tenant
           s == task[k].status
       IN  /\ ticket' = [ticket EXCEPT ![t] = s]
           /\ resolutions' = [resolutions EXCEPT ![t] = IF s = "resolved" /\ ticket[t] # s THEN @ + 1 ELSE @]
           /\ Move(k, IF s = "resolved" THEN "resolved" ELSE "tickets")
    /\ UNCHANGED <<fixed, paused, cache, history, slo, governance, notices, outside, changed, remote, rounds>>

\* Mutant: the alert is left to the next round.
MutAlertResolved(k) ==
    /\ In(k, "resolved")
    /\ Move(k, "tickets")
    /\ UNCHANGED <<fixed, paused, cache, postureTables, changed, resolutions, remote, rounds>>

\* A resolved ticket is alerted.
AlertResolved(k) ==
    /\ In(k, "resolved")
    /\ Fire(task[k].tenant, "remediation_resolved")
    /\ Move(k, "tickets")
    /\ UNCHANGED <<fixed, paused, cache, history, slo, governance, ticket, changed, resolutions, remote, rounds>>

-----------------------------------------------------------------------------
PostureInit ==
    /\ turns \in TurnModes /\ airGapped \in AirGaps /\ outside = {}
    /\ paused \in SUBSET Own
    /\ cache = NoScore
    /\ history = [t \in Tenants |-> << >>] /\ changed = [t \in Tenants |-> << >>]
    /\ slo = [t \in Tenants |-> << >>] /\ governance = [t \in Tenants |-> 0]
    /\ notices = [t \in Tenants |-> [fired |-> [kind \in Kinds |-> 0], newest |-> "none"]]
    /\ resolutions = [t \in Tenants |-> 0]
    /\ ticket = [t \in Tenants |-> "none"] /\ remote = [t \in Tenants |-> "none"]
    /\ task = [k \in Tasks |-> IF k = "startup" THEN [Asleep EXCEPT !.at = "new"] ELSE Asleep] /\ rounds = 0

AfterScanStep(k) ==
    \/ ScanTargets(k) \/ WriteCache(k) \/ ComparePosture(k) \/ InsertPosture(k) \/ AuditChange(k)
    \/ AlertDrop(k) \/ CheckSlo(k) \/ AlertBreach(k) \/ RecordGovernance(k) \/ AlertFindings(k)

TicketStep(k) == ListTickets(k) \/ AskStatus(k) \/ SaveStatus(k) \/ AlertResolved(k)

AdminRequest(t) ==
    \/ TriggerScan(t) \/ PutSettings(t) \/ TestAlert(t) 
    \/ Remediate(t) \/ RemediatePath(t) \/ SyncRemediations(t)

PostureNext ==
    \/ SchedulerTicks \/ SchedulerNext
    \/ StartupScan(Default) \/ \E t \in Own : ScheduleTicks(t)
    \/ DeliverEvidence
    \/ \E t \in Tenants : AdminRequest(t)
    \/ ReportTest \/ RecordTicket
    \/ \E k \in Tasks : AfterScanStep(k) \/ TicketStep(k)
    \/ \E t \in Tenants, s \in Terminal \cup {"open"} : TicketMoves(t, s) \/ \E same \in BOOLEAN : Webhook(t, s, same)

PostureSpec == PostureInit /\ [][PostureNext]_postureVars

-----------------------------------------------------------------------------
(* Properties. *)

Snapshot == [score : Scores, assets : AssetCounts]
TicketStatuses == {"none", "open", "resolved", "closed"}

PostureTypeOK ==
    /\ paused \subseteq Tenants
    /\ history \in [Tenants -> Seq(Snapshot)]
    /\ changed \in [Tenants -> Seq(Scores \X Scores)]
    /\ governance \in [Tenants -> Nat]
    /\ ticket \in [Tenants -> TicketStatuses] /\ remote \in [Tenants -> TicketStatuses]

Fired(t, kind) == notices[t].fired[kind]
Resting == \A k \in Tasks : task[k].at \in {"asleep", "new"}

\* Taking turns, the history of a tenant holds a snapshot only where its score or
\* its number of assets changed (record_posture's comparison with the last row).
HistoryHasNoRepeats ==
    turns => \A t \in Tenants : \A n \in 2..Len(history[t]) : history[t][n] # history[t][n - 1]

\* The steps of a history at which the score changes, and which of them n is.
Changes(h) == {n \in 2..Len(h) : h[n].score # h[n - 1].score}
PlaceIn(C, n) == Cardinality({m \in C : m <= n})

\* Taking turns, the audit log tells the history: its PostureChanged events are,
\* in order, the steps at which the score changed, with the scores on both sides;
\* a step that changes the number of assets alone has none.
HistoryIsAudited ==
    turns /\ Resting
        => \A t \in Tenants :
              LET h == history[t]  C == Changes(h)
              IN  /\ Len(changed[t]) = Cardinality(C)
                  /\ \A n \in C : changed[t][PlaceIn(C, n)] = <<h[n - 1].score, h[n].score>>

\* Taking turns, each step down by the threshold or more raised its alert.
DropsAreAlerted ==
    turns /\ Resting
        => \A t \in Tenants :
              Fired(t, "posture_drop")
                = Cardinality({n \in 2..Len(history[t]) : history[t][n - 1].score >= history[t][n].score + Drop})

\* Taking turns, the SLO check that follows a scan judges that scan: the shared
\* cache still holds the score of the tenant that was scanned.
SloJudgesOwnScan ==
    turns => \A t \in Tenants : \A n \in DOMAIN slo[t] : slo[t][n].score = slo[t][n].scan

\* Even when tasks interleave, every breach that was recorded is alerted once:
\* the breaches of a tenant are those alerted and those a task is about to alert.
BreachesAreAlerted ==
    \A t \in Tenants :
        Cardinality({n \in DOMAIN slo[t] : slo[t][n].failing})
            = Fired(t, "slo_breach") + Cardinality({k \in Tasks : In(k, "breach") /\ task[k].tenant = t})

\* The five records of a scan tell one story.  While the scans take turns, the
\* history, the audit log, the alerts of drops and the SLO verdicts agree, for two
\* tenants that share one posture cache; when they interleave, the SLO verdicts and
\* the alerts of breaches still do, and the rest is not promised.
PostureIsTold ==
    /\ PostureTypeOK /\ HistoryHasNoRepeats /\ HistoryIsAudited
    /\ DropsAreAlerted /\ SloJudgesOwnScan /\ BreachesAreAlerted

\* A stored ticket is one the integration has, whichever of three tasks stored it last.
TicketIsReal == \A t \in Tenants : ticket[t] # "none" => remote[t] # "none"

\* Taking turns, each time a ticket comes to be stored as resolved, by a round
\* of the reconciliation or by a webhook, is alerted exactly once.
ResolutionAlertedOnce ==
    turns /\ Resting => \A t \in Tenants : Fired(t, "remediation_resolved") = resolutions[t]

\* Whatever the tasks do, an air-gapped gateway delivers no alert and no
\* evidence pack (fire and deliver_evidence), and still records its alerts.
AlertsStayInside == outside \cap {"alert", "evidence"} = {}

\* What the gateway says of its tickets is so: each stored ticket exists, whatever
\* interleaves; while tasks take turns, each resolution is alerted once; and no
\* alert or evidence pack leaves an air-gapped gateway.
TicketsAreTrue == TicketIsReal /\ ResolutionAlertedOnce /\ AlertsStayInside

\* config.air_gapped: "outbound integration calls (GitHub/Jira/...)" are
\* disabled and "nothing leaves the enclave".
NothingLeaves == outside = {}

\* Taking turns, only a webhook takes a ticket out of a terminal status: the
\* reconciliation leaves it alone, though the integration may open it again.
TerminalIsFinal ==
    turns => \A t \in Tenants :
        ticket[t] \in Terminal => ticket'[t] = ticket[t] \/ In("webhook", "save")

=============================================================================
