--------------------------- MODULE CryptoPolicies ---------------------------
(***************************************************************************)
(* The crypto-agility policies: what violates a policy (qw-cbom            *)
(* agility.rs), the drift of the violations against the last baseline, and *)
(* their enforcement through a connector (admin/crypto_policies.rs).       *)
(*                                                                         *)
(* No lock is held over an evaluation, so every call of the store is a     *)
(* step.  An enforcement awaits the connector and the audit log for every  *)
(* violation: scans, evaluations and other enforcements run in between,    *)
(* the client may go away, and the gateway may crash.                      *)
(*                                                                         *)
(* A finding is [id, type, category, status, severity, algorithm, location]*)
(* with a rank for its severity, letters for the name of its algorithm and *)
(* the set of the addresses its location contains.  An asset is [address,  *)
(* kind, environment, tags].  A field of a policy that is not set is {}.   *)
(***************************************************************************)
EXTENDS Integers, Sequences, FiniteSets, SequencesExt

CONSTANTS
    Policy,         \* the policy under check: its selector and its match
    Pool,           \* findings a scan may report; those with one id share a row
    Inventory,      \* assets, in the order of the table
    AirGapped,      \* nothing leaves the site
    Handlers,       \* requests that run at one time
    MaxRequests,    \* bound: evaluations and enforcements
    MaxScans        \* bound: scans that change the findings

VARIABLES
    action,         \* open_pr (and, the same to enforce, create_ticket) or alert
    findings,       \* the findings in the store, in the order of the table
    baseline,       \* policy_snapshots: [fingerprints, status], << >> before the first
    handling,       \* what each request in progress is at and holds, << >> for none
    logging,        \* the audit logger takes entries
    filed,          \* external: tickets the connector has opened
    recorded,       \* the remediations table
    audited,        \* AgilityPolicyEnforced entries: what each of them is about
    board,          \* auxiliary: the violations a client knows from the drifts it was sent
    told,           \* auxiliary: the violations some answer has called new
    raced,          \* auxiliary: an evaluation read the baseline before another had answered
    unanswered,     \* auxiliary: opened tickets whose reply was lost
    failed,         \* auxiliary: tickets an answer has listed as errors
    ended,          \* auxiliary: the requests a crash or a client that left cut off
    requests, scans, crashed

policyVars == <<action, findings, baseline, handling, logging, filed, recorded, audited,
                board, told, raced, unanswered, failed, ended, requests, scans, crashed>>
ledger == <<filed, recorded, audited, unanswered, failed>>
drifts == <<baseline, board, told, raced>>
bounds == <<requests, scans, crashed>>

-----------------------------------------------------------------------------
(* What violates a policy. *)

Stars(p) == {i \in DOMAIN p : p[i] = "*"}

\* What split('*') returns: the parts between the stars, empty ones too.
Parts(p) ==
    LET stars == SetToSortSeq(Stars(p), <)
        cuts == <<0>> \o stars \o <<Len(p) + 1>>
    IN  [i \in 1..(Len(cuts) - 1) |-> SubSeq(p, cuts[i] + 1, cuts[i + 1] - 1)]

\* Where the part is found in the text from pos on, -1 if nowhere.
Find(text, pos, w) ==
    LET hits == {i \in pos..(Len(text) - Len(w)) : SubSeq(text, i + 1, i + Len(w)) = w}
    IN  IF hits = {} THEN -1 ELSE CHOOSE i \in hits : \A j \in hits : i <= j

\* One part: where the next one is looked for, -1 when the text does not match.
NextPos(text, pos, w, i, last) ==
    CASE w = << >> \/ pos = -1 -> pos
      [] i = 1 /\ w # << >> -> IF IsPrefix(w, text) THEN Len(w) ELSE -1
      [] i # 1 /\ i = last -> IF IsSuffix(w, SubSeq(text, pos + 1, Len(text))) THEN pos ELSE -1
      [] OTHER -> LET at == Find(text, pos, w) IN IF at = -1 THEN -1 ELSE at + Len(w)

glob_match(p, text) ==
    LET parts == Parts(p)
        step(i, pos) == NextPos(text, pos, parts[i], i, Len(parts))
    IN  IF Stars(p) = {} THEN text = p
        ELSE FoldLeft(LAMBDA pos, i : step(i, pos), 0, [i \in DOMAIN parts |-> i]) # -1

\* The first asset whose address is in the finding's location.
asset_for(f, assets) ==
    LET owners == SelectSeq(assets, LAMBDA a : a.address # "" /\ a.address \in f.location)
    IN  IF owners = << >> THEN {} ELSE {Head(owners)}

selector_matches(sel, f, assets) ==
    /\ sel.asset_types # {} => f.type \in sel.asset_types
    /\ sel.environment # {} \/ sel.kinds # {} \/ sel.tags # {} =>
          \E a \in asset_for(f, assets) :
              /\ \A env \in sel.environment : glob_match(env, a.environment)
              /\ sel.kinds # {} => a.kind \in sel.kinds
              /\ sel.tags \subseteq a.tags

match_matches(m, f) ==
    /\ m.categories # {} => f.category \in m.categories
    /\ m.pqc_status # {} => f.status \in m.pqc_status
    /\ \A g \in m.algorithm_glob : glob_match(g, f.algorithm)
    /\ \A min \in m.min_severity : f.severity >= min

fingerprint(f) == <<f.location, f.category, f.algorithm>>

\* The violations: one finding, the first, for each fingerprint.
evaluate_policy(policy, fs, assets) ==
    LET in == SelectSeq(fs, LAMBDA f : selector_matches(policy.selector, f, assets) /\ match_matches(policy.match, f))
        first(i) == \A j \in 1..(i - 1) : fingerprint(in[j]) # fingerprint(in[i])
        keep == SetToSortSeq({i \in DOMAIN in : first(i)}, <)
    IN  [k \in DOMAIN keep |-> in[keep[k]]]

Everything == [asset_types |-> {}, environment |-> {}, kinds |-> {}, tags |-> {}]
NoCondition == [categories |-> {}, pqc_status |-> {}, algorithm_glob |-> {}, min_severity |-> {}]
Production == <<"p", "*">>

\* The policies that are in force when the configuration declares none.
default_policies ==
    [no_weak_crypto |-> [selector |-> Everything, match |-> [NoCondition EXCEPT !.pqc_status = {"classical_weak"}], action |-> "open_pr"],
     pqc_key_exchange |-> [selector |-> [Everything EXCEPT !.asset_types = {"tls_connection", "protocol_endpoint"}],
                           match |-> [NoCondition EXCEPT !.categories = {"missing_pqc"}], action |-> "open_pr"],
     pqc_certificates |-> [selector |-> [Everything EXCEPT !.asset_types = {"certificate"}],
                           match |-> [NoCondition EXCEPT !.pqc_status = {"classical_secure", "classical_weak"}], action |-> "create_ticket"],
     pqc_data_at_rest |-> [selector |-> [Everything EXCEPT !.asset_types = {"data_store"}, !.environment = {Production}],
                           match |-> [NoCondition EXCEPT !.categories = {"missing_pqc", "stale_key_rotation", "classical_crypto"}],
                           action |-> "open_pr"]]

-----------------------------------------------------------------------------
(* The board: drift against the baseline. *)

Violations == evaluate_policy(Policy, findings, Inventory)
FingerprintsOf(vs) == {fingerprint(vs[i]) : i \in DOMAIN vs}
StatusOf(fps) == IF fps = {} THEN "compliant" ELSE "violated"

\* The answer of drift(): what is new, what is resolved, and whether it regressed.
Drift(base, current) ==
    LET old == IF base = << >> THEN {} ELSE base.fingerprints
    IN  [new |-> current \ old, resolved |-> old \ current,
         regressed |-> base # << >> /\ base.status = "compliant" /\ StatusOf(current) = "violated"]

\* evaluate_now reads the findings, then the baseline, writes the new one, and
\* answers.
EvaluateFindings(h) ==
    /\ handling[h] = << >> /\ requests < MaxRequests
    /\ requests' = requests + 1
    /\ handling' = [handling EXCEPT ![h] = [at |-> "drift", nr |-> requests, current |-> FingerprintsOf(Violations)]]
    /\ UNCHANGED <<action, findings, drifts, logging, ledger, ended, scans, crashed>>

\* The evaluations that have read the baseline and not answered.
Evaluating == {h \in Handlers : handling[h] # << >> /\ handling[h].at \in {"snapshot", "evaluated"}}

\* Mutant: the baseline is replaced before the drift is computed.
MutEvaluateDrift(h) ==
    /\ handling[h] # << >> /\ handling[h].at = "drift"
    /\ LET own == [fingerprints |-> handling[h].current, status |-> StatusOf(handling[h].current)]
       IN  handling' = [handling EXCEPT ![h] = [at |-> "snapshot", nr |-> @.nr, current |-> @.current,
                                                drift |-> Drift(own, @.current)]]
    /\ raced' = (raced \/ Evaluating # {})
    /\ UNCHANGED <<action, findings, baseline, board, told, logging, ledger, ended, bounds>>

EvaluateDrift(h) ==
    /\ handling[h] # << >> /\ handling[h].at = "drift"
    /\ handling' = [handling EXCEPT ![h] = [at |-> "snapshot", nr |-> @.nr, current |-> @.current,
                                            drift |-> Drift(baseline, @.current)]]
    /\ raced' = (raced \/ Evaluating # {})
    /\ UNCHANGED <<action, findings, baseline, board, told, logging, ledger, ended, bounds>>

RecordSnapshot(h) ==
    /\ handling[h] # << >> /\ handling[h].at = "snapshot"
    /\ baseline' = [fingerprints |-> handling[h].current, status |-> StatusOf(handling[h].current)]
    /\ handling' = [handling EXCEPT ![h].at = "evaluated"]
    /\ UNCHANGED <<action, findings, board, told, raced, logging, ledger, ended, bounds>>

AnswerEvaluation(h) ==
    /\ handling[h] # << >> /\ handling[h].at = "evaluated"
    /\ board' = (board \cup handling[h].drift.new) \ handling[h].drift.resolved
    /\ told' = told \cup handling[h].drift.new
    /\ handling' = [handling EXCEPT ![h] = << >>]
    /\ UNCHANGED <<action, findings, baseline, raced, logging, ledger, ended, bounds>>

\* A finding of a scan is a new row or replaces the one with its id: SQLite's
\* INSERT OR REPLACE gives it a new place, the upsert of PostgreSQL (and a
\* re-verify's update) leaves it in its own.
Rescan ==
    /\ scans < MaxScans
    /\ scans' = scans + 1
    /\ \E f \in Pool :
          /\ \A i \in DOMAIN findings : findings[i] # f
          /\ \/ findings' = Append(SelectSeq(findings, LAMBDA r : r.id # f.id), f)
             \/ /\ \E i \in DOMAIN findings : findings[i].id = f.id
                /\ findings' = [i \in DOMAIN findings |-> IF findings[i].id = f.id THEN f ELSE findings[i]]
    /\ UNCHANGED <<action, drifts, handling, logging, ledger, ended, requests, crashed>>

-----------------------------------------------------------------------------
(* Enforcement. *)

\* A ticket is the request it was opened for and the violation's fingerprint.
Ticket(h) == [request |-> handling[h].nr, about |-> fingerprint(Head(handling[h].todo))]

Loop == IF action = "alert" THEN "audit" ELSE "file"

\* enforce_policy up to its loop: refusals change nothing, "alert" goes to the log.
\* integration: "none" (not named), "unknown" (not registered) or "known".
Enforce(h, integration, dry_run) ==
    /\ handling[h] = << >> /\ requests < MaxRequests
    /\ requests' = requests + 1
    /\ LET refused == AirGapped \/ integration # "known" \/ dry_run
       IN  handling' = IF Violations = << >> \/ (action # "alert" /\ refused) THEN handling
                       ELSE [handling EXCEPT ![h] = [at |-> Loop, todo |-> Violations, all |-> Violations,
                                                     errors |-> {}, nr |-> requests]]
    /\ UNCHANGED <<action, findings, drifts, logging, ledger, ended, scans, crashed>>

Following(h) == IF Len(handling[h].todo) = 1 THEN "enforced" ELSE Loop
Advance(h) == [handling EXCEPT ![h].todo = Tail(@), ![h].at = Following(h)]

\* integration.create_remediation: opened; failed and noted as an error; or opened
\* with the reply lost, which is an error too.  The row of the finding is still
\* there (findings are replaced and not removed), so none is passed over.
CreateRemediation(h) ==
    /\ handling[h] # << >> /\ handling[h].at = "file"
    /\ \E i \in DOMAIN findings : findings[i].id = Head(handling[h].todo).id
    /\ \/ filed' = filed \cup {Ticket(h)} /\ handling' = [handling EXCEPT ![h].at = "record"] /\ UNCHANGED unanswered
       \/ handling' = [Advance(h) EXCEPT ![h].errors = @ \cup {Ticket(h)}] /\ UNCHANGED <<filed, unanswered>>
       \/ /\ filed' = filed \cup {Ticket(h)} /\ unanswered' = unanswered \cup {Ticket(h)}
          /\ handling' = [Advance(h) EXCEPT ![h].errors = @ \cup {Ticket(h)}]
    /\ UNCHANGED <<action, findings, drifts, logging, recorded, audited, failed, ended, bounds>>

RecordRemediation(h) ==
    /\ handling[h] # << >> /\ handling[h].at = "record"
    /\ recorded' = recorded \cup {Ticket(h)}
    /\ handling' = [handling EXCEPT ![h].at = "audit"]
    /\ UNCHANGED <<action, findings, drifts, logging, filed, audited, unanswered, failed, ended, bounds>>

\* That the log did not take the entry is ignored.
AuditEnforced(h) ==
    /\ handling[h] # << >> /\ handling[h].at = "audit"
    /\ audited' = IF logging THEN audited \cup {Ticket(h)} ELSE audited
    /\ handling' = Advance(h)
    /\ UNCHANGED <<action, findings, drifts, logging, filed, recorded, unanswered, failed, ended, bounds>>

Answer(h) ==
    /\ handling[h] # << >> /\ handling[h].at = "enforced"
    /\ failed' = failed \cup handling[h].errors
    /\ handling' = [handling EXCEPT ![h] = << >>]
    /\ UNCHANGED <<action, findings, drifts, logging, filed, recorded, audited, unanswered, ended, bounds>>

\* The client goes away: the handler is dropped at an await, of the connector,
\* which may have opened the ticket, or of the log.
Disconnect(h) ==
    /\ handling[h] # << >> /\ handling[h].at \in {"file", "audit"}
    /\ handling[h].at = "audit" => UNCHANGED filed
    /\ filed' \in {filed, filed \cup {Ticket(h)}}
    /\ ended' = ended \cup {handling[h].nr}
    /\ handling' = [handling EXCEPT ![h] = << >>]
    /\ UNCHANGED <<action, findings, drifts, logging, recorded, audited, unanswered, failed, bounds>>

\* The logger's channel is closed: the gateway is shutting down.
StopLogger ==
    /\ logging /\ logging' = FALSE
    /\ UNCHANGED <<action, findings, drifts, handling, ledger, ended, bounds>>

\* The gateway stops: requests in progress are gone, tables and tickets stay.
PolicyCrash ==
    /\ ~crashed /\ crashed' = TRUE
    /\ logging' = TRUE
    /\ ended' = ended \cup {handling[h].nr : h \in {g \in Handlers : handling[g] # << >>}}
    /\ handling' = [h \in Handlers |-> << >>]
    /\ UNCHANGED <<action, findings, drifts, ledger, requests, scans>>

-----------------------------------------------------------------------------
PolicyInit ==
    /\ action \in {"open_pr", "alert"}
    /\ findings = << >> /\ baseline = << >> /\ logging = TRUE
    /\ handling = [h \in Handlers |-> << >>]
    /\ filed = {} /\ recorded = {} /\ audited = {}
    /\ board = {} /\ told = {} /\ raced = FALSE
    /\ unanswered = {} /\ failed = {} /\ ended = {}
    /\ requests = 0 /\ scans = 0 /\ crashed = FALSE

PolicyNext ==
    \/ Rescan \/ StopLogger \/ PolicyCrash
    \/ \E h \in Handlers : \/ EvaluateFindings(h) \/ EvaluateDrift(h) \/ RecordSnapshot(h) \/ AnswerEvaluation(h)
                           \/ \E i \in {"none", "unknown", "known"}, dry \in BOOLEAN : Enforce(h, i, dry)
                           \/ CreateRemediation(h) \/ RecordRemediation(h) \/ AuditEnforced(h)
                           \/ Answer(h) \/ Disconnect(h)

-----------------------------------------------------------------------------
\* A violation gets into the baseline only with an answer that calls it new, also
\* when evaluations overlap and scans change what they see; an answer a crash cut
\* off is the one exception.  And unless one evaluation read the baseline before
\* another had answered, the drifts add up: what was new and not resolved since is
\* the stored baseline (evaluate_now reads and replaces it without a lock, and the
\* sum stays wrong once two of them did so at a time).
DriftAddsUp ==
    baseline # << >> /\ ~crashed =>
        LET pending == {h \in Handlers : handling[h] # << >> /\ handling[h].at = "evaluated"}
            of(h) == handling[h].drift
        IN  /\ baseline.fingerprints \subseteq told \cup UNION {of(h).new : h \in pending}
            /\ ~raced /\ pending = {} => board = baseline.fingerprints

\* When an enforcement ends, every violation it set out with was dealt with once:
\* its ticket was opened and recorded and, if the log takes entries, audited, or
\* its error is in the answer - whatever scans, evaluations and other enforcements
\* ran in between, and also for a finding that was resolved meanwhile.  A ticket
\* that is not recorded is one of the errors: its reply was lost.
EnforcementIsComplete ==
    \A h \in Handlers : handling[h] # << >> /\ handling[h].at = "enforced" =>
        LET mine(ts) == {t.about : t \in {x \in ts : x.request = handling[h].nr}}
            all == FingerprintsOf(handling[h].all)
            errors == mine(handling[h].errors)
        IN  /\ Cardinality(all) = Len(handling[h].all)
            /\ logging => mine(audited) = all \ errors
            /\ action # "alert" => mine(recorded) = all \ errors /\ mine(filed) \ mine(recorded) \subseteq errors

\* A ticket is recorded only after it was opened and audited only after it was
\* recorded.  One that is open and not recorded is waiting to be, was told to the
\* client as an error because its reply was lost, or belongs to a request that was
\* cut off; such a request leaves at most one ticket whose reply had come or was
\* still awaited.
NoTicketIsLost ==
    LET unrecorded == filed \ recorded
        held == UNION {IF handling[h] # << >> /\ handling[h].at \in {"file", "record", "audit", "enforced"}
                       THEN handling[h].errors \cup (IF handling[h].at = "record" THEN {Ticket(h)} ELSE {})
                       ELSE {} : h \in Handlers}
    IN  /\ recorded \subseteq filed
        /\ action # "alert" => audited \subseteq recorded
        /\ \A t \in unrecorded : t \in held \cup failed \/ t.request \in ended
        /\ \A n \in 0..MaxRequests : Cardinality({t \in unrecorded \ unanswered : t.request = n}) <= 1
=============================================================================
