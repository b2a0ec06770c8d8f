------------------------------ MODULE Scoring ------------------------------
(***************************************************************************)
(* What the program concludes from its findings: the posture score         *)
(* (qw-cbom posture.rs), the compliance report and its roadmap             *)
(* (compliance.rs), the migration plans (remediation.rs, business.rs) and  *)
(* the governance verdict (governance.rs).  They are pure functions of the *)
(* stored findings, each with a classification of its own.                 *)
(*                                                                         *)
(* A finding is a record [type, category, status, severity, algorithm,     *)
(* suppressed]; an algorithm's name is the set of the tokens the code or a *)
(* policy looks for that it contains, {} where there is none.              *)
(***************************************************************************)
EXTENDS Integers, Sequences, FiniteSets, FiniteSetsExt, SequencesExt

CONSTANT RefCap         \* references a roadmap item keeps: 50

AssetTypes == {"tls_connection", "protocol_endpoint", "certificate", "crypto_library", "signing_key",
               "encryption_key", "hash_function", "data_store"}

Severities == <<"info", "low", "medium", "high", "critical">>
Rank(s) == CHOOSE i \in DOMAIN Severities : Severities[i] = s

-----------------------------------------------------------------------------
(* Posture: an average per category, weighted. *)

Clamp(n) == IF n < 0 THEN 0 ELSE IF n > 100 THEN 100 ELSE n

score_pqc_status(s) ==
    CASE s = "pqc_ready" -> 100 [] s = "hybrid" -> 90 [] s = "classical_secure" -> 60
      [] s = "classical_weak" -> 20 [] s = "unknown" -> 40

Deduction(category) ==
    CASE category = "expired_certificate" -> 40 [] category = "expiring_certificate" -> 15
      [] category = "short_key_length" -> 20 [] category = "deprecated_protocol" -> 10
      [] category = "vulnerable_library" -> 30 [] category = "hardcoded_key" -> 25
      [] category = "weak_algorithm" -> 15 [] category = "unencrypted_at_rest" -> 45
      [] category = "stale_key_rotation" -> 8 [] OTHER -> 0

score_finding(f) ==
    Clamp(score_pqc_status(f.status) - Deduction(f.category) - (IF f.severity = "critical" THEN 10 ELSE 0))

\* A provider is [status, tls13].
score_service(p) == Clamp(score_pqc_status(p.status) - (IF p.tls13 THEN 0 ELSE 10))

CategoryOf(type) ==
    CASE type \in {"tls_connection", "protocol_endpoint"} -> "tls" [] type = "certificate" -> "certificates"
      [] type = "crypto_library" -> "dependencies" [] OTHER -> "keys"

Weight == [tls |-> 30, certificates |-> 25, dependencies |-> 25, keys |-> 20]

\* An average is the pair of its sum and its count, exact.
Average(scores) == IF scores = << >> THEN <<100, 1>> ELSE <<FoldSeq(+, 0, scores), Len(scores)>>

summarize(findings, providers) ==
    LET of(c) == SelectSeq(findings, LAMBDA f : CategoryOf(f.type) = c)
        scores(c) == [i \in DOMAIN of(c) |-> score_finding(of(c)[i])]
                     \o (IF c = "tls" THEN [i \in DOMAIN providers |-> score_service(providers[i])] ELSE << >>)
        avg == [c \in DOMAIN Weight |-> Average(scores(c))]
        den == FoldFunction(LAMBDA a, n : a[2] * n, 1, avg)
        num == FoldFunction(+, 0, [c \in DOMAIN Weight |-> Weight[c] * avg[c][1] * (den \div avg[c][2])])
    IN  [tenths |-> (2 * num + 10 * den) \div (20 * den),
         counts |-> [c \in DOMAIN Weight |-> Len(scores(c))],
         total |-> Len(findings) + Len(providers),
         by_status |-> [s \in {"pqc_ready", "hybrid", "classical_secure", "classical_weak", "unknown"} |->
                           Len(SelectSeq(findings, LAMBDA f : f.status = s)) + Len(SelectSeq(providers, LAMBDA p : p.status = s))]]

-----------------------------------------------------------------------------
(* Compliance: what each framework says of a class of cryptography. *)

classify(f) ==
    CASE f.category = "expired_certificate" -> "weak"
      [] f.category = "expiring_certificate" -> "expiring"
      [] OTHER ->
         CASE f.status \in {"pqc_ready", "hybrid"} -> "pqc"
           [] f.status = "classical_weak" -> "weak"
           [] f.status = "classical_secure" ->
                IF f.type \in {"hash_function", "data_store"} THEN "safe_symmetric" ELSE "quantum_vulnerable"
           [] f.status = "unknown" -> "unknown"

Frameworks == {"cnsa-2.0", "nist-ir-8547", "fips-203-204"}
Never == 9999           \* a framework that sets no deadline

status_for(class, fw) ==
    CASE class \in {"pqc", "safe_symmetric"} -> <<"compliant", Never>>
      [] class = "weak" -> <<"non_compliant", 2025>>
      [] class = "quantum_vulnerable" -> <<IF fw = "nist-ir-8547" THEN "at_risk" ELSE "non_compliant", 2030>>
      [] class = "expiring" -> IF fw = "fips-203-204" THEN <<"not_applicable", Never>> ELSE <<"at_risk", 2025>>
      [] class = "unknown" -> <<"at_risk", IF fw = "nist-ir-8547" THEN 2035 ELSE 2030>>

\* The part of a framework's applicable findings that is compliant, in tenths of a percent.
Percent10(part, whole) == IF whole = 0 THEN 1000 ELSE (2000 * part + whole) \div (2 * whole)

Tally(findings, fw) ==
    LET with(s) == Cardinality({i \in DOMAIN findings : status_for(classify(findings[i]), fw)[1] = s})
        late == {status_for(classify(findings[i]), fw)[2] :
                    i \in {j \in DOMAIN findings : status_for(classify(findings[j]), fw)[1] \in {"at_risk", "non_compliant"}}}
    IN  [compliant |-> with("compliant"), at_risk |-> with("at_risk"), non_compliant |-> with("non_compliant"),
         percent |-> Percent10(with("compliant"), with("compliant") + with("at_risk") + with("non_compliant")),
         nearest |-> Min(late \cup {Never})]

\* The items of the roadmap in the order they are declared, and where a finding goes.
Buckets == <<[id |-> "weak", priority |-> 0, deadline |-> 2025], [id |-> "certs", priority |-> 1, deadline |-> 2025],
             [id |-> "tls", priority |-> 1, deadline |-> 2030], [id |-> "sigs", priority |-> 1, deadline |-> 2030],
             [id |-> "deps", priority |-> 2, deadline |-> 2030], [id |-> "unknown", priority |-> 2, deadline |-> 2030]>>

BucketOf(f) ==
    LET class == classify(f)
    IN  CASE class = "weak" -> {"weak"} [] class = "expiring" -> {"certs"} [] class = "unknown" -> {"unknown"}
          [] class \in {"pqc", "safe_symmetric"} -> {}
          [] class = "quantum_vulnerable" ->
               CASE f.type \in {"tls_connection", "protocol_endpoint"} -> {"tls"}
                 [] f.type \in {"certificate", "signing_key", "encryption_key", "data_store"} -> {"sigs"}
                 [] f.type = "crypto_library" -> {"deps"} [] f.type = "hash_function" -> {}

\* The roadmap: an item per bucket somebody is in, the urgent first, then the
\* ones with more references; the sort is stable.
build_roadmap(findings) ==
    LET in(b) == {i \in DOMAIN findings : b.id \in BucketOf(findings[i])}
        item(b) == [id |-> b.id, priority |-> b.priority, deadline |-> b.deadline,
                    refs |-> {i \in in(b) : Cardinality({j \in in(b) : j < i}) < RefCap},
                    affected_count |-> Min({Cardinality(in(b)), RefCap}),
                    severity |-> Max({1} \cup {Rank(findings[i].severity) : i \in in(b)})]
        items == [k \in DOMAIN Buckets |-> item(Buckets[k])]
        first(j, k) == LET x == items[j] y == items[k]
                       IN  \/ x.priority < y.priority
                           \/ x.priority = y.priority /\ x.affected_count > y.affected_count
                           \/ x.priority = y.priority /\ x.affected_count = y.affected_count /\ j < k
        used == {k \in DOMAIN items : items[k].refs # {}}
        order == SetToSortSeq(used, first)
    IN  [n \in DOMAIN order |-> items[order[n]]]

assess(findings) ==
    [total |-> Len(findings), frameworks |-> [fw \in Frameworks |-> Tally(findings, fw)],
     headline |-> Tally(findings, "cnsa-2.0"), items |-> build_roadmap(findings)]

-----------------------------------------------------------------------------
(* Migration plans. *)

Aes256 == {"AES-256", "AES256"}

needs_migration(f) ==
    /\ ~f.suppressed
    /\ f.status \notin {"pqc_ready", "hybrid"}
    /\ ~(f.type \in {"data_store", "encryption_key"} /\ f.algorithm \cap Aes256 # {})

Strategy(f) ==
    CASE f.algorithm \cap {"3DES", "DES", "RC4"} # {} -> "replace-symmetric"
      [] f.algorithm \cap {"MD5", "SHA1", "SHA-1"} # {} -> "replace-hash"
      [] f.algorithm \cap {"AES-128", "AES_128"} # {} -> "strengthen-symmetric"
      [] f.category = "hardcoded_key" -> "rotate-key"
      [] f.type \in {"certificate", "signing_key"} -> "replace-signature"
      [] f.type \in {"tls_connection", "protocol_endpoint"} -> "hybrid-key-exchange"
      [] f.type = "crypto_library" -> "upgrade-library"
      [] f.type = "hash_function" -> "replace-hash"
      [] f.type \in {"encryption_key", "data_store"} -> "encrypt-at-rest"

\* "OFF" stands for the spellings off, disabled, plaintext and false.
is_unencrypted(f) == f.algorithm \in {{}, {"NONE"}, {"OFF"}}

\* Mutant: neither the finding's status nor its severity is looked at.
MutPriorityOf(f, strategy) ==
    CASE strategy = "encrypt-at-rest" /\ is_unencrypted(f) -> 0
      [] strategy \in {"rotate-key", "replace-symmetric", "replace-hash"} -> 0
      [] strategy \in {"encrypt-at-rest", "strengthen-symmetric"} -> 2
      [] strategy \in {"replace-signature", "hybrid-key-exchange", "upgrade-library"} -> 1

priority_of(f, strategy) ==
    CASE strategy = "encrypt-at-rest" /\ is_unencrypted(f) -> 0
      [] \/ f.status = "classical_weak" \/ f.severity = "critical"
         \/ strategy \in {"rotate-key", "replace-symmetric", "replace-hash"} -> 0
      [] strategy \in {"encrypt-at-rest", "strengthen-symmetric"} -> 2
      [] strategy \in {"replace-signature", "hybrid-key-exchange", "upgrade-library"} -> 1

effort_of(strategy) ==
    CASE strategy \in {"replace-hash", "replace-symmetric", "strengthen-symmetric"} -> "low"
      [] strategy \in {"rotate-key", "upgrade-library", "encrypt-at-rest"} -> "medium"
      [] OTHER -> "high"

\* The kind of the proposed change; a plan may be steps only.
build_patch(f, strategy) ==
    CASE strategy \in {"replace-symmetric", "strengthen-symmetric"} -> "cipher-suite"
      [] strategy = "replace-hash" -> "hash" [] strategy = "encrypt-at-rest" -> "encryption-at-rest"
      [] strategy = "rotate-key" -> "none"
      [] strategy = "upgrade-library" -> IF f.manifest THEN "dependency" ELSE "none"
      [] strategy = "hybrid-key-exchange" -> "tls-config" [] strategy = "replace-signature" -> "certificate"

\* The algorithm the plan says is in use now.
Current(f, strategy) ==
    CASE strategy = "encrypt-at-rest" /\ is_unencrypted(f) -> {"unencrypted"}
      [] f.algorithm \in {{}, {"NONE"}} -> {"classical/unknown"}
      [] OTHER -> f.algorithm

plan_migration(f) ==
    LET s == Strategy(f)
    IN  IF ~needs_migration(f) THEN {}
        ELSE {[finding |-> f, strategy |-> s, priority |-> priority_of(f, s), effort |-> effort_of(s),
               patch |-> build_patch(f, s), current |-> Current(f, s)]}

CriticalityWeight(c) == CASE c = "critical" -> 4 [] c = "high" -> 3 [] c \in {"medium", "unknown"} -> 2 [] c = "low" -> 1

\* plan_all: the urgent first, ties in the order of the findings.
plan_all(findings) ==
    LET urgency(i) == (CHOOSE p \in plan_migration(findings[i]) : TRUE).priority
    IN  SetToSortSeq({i \in DOMAIN findings : plan_migration(findings[i]) # {}},
                     LAMBDA i, j : urgency(i) < urgency(j) \/ (urgency(i) = urgency(j) /\ i < j))

\* Urgency times criticality.
business_risk_score(priority, criticality) == (3 - priority) * CriticalityWeight(criticality)

\* get_risk: the most business risk first, ties in the order of the findings.
get_risk(findings, criticality) ==
    LET risk(i) == business_risk_score((CHOOSE p \in plan_migration(findings[i]) : TRUE).priority, criticality[i])
    IN  SetToSortSeq({i \in DOMAIN findings : plan_migration(findings[i]) # {}},
                     LAMBDA i, j : risk(i) > risk(j) \/ (risk(i) = risk(j) /\ i < j))

-----------------------------------------------------------------------------
(* Governance: the inventory against the policy [forbidden, deprecated, target, deadline]. *)

\* A pattern of the policy is looked for anywhere in the name: DSA is in ML-DSA and
\* in ECDSA, the empty pattern in every name.
matches_any(patterns, algorithm) == \E p \in patterns : p = "" \/ p \in algorithm

classify_asset(policy, algorithm, status) ==
    CASE matches_any(policy.forbidden, algorithm) -> "forbidden"
      [] status \in {"pqc_ready", "hybrid"} -> "compliant"
      [] matches_any(policy.deprecated, algorithm) -> "deprecated"
      [] status = "classical_weak" -> "deprecated"
      [] status = "classical_secure" -> "compliant"
      [] status = "unknown" -> "unknown"

evaluate_governance(policy, findings, now) ==
    LET count(v) == Cardinality({i \in DOMAIN findings : classify_asset(policy, findings[i].algorithm, findings[i].status) = v})
        passed == now > policy.deadline
    IN  [compliant |-> count("compliant"), deprecated |-> count("deprecated"),
         forbidden |-> count("forbidden"), unknown |-> count("unknown"),
         agility |-> Percent10(count("compliant"), Len(findings)),
         verdict |-> CASE count("forbidden") > 0 \/ (passed /\ count("deprecated") > 0) -> "fail"
                       [] count("deprecated") > 0 -> "at_risk" [] OTHER -> "pass"]

\* The gate a pipeline asks: HTTP 422 on a FAIL.
Gate(policy, findings, now) == IF evaluate_governance(policy, findings, now).verdict = "fail" THEN 422 ELSE 200
=============================================================================
