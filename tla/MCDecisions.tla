---------------------------- MODULE MCDecisions ----------------------------
(***************************************************************************)
(* The pure parts of the program - what is computed from an input and      *)
(* leaves no state behind - checked over bounded inputs.  A behaviour      *)
(* chooses a part and then builds or picks an input for it; the properties *)
(* compare what the part computes with a reference, or relate its results  *)
(* for two inputs.                                                         *)
(***************************************************************************)
EXTENDS Integers, Sequences, FiniteSets, RateLimiter, CryptoPolicies

CONSTANTS
    MaxItems,       \* things in the estate an attack graph is built from
    RefCap,         \* references an item of the compliance roadmap keeps
    MaxFindings     \* findings after which a code scan stops

G == INSTANCE AttackGraph
A == INSTANCE Access
S == INSTANCE Scoring
C == INSTANCE Controls
N == INSTANCE Scanning
K == INSTANCE Merkle

VARIABLES
    part,           \* the part under check
    input           \* its input

picked == <<part, input>>

\* Requests in progress are alike.
Symmetry == Permutations(Threads) \cup Permutations(Handlers)

vars == <<part, input, limiterVars, policyVars>>

-----------------------------------------------------------------------------
(* The attack graph: an estate that grows thing by thing. *)

NoEstate == [providers |-> << >>, identities |-> {}, agents |-> {}, flows |-> {},
             findings |-> {}, assets |-> {}, targets |-> {}]

Size(e) == Cardinality(DOMAIN e.providers) + Cardinality(e.identities) + Cardinality(e.agents)
           + Cardinality(e.flows) + Cardinality(e.findings) + Cardinality(e.assets) + Cardinality(e.targets)

Agents == {[name |-> "bot", offline |-> FALSE, tools |-> {"customer"}, models |-> {"claude"}],
           [name |-> "dba", offline |-> TRUE, tools |-> {"privileged", "public"}, models |-> {"gpt"}],
           [name |-> "web", offline |-> FALSE, tools |-> {"public"}, models |-> {}]}
Identities == {[label |-> "key", key |-> TRUE, role |-> "admin"], [label |-> "user", key |-> FALSE, role |-> "admin"]}
Flows == {[agent |-> "bot", provider |-> "openai", requests |-> 2, sensitive |-> 1],
          [agent |-> "web", provider |-> "anthropic", requests |-> 1, sensitive |-> 0]}
FindingsOf(n) == [type : {"library"}, at : {"ssl"}, status : {"classical_weak", "classical_secure"}, suppressed : BOOLEAN, nr : {n}]
                 \cup [type : {"certificate"}, at : {"anthropic"}, status : {"classical_weak", "hybrid"}, suppressed : BOOLEAN, nr : {n}]
\* One of the assets has the name of a library: declared ids are free-form.
Assets == [id : {"db"}, status : {"classical_weak", "unknown"}, prod : BOOLEAN, air : BOOLEAN]
          \cup [id : {"ssl"}, status : {"classical_weak"}, prod : {TRUE}, air : BOOLEAN]
Targets == [id : {"t1", "t2"}, host : {"10.0.0.1"}, prod : {TRUE}, air : BOOLEAN, containers : {{"redis"}},
            services : {{[port |-> 443, status |-> "classical_secure", exposed |-> TRUE],
                         [port |-> 22, status |-> "unknown", exposed |-> FALSE]}}]

Grow ==
    /\ part = "graph" /\ Size(input) < MaxItems
    /\ \/ \E p \in {"anthropic", "openai"} \ DOMAIN input.providers,
             s \in {"classical_weak", "classical_secure", "unknown", "hybrid", "pqc_ready"} :
             input' = [input EXCEPT !.providers = [q \in DOMAIN @ \cup {p} |-> IF q = p THEN s ELSE @[q]]]
       \/ \E a \in Agents \ input.agents : input' = [input EXCEPT !.agents = @ \cup {a}]
       \/ \E i \in Identities \ input.identities : input' = [input EXCEPT !.identities = @ \cup {i}]
       \/ \E f \in Flows \ input.flows : input' = [input EXCEPT !.flows = @ \cup {f}]
       \/ \E f \in FindingsOf(Cardinality(input.findings)) : input' = [input EXCEPT !.findings = @ \cup {f}]
       \/ input.assets = {} /\ \E a \in Assets : input' = [input EXCEPT !.assets = {a}]
       \/ \E t \in Targets : t.id \notin {u.id : u \in input.targets} /\ input' = [input EXCEPT !.targets = @ \cup {t}]
    /\ UNCHANGED part

\* Every path and every edge of the graph stands on nodes that are in it, also
\* for a provider only a model's name or an observed flow leads to
\* (qw-graph build_graph: a client draws a path through its node ids).
GraphIsClosed ==
    part = "graph" => LET nodes == G!Nodes(input) IN
        /\ \A e \in G!Edges(input) : e[1] \in nodes /\ e[2] \in nodes
        /\ \A p \in G!Paths(input, << >>) : p.nodes \subseteq nodes

\* Two paths share an id only when a weak library and a declared asset have the
\* same name (both are "asset:" and the name), also when two targets share an
\* address: drift detection and the list of mitigated paths compare ids, so that of
\* such a pair one path hides the other.  And no simulation is misled by the pair:
\* neither of the two is a path that an override takes away.
PathIdsAreUnique ==
    part = "graph" =>
        LET paths == G!Paths(input, << >>) IN
        \A p, q \in paths : p # q /\ p.id = q.id =>
            /\ {p.from, q.from} \cap input.assets # {} /\ {p.from, q.from} \cap input.findings # {}
            /\ \A over \in [{"anthropic", "openai"} -> {"pqc_ready"}] : {p, q} \cap G!Mitigated(input, over) = {}

\* Simulating a stronger channel never raises the risk nor a node's blast
\* radius, and the paths it takes away are data-exposure paths to that provider.
\* The node of a provider and the paths through it have the same status, with one
\* exception: a provider that was never scanned is drawn with the simulated status
\* while its paths are scored as before, so there the simulation gains nothing.
SimulationIsSafe ==
    part = "graph" => \A p \in {"anthropic", "openai"}, s \in {"hybrid", "pqc_ready"} :
        LET over == [q \in {p} |-> s] IN
        (p \in DOMAIN input.providers => input.providers[p] \notin {"pqc_ready", s}) =>
            /\ G!Risk(G!Paths(input, over)) <= G!Risk(G!Paths(input, << >>))
            /\ G!Summary(G!Paths(input, over)).critical <= G!Summary(G!Paths(input, << >>)).critical
            /\ \A n \in G!ProviderNodes(input) : G!BlastRadius(input, over, n) <= G!BlastRadius(input, << >>, n)
            /\ \A q \in G!Mitigated(input, over) : q.kind = "data-exposure" /\ <<"provider", p>> \in q.nodes
            /\ p \notin DOMAIN input.providers => G!Paths(input, over) = G!Paths(input, << >>)
            /\ \A q \in G!FlowPaths(input, over) :
                  q.channel # G!NodeStatus(input, over, q.from[2]) <=> q.from[2] = p /\ p \notin DOMAIN input.providers

\* A finding triaged as suppressed neither adds a path nor hides one: a weak
\* library behind a suppressed finding of the same library is still listed.
SuppressedIsSilent ==
    part = "graph" =>
        LET without == [input EXCEPT !.findings = {f \in @ : ~f.suppressed}]
        IN  G!Paths(input, << >>) = G!Paths(without, << >>) /\ G!Nodes(input) = G!Nodes(without)

\* A path that is listed can be walked: it has an exploitability above zero and
\* no stage of its kill chain is blocked, whatever floor and discount it passed.
ListedIsExploitable ==
    part = "graph" => \A p \in G!Paths(input, << >>) :
        /\ G!Exploitability(p) > 0
        /\ \A i \in DOMAIN G!KillChain(p) : G!KillChain(p)[i] # "blocked"

\* The attack graph can be drawn, compared and simulated on: it is closed, its
\* paths have ids of their own and can be walked, what was suppressed is silent,
\* and a simulated improvement improves what it is said to and nothing else.
GraphIsSound ==
    /\ GraphIsClosed /\ PathIdsAreUnique /\ SimulationIsSafe
    /\ SuppressedIsSilent /\ ListedIsExploitable

-----------------------------------------------------------------------------
(* Requests: patterns, policies, channels, routes, admission. *)

Words(letters, n) == UNION {[1..k -> letters] : k \in 0..n}

PickPattern == part = "glob" /\ input = << >> /\ UNCHANGED part
               /\ \E p \in Words({"a", "b", "*"}, 3), v \in Words({"a", "b"}, 3) : input' = <<p, v>>

\* The meaning of a pattern: a star stands for any letters.
RECURSIVE Glob(_, _)
Glob(p, v) ==
    IF p = << >> THEN v = << >>
    ELSE IF Head(p) = "*" THEN \E k \in 0..Len(v) : Glob(Tail(p), SubSeq(v, k + 1, Len(v)))
    ELSE v # << >> /\ Head(v) = Head(p) /\ Glob(Tail(p), Tail(v))

\* A pattern with at most one star matches exactly what it should, but for values
\* too short for both of its sides (matches_glob), and never misses anything.
OneStarIsAWildcard ==
    part = "glob" /\ input # << >> /\ Cardinality(A!Stars(input[1])) <= 1 =>
        /\ Glob(input[1], input[2]) => A!matches_glob(input[1], input[2])
        /\ Len(input[2]) >= Len(input[1]) - 1 /\ A!matches_glob(input[1], input[2]) => Glob(input[1], input[2])

\* A policy's algorithm and environment globs mean what they say, with any number
\* of stars and for values shorter than the pattern (agility.rs glob_match: the
\* first part anchors, the last part anchors, the ones between are found greedily).
AgilityGlobIsExact ==
    part = "glob" /\ input # << >> => (glob_match(input[1], input[2]) <=> Glob(input[1], input[2]))

Tools == {<<"a">>, <<"b">>, <<"a", "b">>}
Patterns == {<<"*">>, <<"a", "*">>, <<"a", "b">>}

PickPolicy ==
    /\ part = "policy" /\ input = << >> /\ UNCHANGED part
    /\ \E allowed, blocked \in SUBSET Patterns, models \in {{}, {<<"a", "*">>}}, offline \in BOOLEAN,
          tools \in SUBSET Tools, model \in Tools, provider \in {"openai", "ollama"} :
          input' = [policy |-> [allowed |-> allowed, blocked |-> blocked, models |-> models, offline |-> offline],
                    ctx |-> [agent |-> "bot", tools |-> tools, model |-> model, provider |-> provider]]

\* Blocking one more pattern never lets a request or a tool through; allowing one
\* more never takes one away, unless the list was empty (and allowed everything);
\* and a valid policy never lets through a tool that is named as blocked.
BlockingNeverGrants ==
    part = "policy" /\ input # << >> =>
        LET decide(policy) == A!Evaluate([bot |-> policy], "deny", input.ctx)
            now == decide(input.policy)
            grants(d, e) == (d.allow => e.allow) /\ d.tools \subseteq e.tools
        IN  /\ \A p \in Patterns : grants(decide([input.policy EXCEPT !.blocked = @ \cup {p}]), now)
            /\ input.policy.allowed # {} =>
                   \A p \in Patterns : grants(now, decide([input.policy EXCEPT !.allowed = @ \cup {p}]))
            /\ A!Valid(input.policy) => now.tools \cap input.policy.blocked = {}

Statuses == {"pqc_ready", "hybrid", "classical_secure", "classical_weak", "unknown"}

PickChannel ==
    /\ part = "channel" /\ input = << >> /\ UNCHANGED part
    /\ \E cfg \in [enabled : BOOLEAN, exempt : {{}, {"openai"}}, mode : {"enforce", "monitor"},
                    require : {"pqc", "hybrid", "classical_secure", "other"}, block_unknown : BOOLEAN] :
          input' = cfg

\* A stronger channel never gets a harsher verdict than a weaker one, a stricter
\* requirement never a milder one; a channel nobody scanned is never treated worse
\* than one scanned as unknown (crypto_policy::evaluate). The order of strength is
\* the attack graph's: what is harder to exploit there is not refused here - among
\* the known postures: the graph takes an unknown channel for a better one than a
\* weak one, the policy never treats it better than any other.
StrongerIsNeverWorse ==
    part = "channel" /\ input # << >> =>
        LET harsh(v) == CASE v = "allow" -> 0 [] v = "flag" -> 1 [] OTHER -> 2
            of(cfg, c) == harsh(A!Verdict(cfg, "openai", c))
        IN  /\ \A s, t \in Statuses \ {"unknown"} :
                  G!ChannelWeight(s) <= G!ChannelWeight(t) => of(input, s) <= of(input, t)
            /\ \A s \in Statuses : /\ of([input EXCEPT !.require = "classical_secure"], s) <= of([input EXCEPT !.require = "hybrid"], s)
                                   /\ of([input EXCEPT !.require = "hybrid"], s) <= of([input EXCEPT !.require = "pqc"], s)
            /\ \A s \in Statuses \cup {"none"} : of(input, s) <= of(input, "unknown")

Roles == A!resolve_roles([scanner |-> {<<"scans", "*">>, <<"*", "read">>}, reader |-> {<<"*", "read">>}])

PickRoute ==
    /\ part = "route" /\ input = << >> /\ UNCHANGED part
    /\ \E r \in A!admin_routes, role \in DOMAIN Roles, valid \in BOOLEAN, tenant \in {"none", "other"} :
          input' = [route |-> r, role |-> role, tenant |-> tenant,
                    caller |-> [valid |-> valid, perms |-> Roles[role], org |-> "own"]]

\* A handler that changes something runs, once the caller is known, only for a role
\* that may write, and its success is in the change log - but for the user called
\* "metrics", whose routes are taken for the scrape target's (rbac.rs ends_with
\* "/metrics"): a reading role may change or delete that user, and no such change is
\* logged, against "record every successful mutating action" (router.rs). Another
\* tenant's data is seen by administrators alone (auth_layer with the permissions of
\* rbac.rs, for every route of the router).
ChangesAreTracked ==
    part = "route" /\ input # << >> =>
        LET d == A!auth_layer(input.route, input.caller, input.tenant)
            known == d.outcome = "run" /\ ~A!Open(input.route.path) /\ ~A!IdentityOnly(input.route.path)
            scrape == Last(input.route.path) = "metrics"
        IN  /\ known /\ input.route.changes => (d.logged <=> ~scrape)
            /\ known /\ input.route.changes /\ ~scrape => \E p \in input.caller.perms : p[2] # "read"
            /\ known => input.caller.valid /\ (d.org # "own" => input.role = "admin")

\* The roles are a ladder - what a viewer may, an operator may, and an
\* administrator - and users, settings and configuration are on its last rung,
\* except the users whose names read like another route's: exactly those called
\* "metrics" or with a name beginning "remediate" are an operator's to change, the
\* first ones a viewer's too (rbac.rs finds "/remediate" and "/metrics" in the path).
RolesAreALadder ==
    part = "route" /\ input # << >> =>
        LET runs(role) == A!auth_layer(input.route, [input.caller EXCEPT !.perms = Roles[role]], "none").outcome = "run"
        IN  /\ runs("viewer") => runs("operator")
            /\ runs("operator") => runs("admin")
            /\ input.caller.valid /\ A!segment_after_api(input.route.path) \in {"users", "settings", "config"} =>
                   /\ runs("operator") <=> Last(input.route.path) \in {"metrics", "remediate-bot"}
                   /\ runs("viewer") <=> Last(input.route.path) = "metrics"

PickObject ==
    /\ part = "k8s" /\ input = << >> /\ UNCHANGED part
    /\ \E o \in [kind : {"Secret", "Ingress", "Pod"}, tls : BOOLEAN, declared : BOOLEAN,
                  cert : Statuses \cup {"undecodable"}], enforce \in BOOLEAN :
          input' = [object |-> o, enforce |-> enforce]

\* The two modes of the admission webhook see the same things: what enforcing
\* denies, monitoring admits with a warning, and both record it.
AdmissionIsRecorded ==
    part = "k8s" /\ input # << >> =>
        LET on == A!admission_review(input.object, TRUE)
            off == A!admission_review(input.object, FALSE)
        IN  off.allowed /\ on.recorded = off.recorded /\ (~on.allowed <=> on.recorded) /\ (off.warned <=> ~on.allowed)

\* The decisions about a request err on no side: patterns, agent policies, channel
\* requirements, roles, routes and the admission webhook, each against its
\* reference and against what a stricter or milder setting would decide.
AccessIsSound ==
    /\ OneStarIsAWildcard /\ BlockingNeverGrants /\ StrongerIsNeverWorse
    /\ ChangesAreTracked /\ RolesAreALadder /\ AdmissionIsRecorded

-----------------------------------------------------------------------------
(* Conclusions from findings: score, roadmap, plans, governance. *)

FindingOf(type, category, status, severity, algorithm) ==
    [type |-> type, category |-> category, status |-> status, severity |-> severity, algorithm |-> algorithm,
     suppressed |-> FALSE, manifest |-> TRUE]

PickFinding ==
    /\ part = "finding" /\ input = << >> /\ UNCHANGED part
    /\ \E type \in S!AssetTypes, status \in Statuses, severity \in {"medium", "critical"}, suppressed, manifest \in BOOLEAN,
          category \in {"classical_crypto", "expired_certificate", "expiring_certificate", "hardcoded_key", "unencrypted_at_rest"},
          algorithm \in {{}, {"NONE"}, {"OFF"}, {"RSA"}, {"RSA", "SHA1"}, {"DES", "3DES"}, {"AES_128"}, {"AES-256"}} :
          /\ category = "expired_certificate" => severity = "critical"
          /\ input' = [FindingOf(type, category, status, severity, algorithm)
                           EXCEPT !.suppressed = suppressed, !.manifest = manifest]

\* What the compliance roadmap asks for, the work list plans: every finding on
\* the roadmap has a plan, unless it was suppressed, is a certificate of a
\* post-quantum kind or holds AES-256; and a plan is at least as urgent as the
\* roadmap's item, with two exceptions that are one step less urgent than items of
\* P1: strengthening a cipher that is not broken, and re-encrypting what is at rest
\* under another cipher, which the roadmap files with the signatures (a store or a
\* key without any encryption is P0).  A finding that is off the roadmap is never an
\* emergency unless a scanner graded it critical or its own name says so.
PlansCoverTheRoadmap ==
    part = "finding" /\ input # << >> =>
        LET plans == S!plan_migration(input)
            items == {b \in {S!Buckets[i] : i \in DOMAIN S!Buckets} : b.id \in S!BucketOf(input)}
        IN  /\ ~input.suppressed /\ input.status \notin {"pqc_ready", "hybrid"} /\ S!classify(input) # "safe_symmetric" =>
                  /\ Cardinality(items) = 1 \/ input.type = "hash_function"
                  /\ plans = {} => input.algorithm \cap S!Aes256 # {}
                  /\ \A p \in plans, b \in items :
                        \/ p.priority <= b.priority
                        \/ /\ p.priority = 2 /\ b.priority = 1
                           /\ p.strategy = "strengthen-symmetric" \/ (p.strategy = "encrypt-at-rest" /\ ~S!is_unencrypted(input))
            /\ \A p \in plans : /\ p.patch = "none" <=> p.strategy = "rotate-key" \/ (p.strategy = "upgrade-library" /\ ~input.manifest)
                                /\ p.priority = 0 => \/ input.severity = "critical" \/ "weak" = S!classify(input) \/ input.status = "classical_weak"
                                                     \/ input.category = "hardcoded_key" \/ p.strategy \in {"replace-hash", "replace-symmetric"}
                                                     \/ p.current = {"unencrypted"}

Sample == {FindingOf("tls_connection", "missing_pqc", "classical_secure", "medium", {"AES_128"}),
           FindingOf("certificate", "expired_certificate", "classical_secure", "critical", {"RSA"}),
           FindingOf("certificate", "expiring_certificate", "pqc_ready", "high", {}),
           FindingOf("crypto_library", "classical_crypto", "classical_secure", "low", {"RSA"}),
           FindingOf("signing_key", "weak_algorithm", "classical_weak", "high", {"RSA", "SHA1"}),
           FindingOf("data_store", "missing_pqc", "classical_secure", "low", {"AES-256"}),
           FindingOf("hash_function", "classical_crypto", "unknown", "info", {}),
           FindingOf("encryption_key", "classical_crypto", "classical_secure", "low", {"AES-256"})}

PickInventory ==
    /\ part = "inventory" /\ input = << >> /\ UNCHANGED part
    /\ \E n \in 1..3 : \E fs \in [1..n -> Sample], provider \in [status : Statuses, tls13 : BOOLEAN] :
          input' = [findings |-> fs, provider |-> provider]

Better(f) == {[f EXCEPT !.status = s] : s \in {t \in Statuses : S!score_pqc_status(t) >= S!score_pqc_status(f.status)}}

\* The posture score is between 0 and 100, every asset is counted once in its
\* category and once under its status, an asset that improves never lowers the
\* score, and the first asset of an empty category never raises it: a category
\* nobody scanned stands at 100, so finding something can only show what is there.
PostureIsConsistent ==
    part = "inventory" /\ input # << >> =>
        LET fs == input.findings
            of(f, p) == S!summarize(f, p)
            now == of(fs, <<input.provider>>)
        IN  /\ now.tenths \in 0..1000
            /\ now.total = now.counts.tls + now.counts.certificates + now.counts.dependencies + now.counts.keys
            /\ now.total = now.by_status.pqc_ready + now.by_status.hybrid + now.by_status.classical_secure
                           + now.by_status.classical_weak + now.by_status.unknown
            /\ \A i \in DOMAIN fs : \A g \in Better(fs[i]) : of([fs EXCEPT ![i] = g], <<input.provider>>).tenths >= now.tenths
            /\ \A g \in Sample : now.counts[S!CategoryOf(g.type)] = 0 => of(Append(fs, g), <<input.provider>>).tenths <= now.tenths
            /\ of(fs, <<[input.provider EXCEPT !.tls13 = TRUE]>>).tenths >= now.tenths

\* Every finding that some framework does not accept is on the roadmap, in one
\* item whose deadline is no later than that framework's; an item's severity is
\* its worst finding's, also past the references it keeps; the items are in the
\* order of their priority; and the headline is the strictest of the frameworks.
RoadmapIsComplete ==
    part = "inventory" /\ input # << >> =>
        LET fs == input.findings
            report == S!assess(fs)
            items == report.items
        IN  /\ \A i \in DOMAIN fs, fw \in S!Frameworks :
                  LET verdict == S!status_for(S!classify(fs[i]), fw)
                  IN  verdict[1] \in {"at_risk", "non_compliant"} =>
                          \E k \in DOMAIN items :
                              /\ items[k].id \in S!BucketOf(fs[i]) /\ items[k].deadline <= verdict[2]
                              /\ items[k].severity >= S!Rank(fs[i].severity)
                              /\ i \in items[k].refs \/ items[k].affected_count = RefCap
            /\ \A j, k \in DOMAIN items : j < k => /\ items[j].priority <= items[k].priority
                                                   /\ items[j].refs \cap items[k].refs = {}
            /\ \A fw \in S!Frameworks : /\ report.headline.percent <= report.frameworks[fw].percent
                                         /\ report.headline.nearest <= report.frameworks[fw].nearest

\* Two assets under any policy, or one more than 1998 or 1999 that are compliant.
PickGoverned ==
    /\ part = "governance" /\ input = << >> /\ UNCHANGED part
    /\ \/ \E forbidden \in SUBSET {"RSA", "SHA1", "DSA"} \cup {{""}}, deprecated \in SUBSET {"RSA", "DSA"}, now \in {2030, 2031}, f, g \in Sample :
             input' = [policy |-> [forbidden |-> forbidden, deprecated |-> deprecated, deadline |-> 2030],
                       now |-> now, findings |-> <<f, g>>]
       \/ \E n \in {1999, 2000}, f \in Sample :
             input' = [policy |-> [forbidden |-> {"RSA"}, deprecated |-> {}, deadline |-> 2030], now |-> 2029,
                       findings |-> [i \in 1..n |-> IF i = 1 THEN f ELSE
                                        FindingOf("tls_connection", "missing_pqc", "classical_secure", "medium", {"AES_128"})]]

MlDsa == {"ML-DSA", "DSA"}

\* A pipeline that the gate blocks stays blocked until something is fixed: waiting
\* or forbidding more never unblocks it; migrating an asset to ML-DSA never blocks
\* it, unless a banned name is in that one - a ban of DSA bans ML-DSA too, "an
\* explicit ban wins over everything", and blocks.  An inventory that is compliant
\* throughout passes; one that scores 100.0 does too, unless the score is rounded up
\* (from 2000 assets on, one in 2000 does not show).  A weak asset is never counted
\* as compliant.
GateIsMonotone ==
    part = "governance" /\ input # << >> =>
        LET harsh(v) == CASE v = "pass" -> 0 [] v = "at_risk" -> 1 [] OTHER -> 2
            of(policy, fs, now) == S!evaluate_governance(policy, fs, now)
            now == of(input.policy, input.findings, input.now)
            fixed(i) == [input.findings EXCEPT ![i].status = "pqc_ready", ![i].algorithm = MlDsa]
            size == Len(input.findings)
        IN  /\ harsh(now.verdict) <= harsh(of(input.policy, input.findings, input.now + 1).verdict)
            /\ \A t \in {"RSA", "SHA1", "DSA", ""} :
                  /\ harsh(now.verdict) <= harsh(of([input.policy EXCEPT !.forbidden = @ \cup {t}], input.findings, input.now).verdict)
                  /\ harsh(now.verdict) <= harsh(of([input.policy EXCEPT !.deprecated = @ \cup {t}], input.findings, input.now).verdict)
            /\ \A i \in 1..2 :
                  LET after == of(input.policy, fixed(i), input.now)
                  IN  IF input.policy.forbidden \cap (MlDsa \cup {""}) = {}
                      THEN harsh(after.verdict) <= harsh(now.verdict) /\ after.agility >= now.agility
                      ELSE after.verdict = "fail"
            /\ now.agility = 1000 => now.verdict = "pass" \/ (size - now.compliant) * 2000 <= size
            /\ now.compliant = size => now.verdict = "pass" /\ S!Gate(input.policy, input.findings, input.now) = 200
            /\ now.compliant + now.deprecated + now.forbidden + now.unknown = size
            /\ now.compliant <= Cardinality({i \in DOMAIN input.findings : input.findings[i].status # "classical_weak"})

\* The work list ranks by business risk: every planned finding is on it once, where
\* all applications are equally critical it is the list by urgency, and declaring an
\* application critical lifts a P1 of it above a P0 of a sandbox (get_risk).
RiskRanksTheWork ==
    part = "inventory" /\ input # << >> =>
        LET fs == input.findings
            same == S!get_risk(fs, [i \in DOMAIN fs |-> "unknown"])
        IN  /\ same = S!plan_all(fs)
            /\ \A i \in DOMAIN fs :
                  LET lifted == S!get_risk(fs, [j \in DOMAIN fs |-> IF i = j THEN "critical" ELSE "low"])
                  IN  /\ Len(lifted) = Len(same)
                      /\ \A p \in S!plan_migration(fs[i]) : p.priority < 2 => lifted[1] = i

-----------------------------------------------------------------------------
(* Crypto-agility policies: their scope, and the board that tracks them. *)

MCPolicy == [selector |-> Everything, match |-> [NoCondition EXCEPT !.min_severity = {3}]]
\* Two findings with one fingerprint, one of which a later scan finds repaired, and
\* a third that comes and goes.
MCPool == LET f(id, category, severity, algorithm) ==
                  [id |-> id, type |-> "certificate", category |-> category, status |-> "classical_secure",
                   severity |-> severity, algorithm |-> algorithm, location |-> {"db"}]
          IN  {f(1, "classical_crypto", 3, <<"a">>), f(2, "classical_crypto", 4, <<"a">>), f(1, "classical_crypto", 0, <<"b">>),
               f(3, "missing_pqc", 3, <<"b">>), f(3, "missing_pqc", 0, <<"c">>)}
MCInventory == << >>

Board == part = "board" /\ PolicyNext /\ UNCHANGED <<picked, limiterVars>>

PickScope ==
    /\ part = "scope" /\ input = << >> /\ UNCHANGED part
    /\ \E status \in Statuses, type \in {"tls_connection", "certificate", "data_store", "signing_key"},
          category \in {"missing_pqc", "classical_crypto", "unencrypted_at_rest"},
          location \in {{}, {"10.1"}, {"10.1", "10.12"}}, envs \in [{"10.1", "10.12"} -> {<<"p", "r">>, <<"d">>}] :
          input' = [finding |-> [id |-> 1, type |-> type, category |-> category, status |-> status, severity |-> 3,
                                 algorithm |-> <<"a">>, location |-> location],
                    assets |-> [i \in 1..2 |-> LET a == <<"10.1", "10.12">>[i]
                                                IN  [address |-> a, kind |-> "host", environment |-> envs[a], tags |-> {}]]]

\* The default policies leave no gap in the compliance roadmap: a finding it files
\* under weak violates one of them, so does one it files under transport for want
\* of a post-quantum exchange (category missing_pqc: the other categories of an
\* endpoint are in no default policy) and a certificate it files under signatures;
\* a store does where every owner is production; what is post-quantum violates at
\* most the rule for stores, unless its category says that something is missing;
\* signing keys are seen only by the policy for weak algorithms.  And the order of the inventory matters only where two addresses are in one location.
DefaultPoliciesCover ==
    part = "scope" /\ input # << >> =>
        LET f == input.finding
            violated(assets) == {p \in DOMAIN default_policies : evaluate_policy(default_policies[p], <<f>>, assets) # << >>}
            now == violated(input.assets)
            roadmap == S!BucketOf([type |-> f.type, category |-> f.category, status |-> f.status])
        IN  /\ roadmap = {"weak"} => "no_weak_crypto" \in now
            /\ roadmap = {"tls"} /\ f.category = "missing_pqc" => "pqc_key_exchange" \in now
            /\ roadmap = {"sigs"} /\ f.type = "certificate" => "pqc_certificates" \in now
            /\ f.type = "data_store" /\ f.category \in {"missing_pqc", "classical_crypto"} /\ f.location # {}
               /\ (\A i \in 1..2 : input.assets[i].environment = <<"p", "r">>) => "pqc_data_at_rest" \in now
            /\ f.status \in {"pqc_ready", "hybrid"} /\ f.category # "missing_pqc" => now \subseteq {"pqc_data_at_rest"}
            /\ Cardinality(f.location) < 2 => now = violated(Reverse(input.assets))

\* A crypto policy is kept track of: it selects what its globs and the inventory
\* say, no violation reaches the baseline untold, and an enforcement with connectors
\* that fail or whose reply is lost, overlapping scans, a client that leaves and a
\* crash deals with every violation it can answer for and leaves no other ticket
\* unknown.
PoliciesAreKept ==
    /\ AgilityGlobIsExact /\ DefaultPoliciesCover
    /\ DriftAddsUp /\ EnforcementIsComplete /\ NoTicketIsLost

-----------------------------------------------------------------------------
(* Control reports. *)

PickSettings == part = "controls" /\ input = << >> /\ UNCHANGED part /\ \E c \in C!Settings : input' = c

\* Switching a safeguard on never opens a gap, in any framework, nor lowers a
\* control's grade, also where enforcement goes from monitoring to blocking; and
\* the reports agree on what they share: what the card-payment framework accepts
\* for access, SOC2 calls enforced.
SafeguardsCloseGaps ==
    part = "controls" /\ input # << >> =>
        LET more == {[input EXCEPT ![f] = TRUE] : f \in DOMAIN input \ {"enforce"}}
                    \cup {[input EXCEPT !.enforce = e] : e \in IF input.enforce = "off" THEN {"monitor", "enforce"} ELSE {"enforce"}}
            now == C!all(C!signals_from_config(input))
            soc2 == C!Soc2Controls(input)
        IN  /\ \A c \in more :
                  LET then == C!all(C!signals_from_config(c))
                  IN  /\ \A f \in DOMAIN now : /\ \A k \in DOMAIN now[f].required : now[f].required[k] <= then[f].required[k]
                                               /\ C!get_framework(then[f]) <= C!get_framework(now[f])
                      /\ \A k \in DOMAIN soc2 : soc2[k] <= C!Soc2Controls(c)[k]
                      /\ C!Tally(soc2)[2] <= C!Tally(C!Soc2Controls(c))[2]
            /\ "req8" \notin C!gaps(now.pci) => soc2.rbac = 2 /\ soc2.brute_force = 2 /\ soc2.session = 2
            /\ "ac6" \in C!gaps(now.nist) <=> soc2.least_privilege = 0
            /\ "sc8" \in C!gaps(now.nist) <=> soc2.transit = 0

\* The reports drawn from one set of findings and settings do not contradict one
\* another: score, roadmap, plans, work list, gate and control reports agree where
\* they overlap, and an improvement never makes any of them worse.
ConclusionsAgree ==
    /\ PlansCoverTheRoadmap /\ PostureIsConsistent /\ RoadmapIsComplete
    /\ GateIsMonotone /\ RiskRanksTheWork /\ SafeguardsCloseGaps

-----------------------------------------------------------------------------
(* The rate limiter: login takes twice as long to fill up as the rest. *)

\* Sign-ins and other requests of one client, named in either header or as the
\* peer, and other requests that name none.
MCRequests == LET r(path, forwarded, real, peer) == [path |-> path, forwarded |-> forwarded, real |-> real, peer |-> peer]
              IN  {r("login", "i1", "none", "none"), r("oidc", "none", "i1", "none"), r("other", "none", "none", "i1"),
                   r("other", "none", "none", "none")}
MCBurst == [api |-> 4, login |-> 4]
MCRate == [api |-> 2, login |-> 1]

Limit == part = "limiter" /\ LimiterNext /\ UNCHANGED <<picked, policyVars>>

-----------------------------------------------------------------------------
(* Scans: certificates, packets, offers, re-scans, sweeps, code and logs. *)

Host == [host |-> "db", port |-> 0]
Certs(oids, days) == [parses : {TRUE}, oid : oids, bits : {0}, days : days, subject : {"cn"}]
Unreadable == [parses |-> FALSE, oid |-> "ecdsa", bits |-> 0, days |-> 90, subject |-> "cn"]

PickSignature ==
    /\ part = "signature" /\ input = << >> /\ UNCHANGED part
    /\ \E oid \in DOMAIN N!OIDS \cup {"1.2.840.10045", "1.2.840.113549", "2.16.840"}, bits \in {0, 1024, 2047, 2048, 4096} :
          input' = [oid |-> oid, bits |-> bits]

\* Three places classify a certificate's signature - the file scanner, the shared
\* core and the TLS fingerprint.  They agree on what is post-quantum, although
\* "ml-dsa" contains "dsa"; the two that see the key size agree on RSA and ECDSA;
\* and none of them lets an unknown identifier pass for a post-quantum one.
CertViewsAgree ==
    part = "signature" /\ input # << >> =>
        LET sig == N!resolve(input.oid)
            file == N!classify_signature_of_file(sig, input.bits)
            shared == N!classify_signature(sig, input.bits)
            peer == N!classify_peer_signature(sig)
        IN  /\ (file = "pqc_ready") = (shared = "pqc_ready") /\ (peer = "pqc_ready") = (shared = "pqc_ready")
            /\ (shared = "pqc_ready") = (input.oid = "ml_dsa")
            /\ sig \cap {"rsa", "ecdsa"} # {} => file = shared

PickPacket ==
    /\ part = "packet" /\ input = << >> /\ UNCHANGED part
    /\ \/ \E length \in (0..52) \cup {N!MaxPacket, N!MaxPacket + 1}, padding \in {0, 4, 30, 255}, message \in {20, 21},
             a, b \in {0, 3, 40}, c \in {0, 3} :
             input' = [ssh |-> TRUE, packet |-> [length |-> length, padding |-> padding, message |-> message,
                                                 lists |-> <<a, b, c, a, b>>]]
       \/ \E version \in {3, 4}, total \in (0..30) \cup {1024, 1025, 65535}, confirm \in BOOLEAN, li \in {0, 6, 7, 14, 255},
             neg \in {"credssp", "standard", "failure", "no_negotiation"} :
             input' = [ssh |-> FALSE, answer |-> [version |-> version, total |-> total, confirm |-> confirm, li |-> li, neg |-> neg]]

\* Whatever lengths a server announces - of the packet, its padding, a name list,
\* the confirm or its header - the parsers of the SSH and the RDP probe read only
\* bytes they hold, and give up instead (read_kexinit, read_name_list, read_confirm:
\* a slice beyond the end would end the task).
ReadsStayInside ==
    part = "packet" /\ input # << >> =>
        LET parsed == IF input.ssh THEN N!read_kexinit(input.packet) ELSE N!read_confirm(input.answer)
        IN  \A r \in parsed.reads : 0 <= r[1] /\ r[1] <= r[2] /\ r[2] <= parsed.size

KexNames == {{"mlkem768x25519", "mlkem"}, {"curve25519"}, {"sha1", "group1-"}, {"odd"}}
GoodPacket == [length |-> 100, padding |-> 4, message |-> 20, lists |-> <<3, 3, 3, 3, 3>>]
LongBanner == <<[length |-> 300, ssh |-> FALSE], [length |-> 20, ssh |-> TRUE]>>
Banner == <<[length |-> 20, ssh |-> FALSE], [length |-> 20, ssh |-> TRUE]>>
Offers(kexes) == [kex : kexes, host_key : {{}, {{"ssh-rsa"}, {"ed25519"}}}, ciphers : {{}, {{"-cbc"}, {"aes-gcm"}}}, macs : {{}, {{"sha1"}}}]

PickOffer == part = "offer" /\ input = << >> /\ UNCHANGED part
             /\ \E o \in Offers(UNION {[1..n -> KexNames] : n \in 0..3}) : input' = o

Rank == [info |-> 0, low |-> 1, medium |-> 2, high |-> 3, critical |-> 4]

\* An SSH server that offers one more post-quantum key exchange, at any place of
\* its list, is never judged worse for it and always counted as hybrid; dropping a
\* weak algorithm never adds a finding (evaluate: the headline looks at the whole
\* list and at the preferred entry).
PqcKexNeverHurts ==
    part = "offer" /\ input # << >> =>
        LET judged == N!evaluate(Host, "db", input)
            better(k) == N!evaluate(Host, "db", [input EXCEPT !.kex = k])
        IN  /\ \A i \in 0..Len(input.kex) :
                  LET k == SubSeq(input.kex, 1, i) \o <<{"mlkem768x25519", "mlkem"}>> \o SubSeq(input.kex, i + 1, Len(input.kex))
                  IN  /\ Rank[better(k)[1].severity] <= Rank[judged[1].severity] /\ better(k)[1].status = "hybrid"
                      /\ Tail(better(k)) = Tail(judged)
            /\ \A n \in input.host_key :
                  Len(N!evaluate(Host, "db", [input EXCEPT !.host_key = @ \ {n}])) <= Len(judged)

Conns == {[made |-> TRUE, version |-> v, cipher |-> {c}, certs |-> cs] :
              v \in {"TLS 1.2", "TLS 1.3"}, c \in {"AES_256", "CHACHA20"},
              cs \in {<<a, b>> : a \in Certs({"ecdsa", "ml_dsa"}, {90}), b \in Certs({"ecdsa"}, {-1, 10}) \cup {Unreadable}}}
Stores == [address : {"db"}, enc : {{}, {"aes-128"}, {"aes-256"}}, wrap : {{}, {"rsa"}, {"ml-kem"}}, age : {0, 100, 200}, tls : BOOLEAN]
Packages == {[name |-> "ml_kem", lower |-> "ml-kem", dashed |-> "ml_kem", leaf |-> "ml_kem"],
             [name |-> "x/des", lower |-> "des", dashed |-> "x/des", leaf |-> "des"],
             [name |-> "ring", lower |-> "ring", dashed |-> "ring", leaf |-> "ring"]}
\* Two sections of each ecosystem that has them, which may list the same package.
Manifests == {[type |-> t, path |-> "m",
               sections |-> [s \in {"dependencies", "dev-dependencies", "devDependencies", "require", "require-dev", "all"} |->
                                IF s \in {"dependencies", "require", "all"} THEN <<a, b>> ELSE <<c>>]] :
                  t \in {"cargo", "npm", "pip", "go", "maven", "rubygems", "composer", "other"}, a, b, c \in Packages}
LogCerts == [parses : {TRUE}, oid : {"rsa_sha256"}, bits : {1024, 2048}, days : {90}, subject : {"cn"}] \cup {Unreadable}
Logs == LET entry(id, cn, time, cert) == [id |-> id, cn |-> cn, time |-> time, cert |-> cert]
        IN  {<<entry(1, "cn", t, c), entry(2, n, 3 - t, d)>> : t \in {1, 2}, n \in {"cn", "www"}, c, d \in LogCerts}
SshServers == {[made |-> m, ident |-> i, packet |-> GoodPacket, offer |-> o] :
                   m \in BOOLEAN, i \in {LongBanner, Banner}, o \in Offers({<<a, b>> : a, b \in KexNames})}
Answers == [version : {3}, total : {11, 19}, confirm : {TRUE}, li : {14}, neg : {"credssp", "standard", "failure"}]
RdpServers == {[made |-> TRUE, answer |-> a, conn |-> c] : a \in Answers, c \in {N!None, CHOOSE d \in Conns : d.version = "TLS 1.3"}}

States(kind) ==
    CASE kind = "tls" -> Conns \cup {N!None}
      [] kind = "ssh" -> SshServers
      [] kind = "rdp" -> RdpServers
      [] kind = "store" -> Stores
      [] kind = "file" -> [parses : {TRUE}, oid : DOMAIN N!OIDS, bits : {0, 1024, 2048}, days : {-1, 10, 90}, subject : {"cn"}]
      [] kind = "manifest" -> Manifests
      [] kind = "ct" -> Logs

ScanOf(kind, state) ==
    CASE kind = "tls" -> N!TlsScan(Host, state)
      [] kind = "ssh" -> N!SshScan(Host, state)
      [] kind = "rdp" -> N!RdpScan(Host, state)
      [] kind = "store" -> N!DataStoreScan(state, 90)
      [] kind = "file" -> N!CertificateScan("cert.pem", state)
      [] kind = "manifest" -> N!DependencyScan(state)
      [] kind = "ct" -> N!CtScan(state, 2)

PickRescan == part = "rescan" /\ input = << >> /\ UNCHANGED part
              /\ \E kind \in {"tls", "ssh", "rdp", "store", "file", "manifest", "ct"} : \E before, after \in States(kind) :
                    /\ kind = "manifest" => before.type = after.type
                    /\ input' = [kind |-> kind, before |-> before, after |-> after]

RowsAfter == N!record_scan(N!record_scan({}, ScanOf(input.kind, input.before)), ScanOf(input.kind, input.after))

\* What a scan finds and the store does not keep: stable_finding_id is the
\* location and the title, so a finding is lost to a later one of the same scan
\* with the same two, whatever was there before.  An endpoint, a store or a
\* certificate file loses none (the peer's certificates are numbered).  A manifest
\* loses only that the same package stands in an earlier section too.  Of the
\* logged certificates of one common name only one is kept, and it is the oldest
\* of those listed, whose posture may be another than the newest one's.
OverwrittenIsKnown ==
    part = "rescan" /\ input # << >> =>
        LET found == ScanOf(input.kind, input.after)
            lost == {i \in DOMAIN found : found[i] \notin RowsAfter}
            kept(i) == CHOOSE r \in RowsAfter : r.location = found[i].location /\ r.title = found[i].title
            time(r) == (CHOOSE e \in {input.after[j] : j \in DOMAIN input.after} : e.id = r.check[2]).time
        IN  /\ input.kind \notin {"manifest", "ct"} => lost = {}
            /\ input.kind = "manifest" => \A i \in lost : /\ input.after.type \in {"cargo", "npm"}
                                                         /\ [kept(i) EXCEPT !.check = found[i].check] = found[i]
            /\ input.kind = "ct" => /\ \A i \in lost : time(kept(i)) < time(found[i])
                                    /\ \A i, j \in DOMAIN found : i \in lost /\ j \in lost /\ found[i].location = found[j].location => i = j

Stable == [tls |-> {<<"peer", 1>>, <<"peer", 2>>}, ssh |-> {<<"key_exchange">>, <<"host_key">>, <<"cipher">>, <<"mac">>},
           rdp |-> {<<"peer", 1>>, <<"peer", 2>>}, store |-> {<<"plain">>, <<"kek">>, <<"transit">>}, file |-> {}, manifest |-> {}, ct |-> {}]

\* A check whose title says nothing of the posture has one row per asset after a
\* re-scan, with the posture found last (record_scan keys by location and title).
StableChecksAreReplaced ==
    part = "rescan" /\ input # << >> =>
        \A check \in Stable[input.kind] : Cardinality({r \in RowsAfter : r.check = check}) <= 1

\* store/lib.rs:1058 "re-scanning the same asset/check REPLACES its finding instead
\* of appending a near-duplicate every scan": one row per asset and check.
RescanReplaces ==
    part = "rescan" /\ input # << >> =>
        \A r, q \in RowsAfter : r.location = q.location /\ r.check = q.check => r = q

SmtpLine(code, last, starttls) == [code |-> code, last |-> last, starttls |-> starttls]
Upgrading == {[made |-> TRUE, conn |-> CHOOSE d \in Conns : d.version = "TLS 1.2", reply |-> r, greeting |-> <<SmtpLine(220, TRUE, FALSE)>>,
               ehlo |-> <<SmtpLine(250, FALSE, s), SmtpLine(250, TRUE, FALSE)>>, upgrade |-> <<SmtpLine(u, TRUE, FALSE)>>] :
                  r \in {"S", "N"}, s \in BOOLEAN, u \in {220, 454}}
Servers == [p \in {22, 443, 587, 3389, 5432, 9000} |->
               CASE p = 22 -> {CHOOSE s \in SshServers : s.made, CHOOSE s \in SshServers : ~s.made}
                 [] p = 443 -> {N!None, CHOOSE d \in Conns : d.version = "TLS 1.3"}
                 [] p = 3389 -> RdpServers
                 [] p \in {587, 5432} -> Upgrading
                 [] OTHER -> {N!None}]

PickSweep ==
    /\ part = "sweep" /\ input = << >> /\ UNCHANGED part
    /\ \E open \in SUBSET DOMAIN Servers, pinned \in {0, 443} : \E s22 \in Servers[22], s443 \in Servers[443], s3389 \in Servers[3389], up \in Upgrading :
          input' = [pinned |-> pinned, servers |-> [p \in open |-> CASE p = 22 -> s22 [] p = 443 -> s443 [] p = 3389 -> s3389 [] p = 9000 -> N!None [] OTHER -> up]]

\* A sweep counts every open port it was asked about, and what it finds on a port
\* is what a scan of that port alone finds: a service that is no TLS, refuses the
\* upgrade or fails the handshake hides nothing of its neighbours.
PortsAreIndependent ==
    part = "sweep" /\ input # << >> =>
        LET found == N!NetworkScan([host |-> "db", port |-> input.pinned], DOMAIN Servers, input.servers)
            open == DOMAIN input.servers \cap (IF input.pinned = 0 THEN DOMAIN Servers ELSE {input.pinned})
        IN  /\ (open = {}) = (found = << >>)
            /\ open # {} => found[1].title[2] = Cardinality(open)
            /\ \A p \in open :
                  SelectSeq(found, LAMBDA f : f.location.port = p) = N!PortScan("db", p, input.servers[p])

Lines == {<< >>, [md5 |-> "MD5"], [public_key |-> "RSA"], [public_key |-> "X25519", password |-> "x"]}
PickCode ==
    /\ part = "code" /\ input = << >> /\ UNCHANGED part
    /\ \E a, b, c \in Lines, source, skipped \in BOOLEAN, size \in {10, 1048577} :
          input' = <<[path |-> "a.rs", source |-> TRUE, skipped |-> FALSE, size |-> 10, lines |-> <<a, b>>],
                     [path |-> "b.rs", source |-> source, skipped |-> skipped, size |-> size, lines |-> <<c>>]>>

\* Until the limit cuts it off, a code scan leaves a row for every pattern that
\* occurs in a file it reads, although the lines of one file share a row per
\* pattern and the last line that matches keeps it.
CodeRowsCoverPatterns ==
    part = "code" /\ input # << >> =>
        LET found == N!CodeScan(input)
            rows == N!record_scan({}, found)
            read == N!collect_files(input)
        IN  Len(found) < MaxFindings =>
                \A i \in DOMAIN read : \A j \in DOMAIN read[i].lines : \A p \in DOMAIN read[i].lines[j] :
                    \E r \in rows : r.location = read[i].path /\ r.title = <<p>>

Entries == {[id |-> id, cn |-> "cn", time |-> t, cert |-> c] : id \in 0..3, t \in 1..4, c \in {Unreadable, CHOOSE x \in Certs({"ecdsa"}, {90}) : TRUE}}
PickLog == part = "log" /\ input = << >> /\ UNCHANGED part
           /\ \E n \in 0..4 : \E es \in [1..n -> {e \in Entries : e.cert.parses}] :
                 /\ \A i, j \in 1..n : es[i].time = es[j].time => i = j
                 /\ input' = [entries |-> es]

\* The certificates a transparency scan reports are the newest ones, each once,
\* also when the log lists some of them several times: repeats and entries without
\* an id do not use up the limit (parse_entries).
NewestAreMonitored ==
    part = "log" /\ input # << >> =>
        LET ids == {input.entries[i].id : i \in DOMAIN input.entries} \ {0}
            newest(id) == CHOOSE t \in {input.entries[i].time : i \in {j \in DOMAIN input.entries : input.entries[j].id = id}} :
                             \A i \in DOMAIN input.entries : input.entries[i].id = id => input.entries[i].time <= t
            reported == N!CtScan(input.entries, 2)
        IN  {reported[i].check[2] : i \in DOMAIN reported}
                = {id \in ids : Cardinality({other \in ids : newest(other) > newest(id)}) < 2}
            /\ Len(reported) <= 2

\* A scan says what is there: classifiers agree where they look at the same thing,
\* readers stay inside what a server sent, a port hides nothing of another, repeats
\* in a log do not use up its limit, and what the store does not keep of a scan is
\* the repeat of a package or an older certificate's namesake, and nothing else.
ScannersAreSound ==
    /\ CertViewsAgree /\ ReadsStayInside /\ PqcKexNeverHurts /\ OverwrittenIsKnown
    /\ StableChecksAreReplaced /\ PortsAreIndependent /\ CodeRowsCoverPatterns /\ NewestAreMonitored

-----------------------------------------------------------------------------
(* Merkle trees: batches of up to seven leaves, which may repeat. *)

Leaves == {<<"a">>, <<"b">>}
Batches == UNION {[1..n -> Leaves] : n \in 1..7}
Roots == [b \in Batches |-> K!compute_root(b)]
PickBatch == part = "batch" /\ input = << >> /\ UNCHANGED part /\ \E b \in Batches : input' = b

\* A root stands for one batch, as the checkpoints and the entries of the audit
\* log take it to: another batch of the same length has another root, and so
\* has a shorter or longer one unless the longer repeats leaves (the odd node
\* of a level is paired with itself, merkle.rs compute_root).
RootBindsBatch ==
    part = "batch" /\ input # << >> =>
        \A b \in Batches : b # input /\ Roots[b] = Roots[input] =>
            /\ Len(b) # Len(input)
            /\ LET longer == IF Len(b) > Len(input) THEN b ELSE input
                   shorter == IF Len(b) > Len(input) THEN input ELSE b
               IN  IsPrefix(shorter, longer) /\ Range(longer) = Range(shorter)

\* The proof of every leaf verifies against the root of the batch, wherever an
\* odd level puts it, and with the same path no other leaf does.
ProofsAreSound ==
    part = "batch" /\ input # << >> =>
        \A i \in 0..(Len(input) - 1), v \in Leaves :
            LET p == K!compute_proof(input, i) IN
            /\ p.root = Roots[input]
            /\ K!verify_proof([p EXCEPT !.leaf = v]) <=> v = input[i + 1]

\* Merkle roots and inclusion proofs bind the batch they were made of (merkle.rs).
TreesAreSound == RootBindsBatch /\ ProofsAreSound

-----------------------------------------------------------------------------
Init == /\ \/ part = "graph" /\ input = NoEstate
           \/ part \in {"glob", "policy", "channel", "route", "k8s", "limiter", "board", "scope", "controls", "finding", "inventory", "governance",
                       "signature", "packet", "offer", "rescan", "sweep", "code", "log", "batch"} /\ input = << >>
        /\ LimiterInit /\ PolicyInit /\ (part # "board" => action = "open_pr")

Pick == (Grow \/ PickPattern \/ PickPolicy \/ PickChannel \/ PickRoute \/ PickObject
         \/ PickFinding \/ PickInventory \/ PickGoverned \/ PickScope \/ PickSettings
         \/ PickSignature \/ PickPacket \/ PickOffer \/ PickRescan \/ PickSweep \/ PickCode \/ PickLog \/ PickBatch)
        /\ UNCHANGED <<limiterVars, policyVars>>

Next == Pick \/ Limit \/ Board

Spec == Init /\ [][Next]_vars
=============================================================================
