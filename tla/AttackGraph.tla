----------------------------- MODULE AttackGraph -----------------------------
(***************************************************************************)
(* The attack-path engine (qw-graph): the graph of identities, agents, the *)
(* data they handle, providers, certificates, libraries, assets and hosts; *)
(* its ranked paths; the simulation of a fix (admin/graph.rs, simulate).   *)
(* A pure function of its inputs.                                          *)
(*                                                                         *)
(* Weights are in hundredths and scores in tenths, as integers; a text the *)
(* code classifies by what it contains is the class; titles, labels and    *)
(* recommendations are left out.  An id is the tuple of the names it is    *)
(* put together from; names that hold the separator themselves are left    *)
(* out.  A path keeps the input it comes from.                             *)
(***************************************************************************)
EXTENDS Integers, FiniteSets, FiniteSetsExt

Least(a, b) == IF a < b THEN a ELSE b
Rounded(n, d) == (2 * n + d) \div (2 * d)

ChannelWeight(s) == CASE s = "classical_weak" -> 100 [] s = "classical_secure" -> 85
                      [] s = "hybrid" -> 15 [] s = "pqc_ready" -> 0 [] OTHER -> 60

IsHndl(s) == s \in {"classical_secure", "classical_weak"}

\* data_class_for: the first class one of the tools belongs to.
DataClass(tools) ==
    CASE "privileged" \in tools -> "Broad / Privileged Access" [] "finance" \in tools -> "Financial Data"
      [] "customer" \in tools -> "Customer PII" [] "internal" \in tools -> "Internal Data"
      [] "code" \in tools -> "Source Code" [] "public" \in tools -> "Public Data" [] OTHER -> "General Data"

ClassWeight(class) ==
    CASE class \in {"Broad / Privileged Access", "Financial Data"} -> 100 [] class = "Customer PII" -> 95
      [] class = "Internal Data" -> 70 [] class = "Source Code" -> 65 [] class = "Public Data" -> 20 [] OTHER -> 50

\* The weight of an isolated agent's data is cut to 0.4.
DataWeight(a) == IF a.offline THEN (ClassWeight(DataClass(a.tools)) * 4) \div 10 ELSE ClassWeight(DataClass(a.tools))

\* providers_for_models, by model family.
ProviderOf == [claude |-> "anthropic", gpt |-> "openai", ollama |-> "ollama",
               deepseek |-> "deepseek", gemini |-> "google"]

SeverityFor(score) == CASE score >= 700 -> "critical" [] score >= 500 -> "high"
                        [] score >= 300 -> "medium" [] OTHER -> "low"

-----------------------------------------------------------------------------
(* Inputs: providers (name -> status of a scanned channel), identities,    *)
(* agents, flows, findings, assets, targets.                               *)

\* Findings triaged as suppressed contribute nothing.
Live(in) == {f \in in.findings : ~f.suppressed}

Scanned(in, p) == p \in DOMAIN in.providers
\* Mutant: an override applies to every provider.
MutChannelStatus(in, over, p) ==
    IF over # << >> THEN over[CHOOSE q \in DOMAIN over : TRUE] ELSE IF Scanned(in, p) THEN in.providers[p] ELSE "unknown"

\* The status of the channel that the paths to a provider are scored by: the
\* override of a provider that was never scanned is not looked at.
ChannelStatus(in, over, p) ==
    IF ~Scanned(in, p) THEN "unknown" ELSE IF p \in DOMAIN over THEN over[p] ELSE in.providers[p]

\* The status a provider's node is drawn with: there the override always counts.
NodeStatus(in, over, p) ==
    IF p \in DOMAIN over THEN over[p] ELSE IF Scanned(in, p) THEN in.providers[p] ELSE "unknown"

\* cert_by_host: the worst certificate of a host, at best "pqc_ready".
CertFindings(in, host) == {f \in Live(in) : f.type = "certificate" /\ f.at = host}
CertStatus(in, host) ==
    LET worst == Max({0} \cup {ChannelWeight(f.status) : f \in CertFindings(in, host)})
    IN  CHOOSE s \in {"classical_weak", "classical_secure", "unknown", "hybrid", "pqc_ready"} : ChannelWeight(s) = worst

\* The providers an agent may use or was seen to use.
Reaches(in, a) == {ProviderOf[m] : m \in a.models} \cup {f.provider : f \in {g \in in.flows : g.agent = a.name}}

Requests(in, a, p) == LET own == {f \in in.flows : f.agent = a.name /\ f.provider = p}
                      IN  IF own = {} THEN [requests |-> 0, sensitive |-> 0] ELSE CHOOSE f \in own : TRUE

-----------------------------------------------------------------------------
(* Paths. *)

\* An over-privileged API key that can drive an agent with sensitive data.
AccessPaths(in) ==
    {[id |-> <<"access", i.label, a.name>>, kind |-> "access-risk", score |-> DataWeight(a) * 6, hndl |-> FALSE,
      observed |-> FALSE, class |-> DataClass(a.tools), channel |-> "unknown", from |-> <<i, a>>,
      nodes |-> {<<"identity", i.label>>, <<"agent", a.name>>, <<"data", a.name>>}] :
        <<i, a>> \in {x \in in.identities \X in.agents :
                        x[1].key /\ x[1].role \in {"admin", "operator"} /\ DataWeight(x[2]) >= 65}}

\* The score of data that leaves over a channel, boosted by what was observed.
FlowScore(in, over, a, p) ==
    LET f == Requests(in, a, p)
        boost == IF f.sensitive > 0 THEN 120 ELSE IF f.requests > 0 THEN 108 ELSE 100
    IN  Rounded(Least(DataWeight(a) * ChannelWeight(ChannelStatus(in, over, p))
                      * (IF a.offline THEN 35 ELSE 100) * boost, 100000000), 100000)

Floor15 == 150

FlowPaths(in, over) ==
    {[id |-> <<"flow", x[1].name, x[2]>>, kind |-> "data-exposure", score |-> FlowScore(in, over, x[1], x[2]),
      hndl |-> IsHndl(ChannelStatus(in, over, x[2])), observed |-> Requests(in, x[1], x[2]).requests > 0,
      class |-> DataClass(x[1].tools), channel |-> ChannelStatus(in, over, x[2]), from |-> x,
      nodes |-> {<<"data", x[1].name>>, <<"agent", x[1].name>>, <<"provider", x[2]>>}] :
        x \in {<<a, p>> \in UNION {{a} \X Reaches(in, a) : a \in in.agents} :
                 ChannelWeight(ChannelStatus(in, over, p)) > 0 /\ FlowScore(in, over, a, p) >= Floor15}}

\* A library is listed once, by its first finding; a weak one is a path.
Libraries(in) == {f \in Live(in) : f.type = "library" /\ IsHndl(f.status)}
FirstOf(in, lib) == CHOOSE f \in Libraries(in) : f.at = lib /\ \A g \in Libraries(in) : g.at = lib => f.nr <= g.nr
LibraryPaths(in) ==
    {[id |-> <<"asset", f.at>>, kind |-> "external-asset", score |-> 450, hndl |-> FALSE, observed |-> FALSE,
      class |-> "Codebase", channel |-> f.status, from |-> f, nodes |-> {<<"dependency", f.at>>}] :
        f \in {FirstOf(in, g.at) : g \in Libraries(in)} \cap {g \in in.findings : g.status = "classical_weak"}}

EnvWeight(x) == IF x.prod THEN 95 ELSE 60

AssetPaths(in) ==
    {[id |-> <<"asset", a.id>>, kind |-> "external-asset", score |-> Rounded(ChannelWeight(a.status) * EnvWeight(a), 10),
      hndl |-> IsHndl(a.status), observed |-> FALSE, class |-> IF a.prod THEN "production" ELSE "staging",
      channel |-> a.status, from |-> a, nodes |-> {<<"assetnode", a.id>>}] :
        a \in {x \in in.assets : ~x.air /\ ChannelWeight(x.status) > 0
                                 /\ Rounded(ChannelWeight(x.status) * EnvWeight(x), 10) >= Floor15}}

\* The host subgraph is keyed by the target's id, not by its address.
HostKey(t) == t.id

\* A service not fingerprinted yet counts for 0.55.
ServiceScore(t, s) ==
    Rounded(ChannelWeight(s.status) * EnvWeight(t) * (IF s.status = "unknown" THEN 55 ELSE 100), 1000)

\* Only what the network reaches is a path.
ServicePaths(in) ==
    {[id |-> <<"service", HostKey(x[1]), x[2].port>>, kind |-> "external-asset", score |-> ServiceScore(x[1], x[2]),
      hndl |-> IsHndl(x[2].status), observed |-> FALSE, class |-> IF x[1].prod THEN "production" ELSE "staging",
      channel |-> x[2].status, from |-> x,
      nodes |-> {<<"host", HostKey(x[1])>>, <<"service", HostKey(x[1]), x[2].port>>}] :
        x \in {<<t, s>> \in UNION {{t} \X t.services : t \in in.targets} :
                 s.exposed /\ ~t.air /\ ChannelWeight(s.status) > 0 /\ ServiceScore(t, s) >= Floor15}}

Paths(in, over) == AccessPaths(in) \cup FlowPaths(in, over) \cup LibraryPaths(in) \cup AssetPaths(in) \cup ServicePaths(in)

-----------------------------------------------------------------------------
(* Nodes and edges. *)

ProviderNodes(in) == {<<"provider", p>> : p \in DOMAIN in.providers \cup UNION {Reaches(in, a) : a \in in.agents}}
CertNodes(in) == {<<"cert", p>> : p \in {q \in DOMAIN in.providers : CertFindings(in, q) # {}}}

Nodes(in) ==
    ProviderNodes(in) \cup CertNodes(in)
    \cup {<<"identity", i.label>> : i \in in.identities}
    \cup UNION {{<<"agent", a.name>>, <<"data", a.name>>} : a \in in.agents}
    \cup {<<"dependency", f.at>> : f \in Libraries(in)} \cup {<<"assetnode", a.id>> : a \in in.assets}
    \cup UNION {{<<"host", HostKey(t)>>} \cup {<<"service", HostKey(t), s.port>> : s \in t.services}
                \cup {<<"container", HostKey(t), c>> : c \in t.containers} : t \in in.targets}

Edges(in) ==
    {<<<<"provider", c[2]>>, c>> : c \in CertNodes(in)}
    \cup UNION {{<<<<"data", a.name>>, <<"agent", a.name>>>>}
                \cup {<<<<"identity", i.label>>, <<"agent", a.name>>>> : i \in in.identities}
                \cup {<<<<"agent", a.name>>, <<"provider", p>>>> : p \in Reaches(in, a)} : a \in in.agents}
    \cup UNION {{<<<<"host", HostKey(t)>>, <<"service", HostKey(t), s.port>>>> : s \in t.services}
                \cup {<<<<"host", HostKey(t)>>, <<"container", HostKey(t), c>>>> : c \in t.containers} : t \in in.targets}

\* The blast radius of a node, in hundredths: what its paths would expose.
BlastRadius(in, over, n) ==
    LET flows == {p \in FlowPaths(in, over) : n \in p.nodes /\ n[1] = "provider"}
        hosts == {p \in ServicePaths(in) : n \in p.nodes /\ n[1] = "host"}
    IN  MapThenSumSet(LAMBDA p : (DataWeight(p.from[1]) * (IF p.observed THEN 13 ELSE 10)) \div 10, flows)
        + MapThenSumSet(LAMBDA p : (ChannelWeight(p.from[2].status) * EnvWeight(p.from[1])) \div 100, hosts)

-----------------------------------------------------------------------------
(* Ranking and simulation. *)

DataValue(class) ==
    CASE class \in {"Broad / Privileged Access", "Financial Data"} -> 100 [] class = "Customer PII" -> 95
      [] class = "production" -> 90 [] class = "Internal Data" -> 70 [] class = "Source Code" -> 65
      [] class = "General Data" -> 50 [] class = "staging" -> 45 [] class = "Public Data" -> 20 [] OTHER -> 60

\* exploitability_of.
Exploitability(p) ==
    LET reach == IF p.observed THEN 100 ELSE IF p.kind = "external-asset" THEN 85 ELSE 55
    IN  Rounded(reach * DataValue(p.class) * (IF p.kind = "access-risk" THEN 75 ELSE ChannelWeight(p.channel)), 10000)

Harvestable(p) == ChannelWeight(p.channel) > 10

\* kill_chain_of: the status of its stages.
KillChain(p) ==
    LET weak == ChannelWeight(p.channel)
        harvestable == Harvestable(p)
    IN  IF p.kind = "access-risk" THEN <<"feasible", "feasible", "feasible">>
        ELSE <<IF p.observed THEN "active" ELSE IF harvestable THEN "feasible" ELSE "blocked",
               IF p.hndl THEN "active" ELSE IF harvestable THEN "feasible" ELSE "na",
               IF harvestable THEN "pending" ELSE "blocked",
               IF weak > 50 THEN "feasible" ELSE IF harvestable THEN "pending" ELSE "blocked",
               IF harvestable THEN "feasible" ELSE "blocked">>

\* summarize: the paths of each severity, and the harvestable and observed ones.
Summary(paths) == [s \in {"critical", "high", "medium", "low"} |->
                      Cardinality({p \in paths : SeverityFor(p.score) = s})]

\* simulate: the risk before and after, and the paths that go.
Risk(paths) == MapThenSumSet(LAMBDA p : p.score, paths)
Mitigated(in, over) == {p \in Paths(in, << >>) : p.id \notin {q.id : q \in Paths(in, over)}}

=============================================================================
