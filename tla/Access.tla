------------------------------- MODULE Access -------------------------------
(***************************************************************************)
(* The decisions about a request: the agent policy and its glob patterns   *)
(* (qw-policy), the posture an upstream channel must have                  *)
(* (crypto_policy.rs), the roles and the permission of every admin route   *)
(* (rbac.rs, router.rs auth_layer), the Kubernetes admission webhook.      *)
(*                                                                         *)
(* A name is a sequence of letters only where patterns are matched. A path *)
(* is the sequence of its segments; an id in it is one the program made    *)
(* ("ID"), but for users and crypto policies, whose names people choose    *)
(* (Chosen). Reasons and messages are left out.                            *)
(***************************************************************************)
EXTENDS Integers, Sequences, FiniteSets, TLC, SequencesExt

-----------------------------------------------------------------------------
(* Patterns and the agent policy. *)

Stars(pattern) == {i \in DOMAIN pattern : pattern[i] = "*"}

\* One star is a wildcard (its two sides may overlap in the value); a pattern
\* with several is compared letter by letter.
matches_glob(pattern, value) ==
    IF Cardinality(Stars(pattern)) # 1 THEN pattern = value
    ELSE LET i == CHOOSE i \in Stars(pattern) : TRUE
         IN  IsPrefix(SubSeq(pattern, 1, i - 1), value) /\ IsSuffix(SubSeq(pattern, i + 1, Len(pattern)), value)

AnyMatch(patterns, value) == \E p \in patterns : matches_glob(p, value)

is_cloud_provider(p) == p \in {"anthropic", "openai", "bedrock", "gemini", "deepseek-cloud"}

\* A blocked tool stays blocked; an empty allowed list allows all the others.
ToolsAllowed(policy, tools) ==
    {t \in tools : ~AnyMatch(policy.blocked, t) /\ (policy.allowed = {} \/ AnyMatch(policy.allowed, t))}

\* validate_policy: a pattern both allowed and blocked is refused, but for "*".
Valid(policy) == policy.allowed \cap policy.blocked \subseteq {<<"*">>}

\* evaluate: agents without a policy get the default; a request is refused when
\* all of its tools are, and allowed without the denied ones when some are.
Evaluate(agents, default, ctx) ==
    IF ctx.agent \notin DOMAIN agents THEN [allow |-> default = "allow", tools |-> {}]
    ELSE LET policy == agents[ctx.agent]
             tools == ToolsAllowed(policy, ctx.tools)
             refused == \/ policy.models # {} /\ ~AnyMatch(policy.models, ctx.model)
                        \/ policy.offline /\ is_cloud_provider(ctx.provider)
         IN  IF refused THEN [allow |-> FALSE, tools |-> {}]
             ELSE [allow |-> ctx.tools = {} \/ tools # {}, tools |-> tools]

-----------------------------------------------------------------------------
(* The posture required of an upstream channel. *)

rank(status) == CASE status = "pqc_ready" -> 4 [] status = "hybrid" -> 3 [] status = "classical_secure" -> 2
                  [] status = "classical_weak" -> 1 [] OTHER -> 0

required_rank(require) == CASE require = "pqc" -> 4 [] require = "classical_secure" -> 2 [] OTHER -> 3

\* crypto_policy::evaluate: a channel never scanned ("none") is let through
\* unless block_unknown; one scanned as unknown is not.
Verdict(cfg, provider, channel) ==
    IF ~cfg.enabled \/ provider \in cfg.exempt \/ (channel = "none" /\ ~cfg.block_unknown) THEN "allow"
    ELSE IF rank(channel) >= required_rank(cfg.require) THEN "allow"
    ELSE IF cfg.mode = "enforce" THEN "block" ELSE "flag"

-----------------------------------------------------------------------------
(* Roles and routes. *)

RBAC_RESOURCES == {"scans", "findings", "posture", "cbom", "compliance", "soc2", "frameworks", "rbac", "governance",
    "crypto-policies", "overlay", "pki", "connectors", "connections", "endpoints", "targets", "slos", "alerts",
    "integrations", "remediation", "assets", "audit", "sessions", "threats", "agents", "attack_paths", "report",
    "evidence", "metrics", "tenants", "onboarding", "risk", "stats"}

\* A permission is a pair resource, action; a pattern may have "*" for either.
Grants(patterns, needed) ==
    \E p \in patterns : p[1] \in {"*", needed[1]} /\ p[2] \in {"*", needed[2]}

builtin_role_permissions ==
    LET reads == RBAC_RESOURCES \X {"read"}
        writes == RBAC_RESOURCES \X {"write"}
    IN  [viewer |-> reads, auditor |-> reads, operator |-> reads \cup writes, admin |-> {<<"*", "*">>}]

\* A custom role may take the name of a built-in one.
resolve_roles(custom) == custom @@ builtin_role_permissions

\* The code looks for a piece of text in the path: "/a/b" is found in "/a/bc" too,
\* "/a/b/" only where b is a whole segment that others follow.
Longer == {<<"plans", "plan">>, <<"remediate-bot", "remediate">>}
Begins(segment, word) == segment = word \/ <<segment, word>> \in Longer
Has(path, segments) ==
    \E k \in 0..(Len(path) - Len(segments)) :
        /\ \A i \in 1..(Len(segments) - 1) : path[k + i] = segments[i]
        /\ Begins(path[k + Len(segments)], segments[Len(segments)])
Within(path, segments) == \E k \in 0..(Len(path) - Len(segments) - 1) : SubSeq(path, k + 1, k + Len(segments)) = segments
Under(path, a, b) == Within(path, <<a>>) /\ Has(path, <<b>>)

Act(method) == IF method = "GET" THEN "read" ELSE "write"

segment_after_api(path) == IF \E i \in 1..(Len(path) - 1) : path[i] = "api"
                           THEN path[(CHOOSE i \in 1..(Len(path) - 1) : path[i] = "api") + 1] ELSE ""

\* What the segment after /api/ decides when no rule of its own does: a segment
\* nobody listed is the administrators'.
ResourceOf(path) ==
    LET s == segment_after_api(path)
    IN  IF s = "attack-paths" THEN "attack_paths" ELSE IF s \in RBAC_RESOURCES THEN s ELSE "config"

\* The rules of route_permission, in the order they are tried.
Rules(method, path) == <<
    <<Has(path, <<"api", "config">>), <<"config", Act(method)>>>>,
    <<Has(path, <<"api", "audit">>), <<"audit", "read">>>>,
    <<Has(path, <<"remediate">>), <<"remediation", "write">>>>,
    <<Under(path, "findings", "plan"), <<"remediation", "read">>>>,
    <<Under(path, "findings", "verify"), <<"scans", "write">>>>,
    <<Under(path, "findings", "apply-fix"), <<"remediation", "write">>>>,
    <<Under(path, "findings", "status"), <<"findings", "write">>>>,
    <<Within(path, <<"api", "ct">>), <<"scans", "write">>>>,
    <<Has(path, <<"api", "remediations">>), <<"remediation", Act(method)>>>>,
    <<Has(path, <<"attack-paths", "simulate">>), <<"attack_paths", "read">>>>,
    <<Has(path, <<"api", "findings">>), <<"findings", "read">>>>,
    <<path[Len(path)] = "metrics", <<"metrics", "read">>>>,
    <<TRUE, <<ResourceOf(path), Act(method)>>>> >>

FirstRule(rules) == rules[CHOOSE i \in DOMAIN rules : rules[i][1] /\ \A j \in 1..(i - 1) : ~rules[j][1]][2]

\* Mutant: triage has no rule of its own and falls to the one of /api/findings.
MutRoutePermission(method, path) == FirstRule(RemoveAt(Rules(method, path), 7))

route_permission(method, path) == FirstRule(Rules(method, path))

\* The admin routes: method, path, and whether the handler changes what is
\* stored or acts on another system.
Route(method, path, changes) == [method |-> method, path |-> path, changes |-> changes]
Get(resource, paths) == {Route("GET", <<"api", resource>> \o p, FALSE) : p \in paths}
Post(resource, paths) == {Route("POST", <<"api", resource>> \o p, TRUE) : p \in paths}
Call(resource, paths) == {Route("POST", <<"api", resource>> \o p, FALSE) : p \in paths}
Delete(resource, paths) == {Route("DELETE", <<"api", resource>> \o p, TRUE) : p \in paths}

\* Names a person may give a user or a policy: one like any other, one that is the
\* last segment of another route, one that begins like a segment of another route.
Chosen == {"ID", "metrics", "remediate-bot"}

IdentityRoutes ==
    Get("health", {<< >>}) \cup {Route("GET", <<"metrics">>, FALSE)}
    \cup Post("auth", {<<"login">>, <<"setup">>, <<"2fa", "verify">>, <<"2fa", "enroll">>, <<"2fa", "confirm">>, <<"logout">>})
    \cup Get("auth", {<<"status">>, <<"me">>, <<"config">>, <<"oidc", "login">>, <<"oidc", "callback">>})
    \cup Get("tenants", {<< >>}) \cup Get("sessions", {<< >>, <<"ID">>})
    \cup Post("onboarding", {<<"scan">>, <<"seed-demo">>})
    \cup Get("audit", {<< >>, <<"export">>}) \cup Call("audit", {<<"verify">>})
    \cup Get("config", {<< >>}) \cup Get("settings", {<< >>}) \cup {Route("PUT", <<"api", "settings">>, TRUE)}
    \cup Get("stats", {<< >>}) \cup Get("threats", {<< >>}) \cup Get("agents", {<< >>})

ReportRoutes ==
    Get("attack-paths", {<< >>, <<"timeline">>}) \cup Call("attack-paths", {<<"simulate">>})
    \cup Post("attack-paths", {<<"ID", "remediate">>})
    \cup Get("assets", {<< >>}) \cup Post("assets", {<< >>, <<"sync">>})
    \cup Get("report", {<<"board">>}) \cup Get("evidence", {<< >>})
    \cup UNION {Get(r, {<< >>, <<"history">>}) : r \in {"slos", "governance", "posture"}}
    \cup Get("compliance", {<< >>, <<"report">>}) \cup Get("soc2", {<< >>}) \cup Get("rbac", {<< >>})
    \cup Get("users", {<< >>}) \cup Post("users", {<< >>}) \cup Delete("users", {<<name>> : name \in Chosen})
    \cup {Route("PUT", <<"api", "users", name>>, TRUE) : name \in Chosen}
    \cup Get("frameworks", {<< >>, <<"ID">>}) \cup Get("alerts", {<< >>}) \cup Post("alerts", {<<"test">>})
    \cup Get("cbom", {<< >>, <<"attestation">>, <<"download">>, <<"components">>, <<"services">>})

ScanRoutes ==
    Get("scans", {<< >>, <<"ID">>}) \cup Post("scans", {<< >>}) \cup Get("findings", {<< >>, <<"ID", "plan">>})
    \cup Get("integrations", {<< >>}) \cup Call("integrations", {<<"ID", "test">>})
    \cup Post("integrations", {<<"ID", "sync">>, <<"ID", "scan">>, <<"ID", "register-webhook">>})
    \cup Post("findings", {<<"ID", "remediate">>, <<"ID", "verify">>, <<"ID", "apply-fix">>, <<"ID", "status">>})
    \cup Get("remediations", {<< >>, <<"plans">>}) \cup Post("remediations", {<<"sync">>})
    \cup UNION {Get(r, {<< >>}) : r \in {"risk", "overlay", "connectors"}}
    \cup Post("ct", {<<"scan">>}) \cup Post("k8s", {<<"admission">>})

EstateRoutes ==
    Get("endpoints", {<< >>, <<"enroll">>, <<"agent.ps1">>, <<"agent.sh">>}) \cup Post("endpoints", {<<"report">>})
    \cup Delete("endpoints", {<<"ID">>})
    \cup Get("connections", {<< >>}) \cup Post("connections", {<< >>, <<"ID", "test">>, <<"ID", "scan">>})
    \cup Delete("connections", {<<"ID">>})
    \cup Get("targets", {<< >>, <<"ID">>}) \cup Delete("targets", {<<"ID">>})
    \cup Post("targets", {<< >>, <<"ID", "scan">>, <<"ID", "deep-scan">>, <<"ID", "services", "ID", "protect">>,
                          <<"ID", "services", "ID", "issue-cert">>})
    \cup Get("pki", {<<"ca">>, <<"certificates">>, <<"certificates", "ID">>}) \cup Call("pki", {<<"verify">>})
    \cup Post("pki", {<<"issue">>, <<"certificates", "ID", "renew">>, <<"certificates", "ID", "revoke">>})
    \cup Get("crypto-policies", {<< >>} \cup {<<name>> : name \in Chosen})
    \cup Post("crypto-policies", {<<"evaluate">>} \cup {<<name, "enforce">> : name \in Chosen})
    \cup Post("webhooks", {<<"github">>, <<"jira">>, <<"linear">>})

admin_routes == IdentityRoutes \cup ReportRoutes \cup ScanRoutes \cup EstateRoutes

\* The endpoints that authenticate in another way, or not at all.
Open(path) ==
    \/ path \in {<<"api", "auth", x>> : x \in {"login", "config", "status", "setup"}} \cup {<<"api", "health">>}
    \/ Within(path, <<"api", "auth", "2fa">>) \/ Within(path, <<"api", "auth", "oidc">>) \/ Within(path, <<"api", "webhooks">>)
    \/ path \in {<<"api", "endpoints", x>> : x \in {"report", "agent.ps1", "agent.sh"}} \cup {<<"api", "k8s", "admission">>}

IdentityOnly(path) == path \in {<<"api", "auth", "me">>, <<"api", "auth", "logout">>}

\* auth_layer with auth enabled: what happens to a caller's request for a tenant's
\* data, whose data the handler sees, and whether its success is logged as a change.
auth_layer(route, caller, tenant) ==
    LET needed == route_permission(route.method, route.path)
        run(t, logged) == [outcome |-> "run", org |-> t, logged |-> logged]
    IN  CASE Open(route.path) -> run("none", FALSE)
          [] ~caller.valid -> [outcome |-> "unauthorized", org |-> "none", logged |-> FALSE]
          [] OTHER ->
               IF ~IdentityOnly(route.path) /\ ~Grants(caller.perms, needed)
               THEN [outcome |-> "forbidden", org |-> "none", logged |-> FALSE]
               ELSE run(IF Grants(caller.perms, <<"config", "write">>) /\ tenant # "none" THEN tenant ELSE caller.org,
                        ~IdentityOnly(route.path) /\ needed[2] = "write")

-----------------------------------------------------------------------------
(* The admission webhook. *)

Gated(object) == \/ object.kind = "Secret" /\ object.tls /\ object.cert # "undecodable"
                 \/ object.kind = "Ingress"

Vulnerable(object) == CASE object.kind = "Secret" -> object.cert \in {"classical_weak", "classical_secure"}
                        [] OTHER -> object.tls /\ ~object.declared

\* admission_review: the answer, and whether a finding is recorded.
admission_review(object, enforce) ==
    IF ~Gated(object) \/ ~Vulnerable(object) THEN [allowed |-> TRUE, warned |-> FALSE, recorded |-> FALSE]
    ELSE [allowed |-> ~enforce, warned |-> TRUE, recorded |-> TRUE]
=============================================================================
