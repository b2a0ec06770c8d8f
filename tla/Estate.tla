------------------------------- MODULE Estate -------------------------------
(***************************************************************************)
(* The estate of connected systems (admin/targets_api.rs), the hybrid-PQC  *)
(* overlay in front of their services (overlay.rs), the certificates       *)
(* issued for them (admin/pki_api.rs, qw-pki) and the one-click fix of a   *)
(* finding (admin/remediation.rs, apply_fix).  A handler reads a target's  *)
(* row, waits (for a sweep, an SSH login, a bind), changes its copy and    *)
(* writes the whole row back; nothing is locked in between, and a crash    *)
(* may come between any two statements.  The listeners and the list of     *)
(* routes live in memory; the route rows are re-bound at the next start.   *)
(*                                                                         *)
(* Abstractions: one tenant, one host; a service is its port, source,      *)
(* posture and the two markers; the findings of a sweep and the graph      *)
(* snapshot are those of Findings; the CA is configured.                   *)
(***************************************************************************)
EXTENDS Naturals, FiniteSets

CONSTANTS
    Targets,     \* ids a target may get
    DemoTargets, \* the ids seed_demo uses
    Ports,
    Addrs,       \* addresses a listener may be bound to
    ConfigAddr,  \* listen address of the configured route, 0 without one
    RouteModes,  \* modes asked of a route, of "hybrid" and "pqc-only"
    SweepStatuses, \* postures a sweep reports
    Handlers,    \* requests in flight
    Conns,       \* client connections
    OverlapModes,  \* which of: handlers of one target overlap (TRUE) or not
    MaxRequests, \* bound: handlers started
    MaxRestarts, \* bound: restarts
    MaxCerts     \* bound: certificates

ASSUME EstateAssumption ==
    /\ Targets \subseteq Nat \ {0} /\ Ports \subseteq Nat \ {0} /\ Addrs \subseteq Nat \ {0}
    /\ DemoTargets \subseteq Targets /\ IsFiniteSet(Conns)
    /\ ConfigAddr \in Addrs \cup {0}
    /\ RouteModes \subseteq {"hybrid", "pqc-only"} /\ OverlapModes \subseteq BOOLEAN
    /\ SweepStatuses \subseteq {"classical_weak", "classical_secure", "unknown", "hybrid", "pqc_ready"}
    /\ MaxRequests \in Nat /\ MaxRestarts \in Nat /\ MaxCerts \in Nat

VARIABLES
    overlaps,    \* handlers of one target may overlap
    targets,     \* table targets: id -> [services, status]
    routeRows,   \* table overlay_routes: <<target, port>> -> [listen, mode]
    certs,       \* table certificates: id -> "active" or "revoked"
    routes,      \* OverlayState.routes: route id -> the address of its RouteStats
    stats,       \* the RouteStats of this process: address -> counters
    conns,       \* handle_conn of each connection
    work,        \* the handlers
    deleted,     \* auxiliary: targets whose delete_target has ended
    overlapped,  \* auxiliary: targets on which two handlers were in flight at once
    torn,        \* auxiliary: targets a handler of which was cut by a crash
    unbound,     \* auxiliary: routes whose address was taken at the last start
    requests, restarts

tables == <<targets, routeRows, certs>>
overlay == <<routes, stats, conns>>
aux == <<deleted, overlapped, torn, unbound>>
estateVars == <<overlaps, tables, overlay, work, aux, requests, restarts>>

None == 0
TargetRow(t) == targets[t]
Waiting == [at |-> "idle", target |-> None, port |-> None, row |-> [services |-> {}, status |-> "unknown"],
            mode |-> "hybrid", listen |-> None, cert |-> None, source |-> "network"]
NoConn == [at |-> "none", addr |-> None, pqc |-> FALSE]
Put(f, k, v) == [x \in DOMAIN f \cup {k} |-> IF x = k THEN v ELSE f[x]]
Without(f, S) == [x \in DOMAIN f \ S |-> f[x]]
InFlight(t) == {h \in Handlers : work[h].at # "idle" /\ work[h].target = t}

-----------------------------------------------------------------------------
(* Rows and their services. *)

\* pqc_rank: lower is worse.
Rank(s) == CASE s = "classical_weak" -> 0 [] s = "classical_secure" -> 1
             [] s = "hybrid" -> 3 [] s = "pqc_ready" -> 4 [] OTHER -> 2

\* worst_status.
WorstStatus(services) ==
    IF services = {} THEN "unknown"
    ELSE (CHOOSE s \in services : \A r \in services : Rank(s.status) <= Rank(r.status)).status

\* find_service: the list is sorted by (port, source), so "host" comes first.
Of(services, p) == {s \in services : s.port = p}
FindService(services, p) ==
    CHOOSE s \in Of(services, p) : s.source = "host" \/ \A r \in Of(services, p) : r.source # "host"

\* Mutant: the markers are not carried over.
MutCarried(existing, f) == f

\* A service seen again keeps the markers the port had.
Carried(existing, f) ==
    IF Of(existing, f.port) = {} THEN f
    ELSE LET prev == FindService(existing, f.port)
         IN  [f EXCEPT !.listen = prev.listen, !.cert = prev.cert]

\* merge_services: what this source saw replaces what it saw before.
MergeServices(existing, source, fresh) ==
    {s \in existing : s.source # source} \cup {Carried(existing, f) : f \in fresh}

\* The row after a sweep or a login.
Scanned(row, source, fresh) ==
    LET all == MergeServices(row.services, source, fresh)
    IN  [services |-> all, status |-> WorstStatus(all)]

\* The row with the markers of port p set.
Marked(row, p, listen, cert) ==
    [row EXCEPT !.services =
        {IF s.port # p THEN s
         ELSE [s EXCEPT !.listen = IF listen = None THEN @ ELSE listen,
                        !.cert = IF cert = None THEN @ ELSE cert] : s \in row.services}]

\* One service per port and source; a login knows the protocol, not the crypto.
Seen(source) ==
    {fresh \in SUBSET [port : Ports, source : {source}, listen : {None}, cert : {None},
                       status : IF source = "host" THEN {"classical_weak", "unknown"} \cap SweepStatuses ELSE SweepStatuses] :
        \A a, b \in fresh : a.port = b.port => a = b}

-----------------------------------------------------------------------------
(* Requests. *)

\* A handler starts on target t.
Start(h, t, state) ==
    /\ work[h].at = "idle" /\ requests < MaxRequests
    /\ overlaps \/ InFlight(t) = {}
    /\ requests' = requests + 1
    /\ work' = [work EXCEPT ![h] = state]
    /\ overlapped' = overlapped \cup IF InFlight(t) = {} THEN {} ELSE {t}
    /\ UNCHANGED <<overlaps, deleted, torn, unbound, restarts>>

\* A handler goes on, or ends.
Step(h, pc) == /\ work' = [work EXCEPT ![h] = IF pc = "idle" THEN Waiting ELSE [@ EXCEPT !.at = pc]]
               /\ UNCHANGED <<overlaps, overlapped, torn, unbound, requests, restarts>>
HandlerAt(h, pc) == work[h].at = pc

\* Registered once: ids are random.
Fresh(t) == t \notin DOMAIN targets \cup deleted /\ InFlight(t) = {}
EmptyRow == [services |-> {}, status |-> "unknown"]

\* register.
Register(h, t) ==
    /\ Fresh(t) /\ t \notin DemoTargets
    /\ Start(h, t, Waiting)
    /\ targets' = Put(targets, t, EmptyRow)
    /\ UNCHANGED <<routeRows, certs, overlay>>

\* seed_demo looks whether the tenant has targets, and goes on if not, or if forced.
SeedCheck(h, t) ==
    /\ Fresh(t) /\ t \in DemoTargets
    /\ \E force \in BOOLEAN : force \/ targets = << >>
    /\ Start(h, t, [Waiting EXCEPT !.at = "seed", !.target = t])
    /\ UNCHANGED <<tables, overlay>>

\* seed_demo: a host with a service of known posture.
SeedWrite(h) ==
    /\ HandlerAt(h, "seed")
    /\ \E p \in Ports, s \in SweepStatuses :
          targets' = Put(targets, work[h].target,
                         [services |-> {[port |-> p, source |-> "network", listen |-> None,
                                         cert |-> None, status |-> s]}, status |-> s])
    /\ Step(h, "idle") /\ UNCHANGED <<routeRows, certs, overlay, deleted>>

\* scan_target and deep_scan read the row, then wait for the answer.
ReadToScan(h, t, source) ==
    /\ t \in DOMAIN targets
    /\ Start(h, t, [Waiting EXCEPT !.at = "scan", !.target = t, !.row = TargetRow(t), !.source = source])
    /\ UNCHANGED <<tables, overlay>>

\* The sweep or the login fails: nothing is written.
ScanFails(h) ==
    /\ HandlerAt(h, "scan") /\ Step(h, "idle") /\ UNCHANGED <<tables, overlay, deleted>>

\* scan_target, deep_scan: the row that was read, with the services just seen.
WriteScan(h) ==
    /\ HandlerAt(h, "scan")
    /\ \E fresh \in Seen(work[h].source) :
          targets' = Put(targets, work[h].target, Scanned(work[h].row, work[h].source, fresh))
    /\ Step(h, "idle") /\ UNCHANGED <<routeRows, certs, overlay, deleted>>

\* protect_service: the row and the service.
ReadToProtect(h, t, p, mode) ==
    /\ t \in DOMAIN targets /\ Of(TargetRow(t).services, p) # {}
    /\ Start(h, t, [Waiting EXCEPT !.at = "bind", !.target = t, !.row = TargetRow(t), !.port = p, !.mode = mode])
    /\ UNCHANGED <<tables, overlay>>

\* apply_fix: the first target of the host that exposes the port; a certificate
\* finding gets a certificate, another a route in mode "hybrid".
ApplyFix(h, p) ==
    LET on == {t \in DOMAIN targets : Of(TargetRow(t).services, p) # {}}
        t == CHOOSE x \in on : \A y \in on : x <= y
    IN  /\ on # {}
        /\ \E next \in {"bind", "issue"} :
              Start(h, t, [Waiting EXCEPT !.at = next, !.target = t, !.row = TargetRow(t), !.port = p])
        /\ UNCHANGED <<tables, overlay>>

\* issue_service_cert.
ReadToIssue(h, t, p) ==
    /\ t \in DOMAIN targets /\ Of(TargetRow(t).services, p) # {}
    /\ Start(h, t, [Waiting EXCEPT !.at = "issue", !.target = t, !.row = TargetRow(t), !.port = p])
    /\ UNCHANGED <<tables, overlay>>

-----------------------------------------------------------------------------
(* The overlay. *)

Configured == <<None, None>>

\* RouteStats::new.
NewStats(id, mode) == [id |-> id, mode |-> mode, bound |-> TRUE, total |-> 0, active |-> 0,
                       pqc |-> 0, rejected |-> 0, errors |-> 0, served |-> 0]

Listening == {a \in DOMAIN stats : stats[a].bound}

\* add_route of a handler: an address is bound, its accept loop started, and the
\* list's entry of this id replaced; the loop it had goes on.
BindRoute(h) ==
    LET id == <<work[h].target, work[h].port>>
    IN  /\ HandlerAt(h, "bind")
        /\ \E a \in Addrs \ Listening :
              /\ stats' = Put(stats, a, NewStats(id, work[h].mode))
              /\ routes' = Put(routes, id, a)
              /\ work' = [work EXCEPT ![h].at = "mark", ![h].listen = a]
        /\ UNCHANGED <<tables, conns, overlaps, aux, requests, restarts>>

\* The bind fails: nothing is changed.
BindFails(h) ==
    /\ HandlerAt(h, "bind") /\ Step(h, "idle") /\ UNCHANGED <<tables, overlay, deleted>>

\* protect_service, apply_fix: the row that was read, with the new address.
MarkProtected(h) ==
    /\ HandlerAt(h, "mark")
    /\ targets' = Put(targets, work[h].target, Marked(work[h].row, work[h].port, work[h].listen, None))
    /\ Step(h, "persist") /\ UNCHANGED <<routeRows, certs, overlay, deleted>>

\* Mutant: the requested address is stored, not the bound one.
MutRecordRoute(h) ==
    /\ HandlerAt(h, "persist")
    /\ routeRows' = Put(routeRows, <<work[h].target, work[h].port>>, [listen |-> None, mode |-> work[h].mode])
    /\ Step(h, "idle") /\ UNCHANGED <<targets, certs, overlay, deleted>>

\* record_overlay_route.
RecordRoute(h) ==
    /\ HandlerAt(h, "persist")
    /\ routeRows' = Put(routeRows, <<work[h].target, work[h].port>>, [listen |-> work[h].listen, mode |-> work[h].mode])
    /\ Step(h, "idle") /\ UNCHANGED <<targets, certs, overlay, deleted>>

\* delete_target drops the routes that the store has for the target from the list.
DropRoutes(h, t) ==
    /\ t \in DOMAIN targets
    /\ Start(h, t, [Waiting EXCEPT !.at = "unroute", !.target = t])
    /\ routes' = Without(routes, {id \in DOMAIN routeRows : id[1] = t})
    /\ UNCHANGED <<tables, stats, conns>>

\* delete_overlay_routes_for_target.
DeleteRouteRows(h) ==
    /\ HandlerAt(h, "unroute")
    /\ routeRows' = Without(routeRows, {id \in DOMAIN routeRows : id[1] = work[h].target})
    /\ Step(h, "delete") /\ UNCHANGED <<targets, certs, overlay, deleted>>

\* delete_target.
DeleteTarget(h) ==
    /\ HandlerAt(h, "delete")
    /\ targets' = Without(targets, {work[h].target})
    /\ deleted' = deleted \cup {work[h].target}
    /\ Step(h, "idle") /\ UNCHANGED <<routeRows, certs, overlay>>

\* Accepted by a listener, listed or not: handle_conn counts it.
Accept(c, a) ==
    /\ conns[c].at = "none" /\ a \in Listening
    /\ conns' = [conns EXCEPT ![c] = [at |-> "handshake", addr |-> a, pqc |-> FALSE]]
    /\ stats' = [stats EXCEPT ![a].total = @ + 1, ![a].active = @ + 1]
    /\ UNCHANGED <<tables, routes, overlaps, work, aux, requests, restarts>>

\* The end of handle_conn.
Ended(s, failed) == [s EXCEPT !.active = @ - 1, !.errors = IF failed THEN @ + 1 ELSE @,
                              !.served = IF failed THEN @ ELSE @ + 1]
Fails(c) ==
    /\ conns[c].at \in {"handshake", "forward"}
    /\ conns' = [conns EXCEPT ![c].at = "over"]
    /\ stats' = [stats EXCEPT ![conns[c].addr] = Ended(@, TRUE)]
    /\ UNCHANGED <<tables, routes, overlaps, work, aux, requests, restarts>>

\* The group is recorded; "pqc-only" ends a classical connection here.
Negotiated(s, pqc) ==
    LET n == [s EXCEPT !.pqc = IF pqc THEN @ + 1 ELSE @]
    IN  IF s.mode = "pqc-only" /\ ~pqc THEN Ended([n EXCEPT !.rejected = @ + 1], TRUE) ELSE n

\* handle_conn after the client's handshake.
Handshake(c, pqc) ==
    LET a == conns[c].addr
    IN  /\ conns[c].at = "handshake"
        /\ conns' = [conns EXCEPT ![c].pqc = pqc,
                                  ![c].at = IF stats[a].mode = "pqc-only" /\ ~pqc THEN "over" ELSE "forward"]
        /\ stats' = [stats EXCEPT ![a] = Negotiated(@, pqc)]
        /\ UNCHANGED <<tables, routes, overlaps, work, aux, requests, restarts>>

\* The two legs are piped until one side closes.
Served(c) ==
    /\ conns[c].at = "forward"
    /\ conns' = [conns EXCEPT ![c].at = "over"]
    /\ stats' = [stats EXCEPT ![conns[c].addr] = Ended(@, FALSE)]
    /\ UNCHANGED <<tables, routes, overlaps, work, aux, requests, restarts>>

-----------------------------------------------------------------------------
(* Certificates. *)

NextCert == Cardinality(DOMAIN certs) + 1

\* CertAuthority::issue, record_certificate.
RecordCert(h) ==
    /\ HandlerAt(h, "issue") /\ NextCert <= MaxCerts
    /\ certs' = Put(certs, NextCert, "active")
    /\ work' = [work EXCEPT ![h].at = "certify", ![h].cert = NextCert]
    /\ UNCHANGED <<targets, routeRows, overlay, overlaps, aux, requests, restarts>>

\* CertAuthority::issue fails.
IssueFails(h) ==
    /\ HandlerAt(h, "issue") /\ Step(h, "idle") /\ UNCHANGED <<tables, overlay, deleted>>

\* issue_service_cert, apply_fix: the row that was read, with the certificate.
MarkCertified(h) ==
    /\ HandlerAt(h, "certify")
    /\ targets' = Put(targets, work[h].target, Marked(work[h].row, work[h].port, None, work[h].cert))
    /\ Step(h, "idle") /\ UNCHANGED <<routeRows, certs, overlay, deleted>>

\* renew: a new certificate of the same subject; the renewed one stays as it is.
Renew(h, c) ==
    /\ c \in DOMAIN certs /\ NextCert <= MaxCerts
    /\ Start(h, None, Waiting)
    /\ certs' = Put(certs, NextCert, "active")
    /\ UNCHANGED <<targets, routeRows, overlay>>

\* issue of the PKI API.
Issue(h) ==
    /\ NextCert <= MaxCerts
    /\ Start(h, None, Waiting)
    /\ certs' = Put(certs, NextCert, "active")
    /\ UNCHANGED <<targets, routeRows, overlay>>

\* revoke: the certificate only; the services that use it are not looked at.
Revoke(h, c) ==
    /\ Start(h, None, Waiting)
    /\ certs' = [certs EXCEPT ![c] = "revoked"]
    /\ UNCHANGED <<targets, routeRows, overlay>>

-----------------------------------------------------------------------------
(* Starting. *)

\* The re-binding of the stored routes, in the order of their ids, after the
\* configured route; an address that is taken is skipped.
Before(x, y) == x[1] < y[1] \/ (x[1] = y[1] /\ x[2] < y[2])
Rebound(taken) ==
    {id \in DOMAIN routeRows :
        /\ routeRows[id].listen \notin taken \cup {ConfigAddr}
        /\ \A o \in DOMAIN routeRows : Before(o, id) => routeRows[o].listen # routeRows[id].listen}

\* The configured route, tried first.
ConfigStats(taken) ==
    [NewStats(Configured, "pqc-only") EXCEPT !.bound = ConfigAddr \notin taken,
                                             !.errors = IF ConfigAddr \in taken THEN 1 ELSE 0]
WithConfig(f, k, v) == IF ConfigAddr = None THEN f ELSE Put(f, k, v)

\* spawn of the overlay and the loop of AppState::new.
Restarted(taken) ==
    LET back == Rebound(taken)
    IN  /\ stats' = WithConfig([a \in {routeRows[id].listen : id \in back} |->
                          LET id == CHOOSE i \in back : routeRows[i].listen = a
                          IN  NewStats(id, routeRows[id].mode)], ConfigAddr, ConfigStats(taken))
        /\ routes' = WithConfig([id \in back |-> routeRows[id].listen], Configured, ConfigAddr)
        /\ unbound' = DOMAIN routeRows \ back
        /\ conns' = [c \in Conns |-> NoConn]

\* The process dies, with its handlers, listeners and connections, and starts again.
Restart ==
    /\ restarts < MaxRestarts
    /\ restarts' = restarts + 1
    /\ work' = [h \in Handlers |-> Waiting]
    /\ torn' = torn \cup {work[h].target : h \in {x \in Handlers : work[x].at # "idle"}}
    /\ \E taken \in SUBSET Addrs : Restarted(taken)
    /\ UNCHANGED <<overlaps, tables, deleted, overlapped, requests>>

EstateInit ==
    /\ overlaps \in OverlapModes
    /\ targets = << >> /\ routeRows = << >> /\ certs = << >>
    /\ routes = WithConfig(<< >>, Configured, ConfigAddr)
    /\ stats = WithConfig(<< >>, ConfigAddr, NewStats(Configured, "pqc-only"))
    /\ conns = [c \in Conns |-> NoConn]
    /\ work = [h \in Handlers |-> Waiting]
    /\ deleted = {} /\ overlapped = {} /\ torn = {} /\ unbound = {}
    /\ requests = 0 /\ restarts = 0

HandlerStep(h) ==
    \/ \E t \in Targets : Register(h, t) \/ SeedCheck(h, t) \/ DropRoutes(h, t)
    \/ \E t \in Targets, s \in {"network", "host"} : ReadToScan(h, t, s)
    \/ \E t \in Targets, p \in Ports, m \in RouteModes : ReadToProtect(h, t, p, m)
    \/ \E t \in Targets, p \in Ports : ReadToIssue(h, t, p)
    \/ \E p \in Ports : ApplyFix(h, p)
    \/ SeedWrite(h) \/ ScanFails(h) \/ WriteScan(h)
    \/ BindRoute(h) \/ BindFails(h) \/ MarkProtected(h) \/ RecordRoute(h)
    \/ RecordCert(h) \/ IssueFails(h) \/ MarkCertified(h) \/ Issue(h)
    \/ \E c \in DOMAIN certs : Revoke(h, c) \/ Renew(h, c)
    \/ DeleteRouteRows(h) \/ DeleteTarget(h)

ConnStep(c) ==
    \/ \E a \in Addrs : Accept(c, a)
    \/ \E pqc \in BOOLEAN : Handshake(c, pqc)
    \/ Fails(c) \/ Served(c)

EstateNext == (\E h \in Handlers : HandlerStep(h)) \/ (\E c \in Conns : ConnStep(c)) \/ Restart
EstateSpec == EstateInit /\ [][EstateNext]_estateVars

-----------------------------------------------------------------------------
(* Properties. *)

\* Type: in particular every address is bound at most once, by construction of the function.
EstateTypeOK ==
    /\ DOMAIN targets \subseteq Targets
    /\ \A t \in DOMAIN targets :
          /\ TargetRow(t).services \subseteq [port : Ports, source : {"network", "host"}, listen : Addrs \cup {None},
                                        cert : 0..MaxCerts, status : SweepStatuses \cup {"unknown"}]
          /\ \A r, s \in TargetRow(t).services : r.port = s.port /\ r.source = s.source => r = s
    /\ \A id \in DOMAIN routeRows : routeRows[id] \in [listen : Addrs, mode : RouteModes \cup {"hybrid"}]
    /\ DOMAIN stats \subseteq Addrs /\ \A id \in DOMAIN routes : routes[id] \in DOMAIN stats

\* No handler of t is in flight, none overlapped with another or was cut by a crash.
Clean(t) == InFlight(t) = {} /\ t \notin overlapped /\ t \notin torn

\* The address a service is said to be protected at is the one its stored route has,
\* and an accept loop of this route serves it, unless the address was taken at the start:
\* whatever sequence of sweeps, logins, re-protections, deletions of other targets and restarts.
MarkerIsServed ==
    \A t \in DOMAIN targets : Clean(t) =>
        \A s \in {x \in TargetRow(t).services : x.listen # None} :
            LET id == <<t, s.port>>
            IN  /\ id \in DOMAIN routeRows /\ routeRows[id].listen = s.listen
                /\ id \in unbound \/ (s.listen \in Listening /\ stats[s.listen].id = id)

\* A target that was deleted is gone: no row, no stored route that the next start would
\* re-bind, no entry in the overlay's list.
DeletedIsGone ==
    \A t \in deleted : Clean(t) =>
        /\ t \notin DOMAIN targets
        /\ \A id \in DOMAIN routeRows \cup DOMAIN routes : id[1] # t

\* A service never names a certificate that the store does not have, whatever overlaps or crashes.
CertIsRecorded ==
    \A t \in DOMAIN targets : \A s \in TargetRow(t).services : s.cert = None \/ s.cert \in DOMAIN certs

\* The posture of a target is the worst of the services of all sources, whatever overlaps.
StatusIsWorst == \A t \in DOMAIN targets : TargetRow(t).status = WorstStatus(TargetRow(t).services)

\* The counters of a route add up: every accepted connection is active, was served, or is an
\* error, a rejected one among the errors; a route that could not be bound has its one error.
CountersAddUp ==
    \A a \in DOMAIN stats :
        LET s == stats[a]
        IN  /\ s.active = Cardinality({c \in Conns : conns[c].at \in {"handshake", "forward"} /\ conns[c].addr = a})
            /\ s.total = s.active + s.served + s.errors - (IF s.bound THEN 0 ELSE 1)
            /\ s.rejected <= s.errors /\ s.pqc + s.rejected <= s.total

\* The rows, routes, certificates and counters of the estate agree with one another and
\* with the overlay in memory, over connections and a restart.  Whatever overlaps, this
\* holds of certificates, postures and counters; of markers, routes and deletions, for a
\* target whose requests did not overlap.
EstateIsSound ==
    /\ EstateTypeOK /\ MarkerIsServed /\ DeletedIsGone /\ CertIsRecorded
    /\ StatusIsWorst /\ CountersAddUp

\* While a port stays exposed, no request that has the target for itself takes the
\* protection marker of the port away (the comment of merge_services).
MarkersStay ==
    \A t \in DOMAIN targets : (t \in DOMAIN targets' /\ t \notin overlapped') =>
        \A s \in TargetRow(t).services :
            (s.listen # None /\ \E r \in TargetRow(t)'.services : r.port = s.port)
            => \A r \in TargetRow(t)'.services : r.port = s.port => r.listen # None
=============================================================================
