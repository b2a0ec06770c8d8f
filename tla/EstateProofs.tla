---------------------------- MODULE EstateProofs ----------------------------
(***************************************************************************)
(* Proofs about Estate for any targets, ports, addresses, handlers and     *)
(* connections, overlapping or not, and any number of restarts.            *)
(***************************************************************************)
EXTENDS Estate, FiniteSetTheorems, NaturalsInduction, WellFoundedInduction, TLAPS

-----------------------------------------------------------------------------
(* The inductive invariant. *)

Postures == {"classical_weak", "classical_secure", "unknown", "hybrid", "pqc_ready"}
Places == {"idle", "seed", "scan", "bind", "mark", "persist", "issue", "certify", "unroute", "delete"}

\* Where a handler holds the row it will write back.
Holding == {"scan", "bind", "mark", "issue", "certify"}

ServiceType == [port : Ports, source : {"network", "host"}, listen : Addrs \cup {None},
                cert : 0..MaxCerts, status : SweepStatuses \cup {"unknown"}]
RowType == [services : SUBSET ServiceType, status : Postures]
RouteIds == Targets \X Ports
Modes == {"hybrid", "pqc-only"}
WorkType == [at : Places, target : Targets \cup {None}, port : Ports \cup {None}, row : RowType,
             mode : Modes, listen : Addrs \cup {None}, cert : 0..MaxCerts, source : {"network", "host"}]
StatsType == [id : RouteIds \cup {Configured}, mode : Modes, bound : BOOLEAN, total : Nat, active : Nat,
              pqc : Nat, rejected : Nat, errors : Nat, served : Nat]
ConnType == [at : {"none", "handshake", "forward", "over"}, addr : Addrs \cup {None}, pqc : BOOLEAN]

Types ==
    /\ targets \in [DOMAIN targets -> RowType] /\ DOMAIN targets \subseteq Targets
    /\ routeRows \in [DOMAIN routeRows -> [listen : Addrs, mode : RouteModes \cup {"hybrid"}]]
    /\ DOMAIN routeRows \subseteq RouteIds
    /\ certs \in [DOMAIN certs -> {"active", "revoked"}]
    /\ DOMAIN certs \subseteq Nat \ {0} /\ IsFiniteSet(DOMAIN certs)
    /\ stats \in [DOMAIN stats -> StatsType] /\ DOMAIN stats \subseteq Addrs
    /\ routes \in [DOMAIN routes -> DOMAIN stats] /\ DOMAIN routes \subseteq RouteIds \cup {Configured}
    /\ conns \in [Conns -> ConnType]
    /\ work \in [Handlers -> WorkType]
    /\ deleted \subseteq Targets /\ requests \in Nat /\ restarts \in Nat

\* Services of a port from two sources have one address; the posture is the worst one;
\* certificates are recorded.
RowOK(row, C) ==
    /\ \A r, s \in row.services : r.port = s.port /\ r.source = s.source => r = s
    /\ \A r, s \in row.services : r.port = s.port => r.listen = s.listen
    /\ row.status = WorstStatus(row.services)
    /\ \A s \in row.services : s.cert = None \/ s.cert \in C

RowsOK ==
    /\ \A t \in DOMAIN targets : RowOK(TargetRow(t), DOMAIN certs)
    /\ \A h \in Handlers : RowOK(work[h].row, DOMAIN certs)

\* What a handler has, by where it is.
WorkOK ==
    \A h \in Handlers :
        /\ work[h].at # "idle" => work[h].target \in Targets
        /\ work[h].at \in {"bind", "mark", "persist", "issue", "certify"} => work[h].port \in Ports
        /\ work[h].at \in {"bind", "mark", "persist"} => work[h].mode \in RouteModes \cup {"hybrid"}
        /\ work[h].at \in {"mark", "persist"} => work[h].listen \in Addrs
        /\ work[h].at = "certify" => work[h].cert \in DOMAIN certs

\* A target without overlap has one handler, and the row this one read is the stored one.
AloneOK ==
    /\ \A g, h \in Handlers :
          work[g].at # "idle" /\ work[h].at # "idle" /\ work[g].target = work[h].target
            /\ work[h].target \notin overlapped => g = h
    /\ \A h \in Handlers : work[h].at # "idle" /\ work[h].target \notin overlapped =>
          /\ work[h].at \in Holding =>
                work[h].target \in DOMAIN targets /\ work[h].row = targets[work[h].target]
          /\ work[h].at = "seed" => work[h].target \notin DOMAIN targets
          /\ work[h].target \notin deleted
    /\ \A t \in deleted : t \notin overlapped => t \notin DOMAIN targets

Undisturbed(t) == t \notin overlapped \cup torn
ServedAt(id, a) == a \in Listening /\ stats[a].id = id
IdOf(h) == <<work[h].target, work[h].port>>

\* A target neither overlapped nor torn: the route a handler has bound is served until
\* it is recorded.
BoundOK ==
    \A h \in Handlers : work[h].at \in {"mark", "persist"} /\ Undisturbed(work[h].target) =>
        /\ ServedAt(IdOf(h), work[h].listen)
        /\ work[h].at = "persist" =>
              /\ work[h].target \in DOMAIN targets
              /\ \A s \in targets[work[h].target].services : s.port = work[h].port => s.listen = work[h].listen

\* Its markers are those of the stored routes, but for the one being recorded and
\* while the target is deleted.
MarkedOK ==
    \A t \in DOMAIN targets : Undisturbed(t) =>
        \A s \in TargetRow(t).services : s.listen # None =>
            \/ \E h \in InFlight(t) : work[h].at \in {"unroute", "delete"}
            \/ \E h \in InFlight(t) : work[h].at = "persist" /\ work[h].port = s.port
            \/ /\ <<t, s.port>> \in DOMAIN routeRows /\ routeRows[<<t, s.port>>].listen = s.listen
               /\ <<t, s.port>> \in unbound \/ ServedAt(<<t, s.port>>, s.listen)

\* Its listed routes are stored or being recorded; a deletion leaves neither.
IdsOK ==
    /\ \A id \in DOMAIN routes : id # Configured /\ Undisturbed(id[1]) =>
          \/ id \in DOMAIN routeRows
          \/ \E h \in Handlers : work[h].at \in {"mark", "persist"} /\ IdOf(h) = id
    /\ \A h \in Handlers : Undisturbed(work[h].target) =>
          /\ work[h].at \in {"unroute", "delete"} => \A id \in DOMAIN routes : id[1] # work[h].target
          /\ work[h].at = "delete" => \A id \in DOMAIN routeRows : id[1] # work[h].target
    /\ \A t \in deleted : Undisturbed(t) => \A id \in DOMAIN routeRows \cup DOMAIN routes : id[1] # t

Live(f, a) == {c \in Conns : f[c].at \in {"handshake", "forward"} /\ f[c].addr = a}
Greeting(f, a) == {c \in Conns : f[c].at = "handshake" /\ f[c].addr = a}

\* The counters of a route with so many live connections, so many of them in the handshake.
Counted(s, live, greeting) ==
    /\ s.active = live
    /\ s.total + (IF s.bound THEN 0 ELSE 1) = s.active + s.served + s.errors
    /\ s.rejected <= s.errors
    /\ s.pqc + s.rejected + greeting <= s.total

\* A connection ends one way, and is at a listener until it does.
CountOK ==
    /\ \A c \in Conns : conns[c].at \in {"handshake", "forward"} => conns[c].addr \in Listening
    /\ \A a \in DOMAIN stats : Counted(stats[a], Cardinality(Live(conns, a)), Cardinality(Greeting(conns, a)))

EstateInv == /\ Types /\ RowsOK /\ WorkOK /\ AloneOK /\ BoundOK /\ MarkedOK /\ IdsOK /\ CountOK

-----------------------------------------------------------------------------
(* Tables, and rows of services. *)

LEMMA PutFacts ==
    ASSUME NEW f, NEW k, NEW v
    PROVE  /\ DOMAIN Put(f, k, v) = DOMAIN f \cup {k}
           /\ Put(f, k, v)[k] = v
           /\ \A x \in DOMAIN f : x # k => Put(f, k, v)[x] = f[x]
BY DEF Put

LEMMA PutType ==
    ASSUME NEW f, NEW k, NEW v, NEW S, f \in [DOMAIN f -> S], v \in S
    PROVE  Put(f, k, v) \in [DOMAIN f \cup {k} -> S]
BY DEF Put

LEMMA WithoutFacts ==
    ASSUME NEW f, NEW S
    PROVE  /\ DOMAIN Without(f, S) = DOMAIN f \ S
           /\ \A x \in DOMAIN f \ S : Without(f, S)[x] = f[x]
BY DEF Without

LEMMA WithoutType ==
    ASSUME NEW f, NEW S, NEW R, f \in [DOMAIN f -> R]
    PROVE  Without(f, S) \in [DOMAIN f \ S -> R]
BY DEF Without

LEMMA EmptyIsFunction == ASSUME NEW S PROVE << >> \in [DOMAIN << >> -> S] /\ DOMAIN << >> = {}
OBVIOUS

\* pqc_rank orders the postures and tells them apart.
LEMMA RankFacts ==
    /\ Rank("classical_weak") = 0 /\ Rank("classical_secure") = 1 /\ Rank("unknown") = 2
    /\ Rank("hybrid") = 3 /\ Rank("pqc_ready") = 4
BY DEF Rank

LEMMA RankInjective ==
    ASSUME NEW x \in Postures, NEW y \in Postures, Rank(x) <= Rank(y), Rank(y) <= Rank(x)
    PROVE  x = y
BY RankFacts DEF Postures

LEMMA ServicePosture == ASSUME NEW s \in ServiceType PROVE s.status \in Postures
BY EstateAssumption DEF ServiceType, Postures

\* worst_status of services is the posture of one that is not better than any other.
LEMMA WorstIs ==
    ASSUME NEW S \in SUBSET ServiceType, S # {}
    PROVE  \E s \in S : WorstStatus(S) = s.status /\ \A r \in S : Rank(s.status) <= Rank(r.status)
<1>1. \A s \in S : s.status \in Postures
    BY ServicePosture
<1>2. \E s \in S : \A r \in S : Rank(s.status) <= Rank(r.status)
    <2>1. CASE \E s \in S : s.status = "classical_weak"
        BY <1>1, <2>1, RankFacts DEF Postures
    <2>2. CASE (\A s \in S : s.status # "classical_weak") /\ \E s \in S : s.status = "classical_secure"
        BY <1>1, <2>2, RankFacts DEF Postures
    <2>3. CASE (\A s \in S : s.status \notin {"classical_weak", "classical_secure"}) /\ \E s \in S : s.status = "unknown"
        BY <1>1, <2>3, RankFacts DEF Postures
    <2>4. CASE (\A s \in S : s.status \notin {"classical_weak", "classical_secure", "unknown"}) /\ \E s \in S : s.status = "hybrid"
        BY <1>1, <2>4, RankFacts DEF Postures
    <2>5. CASE \A s \in S : s.status = "pqc_ready"
        BY <1>1, <2>5, RankFacts DEF Postures
    <2> QED
        BY <1>1, <2>1, <2>2, <2>3, <2>4, <2>5 DEF Postures
<1> DEFINE m == CHOOSE s \in S : \A r \in S : Rank(s.status) <= Rank(r.status)
<1>3. m \in S /\ \A r \in S : Rank(m.status) <= Rank(r.status)
    BY <1>2
<1>4. WorstStatus(S) = m.status
    BY DEF WorstStatus
<1> QED
    BY <1>3, <1>4

LEMMA WorstType == ASSUME NEW S \in SUBSET ServiceType PROVE WorstStatus(S) \in Postures
<1>1. CASE S = {}
    BY <1>1 DEF WorstStatus, Postures
<1>2. CASE S # {}
    BY <1>2, WorstIs, ServicePosture
<1> QED
    BY <1>1, <1>2

\* Services with the same postures have the same worst one.
LEMMA WorstSame ==
    ASSUME NEW S \in SUBSET ServiceType, NEW R \in SUBSET ServiceType,
           \A s \in S : \E r \in R : r.status = s.status,
           \A r \in R : \E s \in S : r.status = s.status
    PROVE  WorstStatus(S) = WorstStatus(R)
<1>1. CASE S = {}
    <2>1. R = {}
        BY <1>1
    <2> QED
        BY <1>1, <2>1
<1>2. CASE S # {}
    <2>1. R # {}
        BY <1>2
    <2>2. PICK s \in S : WorstStatus(S) = s.status /\ \A r \in S : Rank(s.status) <= Rank(r.status)
        BY <1>2, WorstIs
    <2>3. PICK r \in R : WorstStatus(R) = r.status /\ \A q \in R : Rank(r.status) <= Rank(q.status)
        BY <2>1, WorstIs
    <2>4. Rank(s.status) <= Rank(r.status) /\ Rank(r.status) <= Rank(s.status)
        BY <2>2, <2>3
    <2> QED
        BY <2>2, <2>3, <2>4, ServicePosture, RankInjective
<1> QED
    BY <1>1, <1>2

\* The services of new are those of old, with the address l, if there is one, at port p.
Remarked(old, new, p, l) ==
    \A s \in new.services :
        \E r \in old.services : s.port = r.port /\ s.listen = IF r.port # p \/ l = None THEN r.listen ELSE l

\* Setting markers of a port changes nothing else of a row.
LEMMA MarkedRow ==
    ASSUME NEW row \in RowType, NEW C, RowOK(row, C), NEW p, NEW l \in Addrs \cup {None}, NEW c \in 0..MaxCerts,
           c = None \/ c \in C
    PROVE  /\ Marked(row, p, l, c) \in RowType
           /\ RowOK(Marked(row, p, l, c), C)
           /\ Remarked(row, Marked(row, p, l, c), p, l)
<1> DEFINE F(s) == IF s.port # p THEN s
                   ELSE [s EXCEPT !.listen = IF l = None THEN @ ELSE l, !.cert = IF c = None THEN @ ELSE c]
           new == {F(s) : s \in row.services}
<1>1. row.services \in SUBSET ServiceType /\ row.status \in Postures
    BY DEF RowType
<1>2. \A s \in ServiceType :
         /\ F(s) \in ServiceType /\ F(s).port = s.port /\ F(s).source = s.source /\ F(s).status = s.status
         /\ F(s).listen = IF s.port # p \/ l = None THEN s.listen ELSE l
         /\ F(s).cert = IF s.port # p \/ c = None THEN s.cert ELSE c
    <2> TAKE s \in ServiceType
    <2>1. CASE s.port # p
        BY <2>1
    <2>2. CASE s.port = p
        <3> DEFINE x == IF l = None THEN s.listen ELSE l
                   y == IF c = None THEN s.cert ELSE c
        <3>1. x \in Addrs \cup {None} /\ y \in 0..MaxCerts
            BY DEF ServiceType
        <3>2. F(s) = [s EXCEPT !.listen = x, !.cert = y]
            BY <2>2
        <3>3. /\ x = IF s.port # p \/ l = None THEN s.listen ELSE l
              /\ y = IF s.port # p \/ c = None THEN s.cert ELSE c
            BY <2>2
        <3> HIDE DEF F, x, y
        <3>4. LET r == [s EXCEPT !.listen = x, !.cert = y]
              IN  /\ r \in ServiceType /\ r.port = s.port /\ r.source = s.source /\ r.status = s.status
                  /\ r.listen = x /\ r.cert = y
            BY <3>1 DEF ServiceType
        <3> QED
            BY <3>2, <3>3, <3>4
    <2> QED
        BY <2>1, <2>2
<1> HIDE DEF F
<1>3. Marked(row, p, l, c) = [services |-> new, status |-> row.status]
    <2>1. Marked(row, p, l, c) = [row EXCEPT !.services = new]
        BY Zenon DEF Marked, F
    <2> HIDE DEF new
    <2> QED
        BY <2>1 DEF RowType
<1>4. new \in SUBSET ServiceType
    BY <1>1, <1>2
<1>5. WorstStatus(new) = WorstStatus(row.services)
    <2>1. \A s \in new : \E r \in row.services : r.status = s.status
        BY <1>1, <1>2
    <2>2. \A r \in row.services : \E s \in new : r.status = s.status
        BY <1>1, <1>2
    <2> HIDE DEF new
    <2> QED
        BY <1>1, <1>4, <2>1, <2>2, WorstSame
<1>6. \A s \in new : \E r \in row.services : s = F(r) /\ r \in ServiceType
    BY <1>1
<1>7. \A s, r \in new : s.port = r.port /\ s.source = r.source => s = r
    BY <1>2, <1>6 DEF RowOK
<1>8. \A s, r \in new : s.port = r.port => s.listen = r.listen
    BY <1>2, <1>6 DEF RowOK
<1>9. \A s \in new : s.cert = None \/ s.cert \in C
    BY <1>2, <1>6 DEF RowOK
<1>10. \A s \in new : \E r \in row.services : s.port = r.port /\ s.listen = IF r.port # p \/ l = None THEN r.listen ELSE l
    BY <1>2, <1>6
<1>11. Marked(row, p, l, c).services = new /\ Marked(row, p, l, c).status = row.status
    BY <1>3
<1> HIDE DEF new
<1> QED
    BY <1>1, <1>3, <1>4, <1>5, <1>7, <1>8, <1>9, <1>10, <1>11 DEF RowOK, RowType, Remarked

\* What a sweep or a login saw.
LEMMA SeenFacts ==
    ASSUME NEW source \in {"network", "host"}, NEW fresh \in Seen(source)
    PROVE  /\ fresh \in SUBSET ServiceType
           /\ \A s \in fresh : s.source = source /\ s.listen = None /\ s.cert = None
           /\ \A s, r \in fresh : s.port = r.port => s = r
<1>1. fresh \in SUBSET [port : Ports, source : {source}, listen : {None}, cert : {None},
                        status : IF source = "host" THEN {"classical_weak", "unknown"} \cap SweepStatuses ELSE SweepStatuses]
    BY DEF Seen
<1>2. \A s, r \in fresh : s.port = r.port => s = r
    BY DEF Seen
<1>3. None \in 0..MaxCerts
    BY EstateAssumption DEF None
<1> QED
    BY <1>1, <1>2, <1>3 DEF ServiceType

\* A service seen again has the markers of its port.
LEMMA CarriedFacts ==
    ASSUME NEW old \in SUBSET ServiceType, NEW f \in ServiceType, f.listen = None, f.cert = None
    PROVE  /\ Carried(old, f) \in ServiceType
           /\ Carried(old, f).port = f.port /\ Carried(old, f).source = f.source
           /\ \/ Of(old, f.port) = {} /\ Carried(old, f).listen = None /\ Carried(old, f).cert = None
              \/ \E s \in old : s.port = f.port /\ Carried(old, f).listen = s.listen /\ Carried(old, f).cert = s.cert
<1>1. CASE Of(old, f.port) = {}
    BY <1>1 DEF Carried
<1>2. CASE Of(old, f.port) # {}
    <2> DEFINE m == FindService(old, f.port)
    <2>1. \E s \in Of(old, f.port) : s.source = "host" \/ \A r \in Of(old, f.port) : r.source # "host"
        BY <1>2
    <2>2. m \in Of(old, f.port)
        BY <2>1 DEF FindService
    <2>3. m \in old /\ m.port = f.port /\ m \in ServiceType
        BY <2>2 DEF Of
    <2>4. Carried(old, f) = [f EXCEPT !.listen = m.listen, !.cert = m.cert]
        BY <1>2 DEF Carried
    <2> HIDE DEF m
    <2> QED
        BY <2>3, <2>4 DEF ServiceType
<1> QED
    BY <1>1, <1>2

\* merge_services keeps a row sound, and every marker was one of its port.
LEMMA ScannedRow ==
    ASSUME NEW row \in RowType, NEW C, RowOK(row, C), NEW source \in {"network", "host"}, NEW fresh \in Seen(source)
    PROVE  /\ Scanned(row, source, fresh) \in RowType
           /\ RowOK(Scanned(row, source, fresh), C)
           /\ \A s \in Scanned(row, source, fresh).services : s.listen = None \/
                 \E r \in row.services : s.port = r.port /\ s.listen = r.listen
           /\ \A s \in Scanned(row, source, fresh).services : \A r \in row.services :
                 s.port = r.port => s.listen = r.listen
<1> DEFINE old == row.services
           new == MergeServices(old, source, fresh)
<1>1. old \in SUBSET ServiceType
    BY DEF RowType
<1>2. /\ fresh \in SUBSET ServiceType
      /\ \A s \in fresh : s.source = source /\ s.listen = None /\ s.cert = None
      /\ \A s, r \in fresh : s.port = r.port => s = r
    BY SeenFacts
<1>3. \A s \in new : \/ s \in old /\ s.source # source
                     \/ \E f \in fresh : s = Carried(old, f)
    BY DEF MergeServices
<1>4. \A f \in fresh :
         /\ Carried(old, f) \in ServiceType
         /\ Carried(old, f).port = f.port /\ Carried(old, f).source = source
         /\ \/ (\A s \in old : s.port # f.port) /\ Carried(old, f).listen = None /\ Carried(old, f).cert = None
            \/ \E s \in old : s.port = f.port /\ Carried(old, f).listen = s.listen /\ Carried(old, f).cert = s.cert
    BY <1>1, <1>2, CarriedFacts DEF Of
<1> HIDE DEF new
<1>5. new \in SUBSET ServiceType
    BY <1>1, <1>3, <1>4
<1>6. \A r, s \in old : r.port = s.port => r.listen = s.listen
    BY DEF RowOK
<1>7. \A s, r \in new : s.port = r.port /\ s.source = r.source => s = r
    BY <1>2, <1>3, <1>4 DEF RowOK
<1>8. \A s \in new : \A r \in old : s.port = r.port => s.listen = r.listen
    BY <1>3, <1>4, <1>6
<1>9. \A s \in new : s.listen = None \/ \E r \in old : s.port = r.port /\ s.listen = r.listen
    BY <1>3, <1>4
<1>10. \A s, r \in new : s.port = r.port => s.listen = r.listen
    <2> SUFFICES ASSUME NEW s \in new, NEW r \in new, s.port = r.port PROVE s.listen = r.listen
        OBVIOUS
    <2>1. CASE \E x \in old : x.port = s.port
        BY <2>1, <1>8
    <2>2. CASE \A x \in old : x.port # s.port
        BY <2>2, <1>9
    <2> QED
        BY <2>1, <2>2
<1>11. \A s \in new : s.cert = None \/ s.cert \in C
    BY <1>3, <1>4 DEF RowOK
<1>12. Scanned(row, source, fresh) = [services |-> new, status |-> WorstStatus(new)]
    BY DEF Scanned, new
<1>13. WorstStatus(new) \in Postures
    BY <1>5, WorstType
<1>14. Scanned(row, source, fresh).services = new /\ Scanned(row, source, fresh).status = WorstStatus(new)
    BY <1>12
<1> QED
    BY <1>5, <1>7, <1>8, <1>9, <1>10, <1>11, <1>12, <1>13, <1>14 DEF RowOK, RowType

LEMMA EmptyRowOK == EmptyRow \in RowType /\ EmptyRow.services = {} /\ \A C : RowOK(EmptyRow, C)
BY DEF EmptyRow, RowType, RowOK, WorstStatus, Postures

LEMMA RowOKMore ==
    ASSUME NEW row, NEW C, NEW D, RowOK(row, C), C \subseteq D
    PROVE  RowOK(row, D)
BY DEF RowOK

LEMMA WaitingFacts ==
    /\ Waiting \in WorkType /\ Waiting.at = "idle" /\ Waiting.row = EmptyRow
BY EstateAssumption, EmptyRowOK DEF Waiting, WorkType, EmptyRow, Places, Modes, None

-----------------------------------------------------------------------------
(* Steps of one handler. *)

\* Certificates are added or revoked, never dropped.
CertsKept ==
    /\ certs' \in [DOMAIN certs' -> {"active", "revoked"}] /\ DOMAIN certs \subseteq DOMAIN certs'
    /\ DOMAIN certs' \subseteq Nat \ {0} /\ IsFiniteSet(DOMAIN certs')

LEMMA CertsSame == ASSUME Types, UNCHANGED certs PROVE CertsKept
BY DEF Types, CertsKept

LEMMA CountSame == ASSUME CountOK, UNCHANGED <<stats, conns>> PROVE CountOK'
BY DEF CountOK, Listening

LEMMA WorkAfter ==
    ASSUME Types, NEW h \in Handlers, NEW w \in WorkType, work' = [work EXCEPT ![h] = w]
    PROVE  /\ work' \in [Handlers -> WorkType] /\ work'[h] = w
           /\ \A g \in Handlers : g # h => work'[g] = work[g]
BY DEF Types

\* A handler that goes from a read to the next one, or ends, writes nothing; what it
\* holds for a target it has for itself is what is stored.
LEMMA ReaderStep ==
    ASSUME EstateInv, NEW h \in Handlers, NEW w \in WorkType, work' = [work EXCEPT ![h] = w],
           CertsKept, UNCHANGED <<targets, routeRows, routes, stats, conns, deleted, torn, unbound>>,
           overlapped \subseteq overlapped', requests' \in Nat, restarts' \in Nat,
           work[h].at \in {"idle", "seed", "scan", "bind", "issue"},
           w.at \in {"idle", "seed", "scan", "bind", "issue", "certify"},
           RowOK(w.row, DOMAIN certs'),
           w.at # "idle" => w.target \in Targets,
           w.at \in {"bind", "issue", "certify"} => w.port \in Ports,
           w.at = "bind" => w.mode \in RouteModes \cup {"hybrid"},
           w.at = "certify" => w.cert \in DOMAIN certs',
           w.at # "idle" /\ w.target \notin overlapped' =>
              /\ \A g \in Handlers : g # h /\ work[g].at # "idle" => work[g].target # w.target
              /\ w.at \in Holding => w.target \in DOMAIN targets /\ w.row = targets[w.target]
              /\ w.at = "seed" => w.target \notin DOMAIN targets
              /\ w.target \notin deleted
    PROVE  EstateInv'
<1>1. Types /\ RowsOK /\ WorkOK /\ AloneOK /\ BoundOK /\ MarkedOK /\ IdsOK /\ CountOK
    BY DEF EstateInv
<1>2. /\ work' \in [Handlers -> WorkType] /\ work'[h] = w
      /\ \A g \in Handlers : g # h => work'[g] = work[g]
    BY <1>1, WorkAfter
<1>3. Types'
    BY <1>1, <1>2 DEF Types, CertsKept
<1>4. RowsOK'
    <2>1. \A t \in DOMAIN targets : RowOK(targets[t], DOMAIN certs')
        BY <1>1, RowOKMore DEF RowsOK, CertsKept, TargetRow
    <2>2. \A g \in Handlers : RowOK(work'[g].row, DOMAIN certs')
        BY <1>1, <1>2, RowOKMore DEF RowsOK, CertsKept
    <2> QED
        BY <2>1, <2>2 DEF RowsOK, TargetRow
<1>5. WorkOK'
    BY <1>1, <1>2 DEF WorkOK, CertsKept
<1>6. AloneOK'
    BY <1>1, <1>2 DEF AloneOK
<1>7. BoundOK'
    BY <1>1, <1>2 DEF BoundOK, Undisturbed, ServedAt, IdOf, Listening
<1>8. MarkedOK'
    BY <1>1, <1>2 DEF MarkedOK, Undisturbed, ServedAt, InFlight, Listening, TargetRow
<1>9. IdsOK'
    BY <1>1, <1>2 DEF IdsOK, Undisturbed, IdOf
<1>10. CountOK'
    BY <1>1, CountSame
<1> QED
    BY <1>3, <1>4, <1>5, <1>6, <1>7, <1>8, <1>9, <1>10 DEF EstateInv

LEMMA StepWork ==
    ASSUME NEW h \in Handlers, NEW pc, Step(h, pc)
    PROVE  /\ pc = "idle" => work' = [work EXCEPT ![h] = Waiting]
           /\ pc # "idle" => work' = [work EXCEPT ![h] = [work[h] EXCEPT !.at = pc]]
           /\ UNCHANGED <<overlapped, torn, unbound, requests, restarts>>
BY DEF Step

\* A handler that ends without a write.
LEMMA GivesUp ==
    ASSUME EstateInv, NEW h \in Handlers, work[h].at \in {"scan", "bind", "issue"}, Step(h, "idle"),
           UNCHANGED <<tables, overlay, deleted>>
    PROVE  EstateInv'
<1>1. /\ work' = [work EXCEPT ![h] = Waiting]
      /\ UNCHANGED <<overlapped, torn, unbound, requests, restarts>>
    BY StepWork
<1>2. requests' \in Nat /\ restarts' \in Nat /\ CertsKept
    BY <1>1, CertsSame DEF EstateInv, Types, tables
<1> QED
    BY <1>1, <1>2, ReaderStep, WaitingFacts, EmptyRowOK DEF tables, overlay

LEMMA ScanFailsStep == ASSUME NEW h \in Handlers PROVE EstateInv /\ ScanFails(h) => EstateInv'
BY GivesUp DEF ScanFails, HandlerAt

LEMMA BindFailsStep == ASSUME NEW h \in Handlers PROVE EstateInv /\ BindFails(h) => EstateInv'
BY GivesUp DEF BindFails, HandlerAt

LEMMA IssueFailsStep == ASSUME NEW h \in Handlers PROVE EstateInv /\ IssueFails(h) => EstateInv'
BY GivesUp DEF IssueFails, HandlerAt

LEMMA StartFacts ==
    ASSUME Types, NEW h \in Handlers, NEW t, NEW w, Start(h, t, w)
    PROVE  /\ work[h].at = "idle" /\ work' = [work EXCEPT ![h] = w]
           /\ UNCHANGED <<deleted, torn, unbound>> /\ requests' \in Nat /\ restarts' \in Nat
           /\ overlapped \subseteq overlapped'
           /\ t \notin overlapped' => \A g \in Handlers : work[g].at # "idle" => work[g].target # t
BY DEF Start, InFlight, Types

\* The requests that touch certificates only.
LEMMA CertStep ==
    ASSUME EstateInv, NEW h \in Handlers, Start(h, None, Waiting), CertsKept,
           UNCHANGED <<targets, routeRows, overlay>>
    PROVE  EstateInv'
<1>1. /\ work[h].at = "idle" /\ work' = [work EXCEPT ![h] = Waiting]
      /\ UNCHANGED <<deleted, torn, unbound>> /\ requests' \in Nat /\ restarts' \in Nat
      /\ overlapped \subseteq overlapped'
    BY StartFacts DEF EstateInv
<1> QED
    BY <1>1, ReaderStep, WaitingFacts, EmptyRowOK DEF overlay

LEMMA NextCertFacts ==
    ASSUME Types, NextCert <= MaxCerts, certs' = Put(certs, NextCert, "active")
    PROVE  CertsKept /\ NextCert \in 0..MaxCerts /\ NextCert \in DOMAIN certs'
<1>1. Cardinality(DOMAIN certs) \in Nat
    BY FS_CardinalityType DEF Types
<1>2. NextCert \in Nat \ {0} /\ NextCert \in 0..MaxCerts
    BY <1>1, EstateAssumption DEF NextCert
<1>3. DOMAIN certs' = DOMAIN certs \cup {NextCert}
    BY PutFacts
<1>4. IsFiniteSet(DOMAIN certs')
    BY <1>3, FS_AddElement DEF Types
<1>5. certs' \in [DOMAIN certs' -> {"active", "revoked"}]
    BY <1>3, PutType DEF Types
<1> QED
    BY <1>2, <1>3, <1>4, <1>5 DEF CertsKept, Types

LEMMA RenewStep == ASSUME NEW h \in Handlers, NEW c PROVE EstateInv /\ Renew(h, c) => EstateInv'
BY CertStep, NextCertFacts DEF Renew, EstateInv

LEMMA IssueStep == ASSUME NEW h \in Handlers PROVE EstateInv /\ Issue(h) => EstateInv'
BY CertStep, NextCertFacts DEF Issue, EstateInv

LEMMA RevokeStep == ASSUME NEW h \in Handlers, NEW c \in DOMAIN certs PROVE EstateInv /\ Revoke(h, c) => EstateInv'
<1> SUFFICES ASSUME EstateInv, Revoke(h, c) PROVE EstateInv'
    OBVIOUS
<1>1. CertsKept
    BY DEF EstateInv, Types, Revoke, CertsKept
<1> QED
    BY <1>1, CertStep DEF Revoke

LEMMA RecordCertStep == ASSUME NEW h \in Handlers PROVE EstateInv /\ RecordCert(h) => EstateInv'
<1> SUFFICES ASSUME EstateInv, RecordCert(h) PROVE EstateInv'
    OBVIOUS
<1> DEFINE w == [work[h] EXCEPT !.at = "certify", !.cert = NextCert]
<1>1. Types /\ RowsOK /\ WorkOK /\ AloneOK
    BY DEF EstateInv
<1>2. CertsKept /\ NextCert \in 0..MaxCerts /\ NextCert \in DOMAIN certs'
    BY <1>1, NextCertFacts DEF RecordCert
<1>3. work[h].at = "issue" /\ work[h] \in WorkType
    BY <1>1 DEF RecordCert, HandlerAt, Types
<1>4. /\ w \in WorkType /\ w.at = "certify" /\ w.cert = NextCert /\ w.target = work[h].target
      /\ w.row = work[h].row /\ w.port = work[h].port
    BY <1>2, <1>3 DEF WorkType, Places
<1>5. work' = [work EXCEPT ![h] = w]
    BY <1>1 DEF RecordCert, Types
<1>6. RowOK(w.row, DOMAIN certs')
    BY <1>1, <1>2, <1>4, RowOKMore DEF RowsOK, CertsKept
<1>7. requests' \in Nat /\ restarts' \in Nat
    BY <1>1 DEF RecordCert, Types
<1>8. UNCHANGED <<targets, routeRows, routes, stats, conns, deleted, torn, unbound, overlapped>>
    BY DEF RecordCert, overlay, aux
<1>9. w.target \in Targets /\ w.port \in Ports
    BY <1>1, <1>3, <1>4 DEF WorkOK
<1>10. w.target \notin overlapped' =>
          /\ \A g \in Handlers : g # h /\ work[g].at # "idle" => work[g].target # w.target
          /\ w.at \in Holding => w.target \in DOMAIN targets /\ w.row = targets[w.target]
          /\ w.target \notin deleted
    BY <1>1, <1>3, <1>4, <1>8 DEF AloneOK, Holding
<1> HIDE DEF w
<1> QED
    BY <1>2, <1>3, <1>4, <1>5, <1>6, <1>7, <1>8, <1>9, <1>10, ReaderStep

\* A handler that starts by reading the row, or that there is none.
LEMMA Begins ==
    ASSUME EstateInv, NEW h \in Handlers, NEW t \in Targets, NEW w \in WorkType, Start(h, t, w),
           UNCHANGED <<tables, overlay>>, w.target = t, w.at \in {"seed", "scan", "bind", "issue"},
           w.at = "seed" => t \notin DOMAIN targets /\ t \notin deleted /\ w.row = EmptyRow,
           w.at # "seed" => t \in DOMAIN targets /\ w.row = targets[t],
           w.at \in {"bind", "issue"} => w.port \in Ports,
           w.at = "bind" => w.mode \in RouteModes \cup {"hybrid"}
    PROVE  EstateInv'
<1>1. Types /\ RowsOK /\ AloneOK
    BY DEF EstateInv
<1>2. /\ work[h].at = "idle" /\ work' = [work EXCEPT ![h] = w]
      /\ UNCHANGED <<deleted, torn, unbound>> /\ requests' \in Nat /\ restarts' \in Nat
      /\ overlapped \subseteq overlapped'
      /\ t \notin overlapped' => \A g \in Handlers : work[g].at # "idle" => work[g].target # t
    BY <1>1, StartFacts
<1>3. UNCHANGED <<targets, routeRows, certs, routes, stats, conns>>
    BY DEF tables, overlay
<1>4. CertsKept
    BY <1>1, <1>3, CertsSame
<1>5. RowOK(w.row, DOMAIN certs')
    BY <1>1, <1>3, EmptyRowOK DEF RowsOK, TargetRow
<1>6. t \notin overlapped' => t \notin deleted
    BY <1>1, <1>2 DEF AloneOK
<1>7. w.at # "idle" /\ w.target \notin overlapped' =>
         /\ \A g \in Handlers : g # h /\ work[g].at # "idle" => work[g].target # w.target
         /\ w.at \in Holding => w.target \in DOMAIN targets /\ w.row = targets[w.target]
         /\ w.at = "seed" => w.target \notin DOMAIN targets
         /\ w.target \notin deleted
    BY <1>2, <1>6 DEF Holding
<1>8. /\ work[h].at \in {"idle", "seed", "scan", "bind", "issue"}
      /\ w.at \in {"idle", "seed", "scan", "bind", "issue", "certify"} /\ w.at # "certify"
      /\ w.at # "idle" => w.target \in Targets
    BY <1>2
<1> QED
    BY <1>2, <1>3, <1>4, <1>5, <1>7, <1>8, ReaderStep

LEMMA SeedCheckStep == ASSUME NEW h \in Handlers, NEW t \in Targets PROVE EstateInv /\ SeedCheck(h, t) => EstateInv'
<1> SUFFICES ASSUME EstateInv, SeedCheck(h, t) PROVE EstateInv'
    OBVIOUS
<1> DEFINE w == [Waiting EXCEPT !.at = "seed", !.target = t]
<1>1. w \in WorkType /\ w.at = "seed" /\ w.target = t /\ w.row = EmptyRow
    BY WaitingFacts DEF WorkType, Places
<1>2. Start(h, t, w) /\ t \notin DOMAIN targets /\ t \notin deleted /\ UNCHANGED <<tables, overlay>>
    BY DEF SeedCheck, Fresh
<1> HIDE DEF w
<1> QED
    BY <1>1, <1>2, Begins

LEMMA ReadToScanStep ==
    ASSUME NEW h \in Handlers, NEW t \in Targets, NEW s \in {"network", "host"}
    PROVE  EstateInv /\ ReadToScan(h, t, s) => EstateInv'
<1> SUFFICES ASSUME EstateInv, ReadToScan(h, t, s) PROVE EstateInv'
    OBVIOUS
<1> DEFINE w == [Waiting EXCEPT !.at = "scan", !.target = t, !.row = TargetRow(t), !.source = s]
<1>1. t \in DOMAIN targets /\ Start(h, t, w) /\ UNCHANGED <<tables, overlay>>
    BY DEF ReadToScan
<1>2. TargetRow(t) \in RowType /\ TargetRow(t) = targets[t]
    BY <1>1 DEF EstateInv, Types, TargetRow
<1>3. w \in WorkType /\ w.at = "scan" /\ w.target = t /\ w.row = targets[t]
    BY <1>2, WaitingFacts DEF WorkType, Places
<1> HIDE DEF w
<1> QED
    BY <1>1, <1>3, Begins

LEMMA ReadToProtectStep ==
    ASSUME NEW h \in Handlers, NEW t \in Targets, NEW p \in Ports, NEW m \in RouteModes
    PROVE  EstateInv /\ ReadToProtect(h, t, p, m) => EstateInv'
<1> SUFFICES ASSUME EstateInv, ReadToProtect(h, t, p, m) PROVE EstateInv'
    OBVIOUS
<1> DEFINE w == [Waiting EXCEPT !.at = "bind", !.target = t, !.row = TargetRow(t), !.port = p, !.mode = m]
<1>1. t \in DOMAIN targets /\ Start(h, t, w) /\ UNCHANGED <<tables, overlay>>
    BY DEF ReadToProtect
<1>2. TargetRow(t) \in RowType /\ TargetRow(t) = targets[t] /\ m \in Modes
    BY <1>1, EstateAssumption DEF EstateInv, Types, TargetRow, Modes
<1>3. w \in WorkType /\ w.at = "bind" /\ w.target = t /\ w.row = targets[t] /\ w.port = p /\ w.mode = m
    BY <1>2, WaitingFacts DEF WorkType, Places
<1> HIDE DEF w
<1> QED
    BY <1>1, <1>3, Begins

\* The handler that will bind or issue for port p of t.
Fixing(t, p, pc) == [Waiting EXCEPT !.at = pc, !.target = t, !.row = TargetRow(t), !.port = p]

LEMMA FixesAt ==
    ASSUME EstateInv, NEW h \in Handlers, NEW t \in DOMAIN targets, NEW p \in Ports, NEW pc \in {"bind", "issue"},
           Start(h, t, Fixing(t, p, pc)), UNCHANGED <<tables, overlay>>
    PROVE  EstateInv'
<1> DEFINE w == Fixing(t, p, pc)
<1>1. TargetRow(t) \in RowType /\ TargetRow(t) = targets[t] /\ t \in Targets
    BY DEF EstateInv, Types, TargetRow
<1>2. w \in WorkType /\ w.at = pc /\ w.target = t /\ w.row = targets[t] /\ w.port = p /\ w.mode = "hybrid"
    BY <1>1, WaitingFacts DEF Fixing, WorkType, Places, Waiting
<1>3. Start(h, t, w)
    OBVIOUS
<1> HIDE DEF w
<1> QED
    BY <1>1, <1>2, <1>3, Begins

LEMMA ReadToIssueStep ==
    ASSUME NEW h \in Handlers, NEW t \in Targets, NEW p \in Ports
    PROVE  EstateInv /\ ReadToIssue(h, t, p) => EstateInv'
<1> SUFFICES ASSUME EstateInv, ReadToIssue(h, t, p) PROVE EstateInv'
    OBVIOUS
<1>1. t \in DOMAIN targets /\ Start(h, t, Fixing(t, p, "issue")) /\ UNCHANGED <<tables, overlay>>
    BY DEF ReadToIssue, Fixing
<1> QED
    BY <1>1, FixesAt

LEMMA LeastOf == ASSUME NEW S, S \subseteq Nat, S # {} PROVE \E x \in S : \A y \in S : x <= y
<1>1. PICK x \in S : \A y \in S : ~(<<y, x>> \in OpToRel(<, Nat))
    BY NatLessThanWellFounded, WFMin
<1>2. \A y \in S : ~(y < x)
    BY <1>1 DEF OpToRel
<1>3. \A y \in S : x <= y
    BY <1>2
<1> QED
    BY <1>3

LEMMA ApplyFixStep ==
    ASSUME NEW h \in Handlers, NEW p \in Ports
    PROVE  EstateInv /\ ApplyFix(h, p) => EstateInv'
<1> SUFFICES ASSUME EstateInv, ApplyFix(h, p) PROVE EstateInv'
    OBVIOUS
<1> DEFINE on == {t \in DOMAIN targets : Of(TargetRow(t).services, p) # {}}
           t == CHOOSE x \in on : \A y \in on : x <= y
<1>1. on # {} /\ on \subseteq Nat
    BY EstateAssumption DEF ApplyFix, EstateInv, Types
<1>2. \E x \in on : \A y \in on : x <= y
    <2> HIDE DEF on
    <2> QED
        BY <1>1, LeastOf
<1>3. t \in on
    BY <1>2
<1>4. PICK pc \in {"bind", "issue"} : Start(h, t, Fixing(t, p, pc))
    BY DEF ApplyFix, Fixing
<1>5. UNCHANGED <<tables, overlay>>
    BY DEF ApplyFix
<1>6. t \in DOMAIN targets
    BY <1>3
<1> HIDE DEF t
<1> QED
    BY <1>4, <1>5, <1>6, FixesAt

\* A handler that writes a row back and ends: for a target it had for itself, each
\* marker is one the stored row had.
LEMMA RowWritten ==
    ASSUME EstateInv, NEW h \in Handlers, NEW row \in RowType, RowOK(row, DOMAIN certs),
           work[h].at \in {"seed", "scan", "certify"},
           targets' = Put(targets, work[h].target, row), Step(h, "idle"),
           UNCHANGED <<routeRows, certs, overlay, deleted>>,
           work[h].target \notin overlapped =>
              \A s \in row.services : s.listen # None =>
                 /\ work[h].target \in DOMAIN targets
                 /\ \E r \in targets[work[h].target].services : r.port = s.port /\ r.listen = s.listen
    PROVE  EstateInv'
<1> DEFINE t == work[h].target
<1>1. Types /\ RowsOK /\ WorkOK /\ AloneOK /\ BoundOK /\ MarkedOK /\ IdsOK /\ CountOK
    BY DEF EstateInv
<1>2. /\ work' = [work EXCEPT ![h] = Waiting]
      /\ UNCHANGED <<overlapped, torn, unbound, requests, restarts, routes, stats, conns>>
    BY StepWork DEF overlay
<1>3. /\ work' \in [Handlers -> WorkType] /\ work'[h] = Waiting
      /\ \A g \in Handlers : g # h => work'[g] = work[g]
    BY <1>1, <1>2, WorkAfter, WaitingFacts
<1>4. Waiting.at = "idle" /\ RowOK(Waiting.row, DOMAIN certs)
    BY WaitingFacts, EmptyRowOK
<1>5. t \in Targets
    BY <1>1 DEF WorkOK
<1>6. /\ DOMAIN targets' = DOMAIN targets \cup {t} /\ targets'[t] = row
      /\ \A x \in DOMAIN targets : x # t => targets'[x] = targets[x]
    <2>1. targets' = Put(targets, t, row)
        OBVIOUS
    <2> HIDE DEF t
    <2> QED
        BY <2>1 DEF Put
<1>7. targets' \in [DOMAIN targets' -> RowType]
    BY <1>1, <1>6, PutType DEF Types
<1>8. t \notin overlapped => t \notin deleted /\ \A g \in Handlers : g # h /\ work[g].at # "idle" => work[g].target # t
    BY <1>1 DEF AloneOK
<1> HIDE DEF t
<1>9. Types'
    BY <1>1, <1>2, <1>3, <1>5, <1>6, <1>7 DEF Types
<1>10. RowsOK'
    BY <1>1, <1>3, <1>4, <1>6 DEF RowsOK, TargetRow
<1>11. WorkOK'
    BY <1>1, <1>3, <1>4 DEF WorkOK
<1>12. AloneOK'
    BY <1>1, <1>2, <1>3, <1>4, <1>6, <1>8 DEF AloneOK
<1>13. BoundOK'
    BY <1>1, <1>2, <1>3, <1>4, <1>6, <1>8 DEF BoundOK, Undisturbed, ServedAt, IdOf, Listening
<1>14. MarkedOK'
    <2> SUFFICES ASSUME NEW u \in DOMAIN targets', Undisturbed(u), NEW s \in targets'[u].services, s.listen # None
                 PROVE  \/ \E g \in Handlers : work'[g].at \in {"unroute", "delete"} /\ work'[g].target = u
                        \/ \E g \in Handlers : work'[g].at = "persist" /\ work'[g].target = u /\ work'[g].port = s.port
                        \/ /\ <<u, s.port>> \in DOMAIN routeRows /\ routeRows[<<u, s.port>>].listen = s.listen
                           /\ <<u, s.port>> \in unbound \/ ServedAt(<<u, s.port>>, s.listen)
        BY <1>2 DEF MarkedOK, Undisturbed, ServedAt, InFlight, Listening, TargetRow
    <2>1. CASE u # t
        BY <1>1, <1>3, <1>6, <2>1 DEF MarkedOK, InFlight, TargetRow
    <2>2. CASE u = t
        <3>1. u \notin overlapped
            BY DEF Undisturbed
        <3>2. PICK r \in targets[u].services : u \in DOMAIN targets /\ r.port = s.port /\ r.listen = s.listen
            BY <2>2, <3>1, <1>6 DEF t
        <3>3. \A g \in InFlight(u) : g = h
            BY <2>2, <3>1, <1>8 DEF InFlight
        <3>4. \A g \in InFlight(u) : work[g].at \notin {"unroute", "delete", "persist"}
            BY <3>3
        <3> QED
            BY <1>1, <3>2, <3>4 DEF MarkedOK, TargetRow
    <2> QED
        BY <2>1, <2>2
<1>15. IdsOK'
    BY <1>1, <1>2, <1>3, <1>4 DEF IdsOK, Undisturbed, IdOf
<1>16. CountOK'
    BY <1>1, <1>2, CountSame
<1> QED
    BY <1>9, <1>10, <1>11, <1>12, <1>13, <1>14, <1>15, <1>16 DEF EstateInv

LEMMA SeedWriteStep == ASSUME NEW h \in Handlers PROVE EstateInv /\ SeedWrite(h) => EstateInv'
<1> SUFFICES ASSUME EstateInv, SeedWrite(h) PROVE EstateInv'
    OBVIOUS
<1>1. PICK p \in Ports, x \in SweepStatuses :
         targets' = Put(targets, work[h].target,
                        [services |-> {[port |-> p, source |-> "network", listen |-> None, cert |-> None, status |-> x]},
                         status |-> x])
    BY DEF SeedWrite
<1> DEFINE s == [port |-> p, source |-> "network", listen |-> None, cert |-> None, status |-> x]
           row == [services |-> {s}, status |-> x]
<1>2. s \in ServiceType /\ s.status = x /\ s.listen = None /\ s.cert = None
    BY EstateAssumption DEF ServiceType, None
<1> HIDE DEF s
<1>3. \E r \in {s} : WorstStatus({s}) = r.status
    BY <1>2, WorstIs
<1>4. row \in RowType /\ row.services = {s} /\ row.status = x
    BY <1>2, ServicePosture DEF RowType
<1>5. RowOK(row, DOMAIN certs)
    BY <1>2, <1>3, <1>4 DEF RowOK
<1>6. work[h].at = "seed" /\ Step(h, "idle") /\ UNCHANGED <<routeRows, certs, overlay, deleted>>
    BY DEF SeedWrite, HandlerAt
<1>7. targets' = Put(targets, work[h].target, row)
    BY <1>1 DEF s
<1> HIDE DEF row
<1> QED
    BY <1>2, <1>4, <1>5, <1>6, <1>7, RowWritten

LEMMA WriteScanStep == ASSUME NEW h \in Handlers PROVE EstateInv /\ WriteScan(h) => EstateInv'
<1> SUFFICES ASSUME EstateInv, WriteScan(h) PROVE EstateInv'
    OBVIOUS
<1>1. PICK fresh \in Seen(work[h].source) :
         targets' = Put(targets, work[h].target, Scanned(work[h].row, work[h].source, fresh))
    BY DEF WriteScan
<1> DEFINE row == Scanned(work[h].row, work[h].source, fresh)
<1>2. work[h].at = "scan" /\ Step(h, "idle") /\ UNCHANGED <<routeRows, certs, overlay, deleted>>
    BY DEF WriteScan, HandlerAt
<1>3. work[h].row \in RowType /\ work[h].source \in {"network", "host"} /\ RowOK(work[h].row, DOMAIN certs)
    BY DEF EstateInv, Types, WorkType, RowsOK
<1>4. /\ row \in RowType /\ RowOK(row, DOMAIN certs)
      /\ \A s \in row.services : s.listen = None \/
            \E r \in work[h].row.services : s.port = r.port /\ s.listen = r.listen
    BY <1>3, ScannedRow
<1>5. work[h].target \notin overlapped =>
         work[h].target \in DOMAIN targets /\ work[h].row = targets[work[h].target]
    BY <1>2 DEF EstateInv, AloneOK, Holding
<1>6. targets' = Put(targets, work[h].target, row)
    BY <1>1
<1> HIDE DEF row
<1> QED
    BY <1>2, <1>4, <1>5, <1>6, RowWritten

LEMMA MarkCertifiedStep == ASSUME NEW h \in Handlers PROVE EstateInv /\ MarkCertified(h) => EstateInv'
<1> SUFFICES ASSUME EstateInv, MarkCertified(h) PROVE EstateInv'
    OBVIOUS
<1> DEFINE row == Marked(work[h].row, work[h].port, None, work[h].cert)
<1>1. /\ work[h].at = "certify" /\ Step(h, "idle") /\ UNCHANGED <<routeRows, certs, overlay, deleted>>
      /\ targets' = Put(targets, work[h].target, row)
    BY DEF MarkCertified, HandlerAt
<1>2. /\ work[h].row \in RowType /\ RowOK(work[h].row, DOMAIN certs)
      /\ work[h].cert \in 0..MaxCerts /\ work[h].cert \in DOMAIN certs
    BY <1>1 DEF EstateInv, Types, WorkType, RowsOK, WorkOK
<1>3. /\ row \in RowType /\ RowOK(row, DOMAIN certs)
      /\ \A s \in row.services : \E r \in work[h].row.services : s.port = r.port /\ s.listen = r.listen
    <2>1. None \in Addrs \cup {None}
        OBVIOUS
    <2>2. row \in RowType /\ RowOK(row, DOMAIN certs) /\ Remarked(work[h].row, row, work[h].port, None)
        BY <1>2, <2>1, MarkedRow, Zenon
    <2> HIDE DEF row
    <2> QED
        BY <2>2 DEF Remarked
<1>4. work[h].target \notin overlapped =>
         work[h].target \in DOMAIN targets /\ work[h].row = targets[work[h].target]
    BY <1>1 DEF EstateInv, AloneOK, Holding
<1> HIDE DEF row
<1> QED
    BY <1>1, <1>3, <1>4, RowWritten

\* The row is marked; the handler goes on to record the route.
LEMMA MarkProtectedStep == ASSUME NEW h \in Handlers PROVE EstateInv /\ MarkProtected(h) => EstateInv'
<1> SUFFICES ASSUME EstateInv, MarkProtected(h) PROVE EstateInv'
    OBVIOUS
<1> DEFINE row == Marked(work[h].row, work[h].port, work[h].listen, None)
           w == [work[h] EXCEPT !.at = "persist"]
           t == work[h].target
<1>1. Types /\ RowsOK /\ WorkOK /\ AloneOK /\ BoundOK /\ MarkedOK /\ IdsOK /\ CountOK
    BY DEF EstateInv
<1>2. /\ work[h].at = "mark" /\ Step(h, "persist") /\ UNCHANGED <<routeRows, certs, overlay, deleted>>
      /\ targets' = Put(targets, t, row)
    BY DEF MarkProtected, HandlerAt
<1>3. /\ work' = [work EXCEPT ![h] = w]
      /\ UNCHANGED <<overlapped, torn, unbound, requests, restarts, routes, stats, conns, routeRows, certs, deleted>>
    BY <1>2, StepWork DEF overlay
<1>4. work[h] \in WorkType /\ RowOK(work[h].row, DOMAIN certs) /\ work[h].listen \in Addrs /\ t \in Targets /\ work[h].port \in Ports
    BY <1>1, <1>2 DEF Types, RowsOK, WorkOK
<1>5. /\ w \in WorkType /\ w.at = "persist" /\ w.target = t /\ w.port = work[h].port /\ w.listen = work[h].listen
      /\ w.mode = work[h].mode /\ w.row = work[h].row
    BY <1>4 DEF WorkType, Places
<1>6. /\ work' \in [Handlers -> WorkType] /\ work'[h] = w
      /\ \A g \in Handlers : g # h => work'[g] = work[g]
    BY <1>1, <1>3, <1>5, WorkAfter
<1>7. None \in 0..MaxCerts /\ work[h].row \in RowType /\ work[h].listen # None
    BY <1>4, EstateAssumption DEF WorkType, None
<1>8. /\ row \in RowType /\ RowOK(row, DOMAIN certs)
      /\ \A s \in row.services : \E r \in work[h].row.services :
            s.port = r.port /\ s.listen = IF r.port # work[h].port \/ work[h].listen = None THEN r.listen ELSE work[h].listen
    <2>1. work[h].listen \in Addrs \cup {None}
        BY <1>4
    <2>2. row \in RowType /\ RowOK(row, DOMAIN certs) /\ Remarked(work[h].row, row, work[h].port, work[h].listen)
        BY <1>4, <1>7, <2>1, MarkedRow, Zenon
    <2> HIDE DEF row
    <2> QED
        BY <2>2, Zenon DEF Remarked
<1> HIDE DEF row, w, t
<1>9. /\ DOMAIN targets' = DOMAIN targets \cup {t} /\ targets'[t] = row
      /\ \A x \in DOMAIN targets : x # t => targets'[x] = targets[x]
    BY <1>2 DEF Put
<1>10. targets' \in [DOMAIN targets' -> RowType]
    BY <1>1, <1>2, <1>8, <1>9, PutType DEF Types
<1>11. t \notin overlapped =>
          /\ t \notin deleted /\ t \in DOMAIN targets /\ work[h].row = targets[t]
          /\ \A g \in Handlers : g # h /\ work[g].at # "idle" => work[g].target # t
    BY <1>1, <1>2 DEF AloneOK, Holding, t
<1>12. Types'
    BY <1>1, <1>3, <1>4, <1>6, <1>9, <1>10 DEF Types
<1>13. RowsOK'
    BY <1>1, <1>3, <1>4, <1>5, <1>6, <1>8, <1>9 DEF RowsOK, TargetRow
<1>14. WorkOK'
    BY <1>1, <1>2, <1>3, <1>4, <1>5, <1>6 DEF WorkOK
<1>15. AloneOK'
    BY <1>1, <1>3, <1>5, <1>6, <1>9, <1>11 DEF AloneOK, Holding
<1>16. BoundOK'
    <2> SUFFICES ASSUME NEW g \in Handlers, work'[g].at \in {"mark", "persist"}, Undisturbed(work'[g].target)
                 PROVE  /\ ServedAt(<<work'[g].target, work'[g].port>>, work'[g].listen)
                        /\ work'[g].at = "persist" =>
                              /\ work'[g].target \in DOMAIN targets'
                              /\ \A s \in targets'[work'[g].target].services :
                                    s.port = work'[g].port => s.listen = work'[g].listen
        BY <1>3 DEF BoundOK, Undisturbed, ServedAt, IdOf, Listening
    <2>1. CASE g = h
        BY <1>1, <1>2, <1>5, <1>6, <1>7, <1>8, <1>9, <2>1 DEF BoundOK, IdOf, t
    <2>2. CASE g # h
        <3>1. work'[g] = work[g] /\ work[g].target # t
            BY <1>6, <1>11, <2>2 DEF Undisturbed
        <3> QED
            BY <1>1, <1>9, <3>1 DEF BoundOK, IdOf
    <2> QED
        BY <2>1, <2>2
<1>17. MarkedOK'
    <2> SUFFICES ASSUME NEW u \in DOMAIN targets', Undisturbed(u), NEW s \in targets'[u].services, s.listen # None
                 PROVE  \/ \E g \in Handlers : work'[g].at \in {"unroute", "delete"} /\ work'[g].target = u
                        \/ \E g \in Handlers : work'[g].at = "persist" /\ work'[g].target = u /\ work'[g].port = s.port
                        \/ /\ <<u, s.port>> \in DOMAIN routeRows /\ routeRows[<<u, s.port>>].listen = s.listen
                           /\ <<u, s.port>> \in unbound \/ ServedAt(<<u, s.port>>, s.listen)
        BY <1>3 DEF MarkedOK, Undisturbed, ServedAt, InFlight, Listening, TargetRow
    <2>1. CASE u # t
        BY <1>1, <1>2, <1>6, <1>9, <2>1 DEF MarkedOK, InFlight, TargetRow, t
    <2>2. CASE u = t /\ s.port = work[h].port
        BY <1>5, <1>6, <2>2
    <2>3. CASE u = t /\ s.port # work[h].port
        <3>1. u \notin overlapped
            BY DEF Undisturbed
        <3>2. PICK r \in targets[u].services : u \in DOMAIN targets /\ r.port = s.port /\ r.listen = s.listen
            BY <2>3, <3>1, <1>8, <1>9, <1>11
        <3>3. \A g \in InFlight(u) : g = h
            BY <2>3, <3>1, <1>11 DEF InFlight
        <3>4. \A g \in InFlight(u) : work[g].at \notin {"unroute", "delete", "persist"}
            BY <1>2, <3>3
        <3> QED
            BY <1>1, <3>2, <3>4 DEF MarkedOK, TargetRow
    <2> QED
        BY <2>1, <2>2, <2>3
<1>18. IdsOK'
    BY <1>1, <1>2, <1>3, <1>5, <1>6 DEF IdsOK, Undisturbed, IdOf, t
<1>19. CountOK'
    BY <1>1, <1>3, CountSame
<1> QED
    BY <1>12, <1>13, <1>14, <1>15, <1>16, <1>17, <1>18, <1>19 DEF EstateInv

LEMMA NewStatsFacts ==
    ASSUME NEW i \in RouteIds \cup {Configured}, NEW m \in Modes
    PROVE  /\ NewStats(i, m) \in StatsType /\ NewStats(i, m).id = i /\ NewStats(i, m).bound = TRUE
           /\ Counted(NewStats(i, m), 0, 0)
<1>1. NewStats(i, m) \in StatsType /\ NewStats(i, m).id = i /\ NewStats(i, m).bound = TRUE
    BY DEF NewStats, StatsType
<1>2. /\ NewStats(i, m).total = 0 /\ NewStats(i, m).active = 0 /\ NewStats(i, m).pqc = 0
      /\ NewStats(i, m).rejected = 0 /\ NewStats(i, m).errors = 0 /\ NewStats(i, m).served = 0
    BY DEF NewStats
<1> QED
    BY <1>1, <1>2 DEF Counted

\* A listener that starts leaves the others alone.
LEMMA BindRouteStep == ASSUME NEW h \in Handlers PROVE EstateInv /\ BindRoute(h) => EstateInv'
<1> SUFFICES ASSUME EstateInv, BindRoute(h) PROVE EstateInv'
    OBVIOUS
<1> DEFINE id == <<work[h].target, work[h].port>>
<1>1. Types /\ RowsOK /\ WorkOK /\ AloneOK /\ BoundOK /\ MarkedOK /\ IdsOK /\ CountOK
    BY DEF EstateInv
<1>2. PICK a \in Addrs \ Listening :
         /\ stats' = Put(stats, a, NewStats(id, work[h].mode))
         /\ routes' = Put(routes, id, a)
         /\ work' = [work EXCEPT ![h].at = "mark", ![h].listen = a]
    BY DEF BindRoute
<1> DEFINE w == [work[h] EXCEPT !.at = "mark", !.listen = a]
           n == NewStats(id, work[h].mode)
<1>3. work[h].at = "bind" /\ UNCHANGED <<targets, routeRows, certs, conns, deleted, overlapped, torn, unbound, requests, restarts>>
    BY DEF BindRoute, HandlerAt, tables, aux
<1>4. work[h] \in WorkType /\ work[h].target \in Targets /\ work[h].port \in Ports /\ work[h].mode \in RouteModes \cup {"hybrid"}
    BY <1>1, <1>3 DEF Types, WorkOK
<1>5. /\ w \in WorkType /\ w.at = "mark" /\ w.target = work[h].target /\ w.port = work[h].port /\ w.listen = a
      /\ w.mode = work[h].mode /\ w.row = work[h].row
    BY <1>4 DEF WorkType, Places
<1>6. work' = [work EXCEPT ![h] = w]
    BY <1>1, <1>2 DEF Types
<1>7. /\ work' \in [Handlers -> WorkType] /\ work'[h] = w
      /\ \A g \in Handlers : g # h => work'[g] = work[g]
    BY <1>1, <1>5, <1>6, WorkAfter
<1>8. n \in StatsType /\ n.id = id /\ n.bound /\ Counted(n, 0, 0)
    <2>1. id \in RouteIds /\ work[h].mode \in Modes
        BY <1>4, EstateAssumption DEF RouteIds, Modes
    <2> QED
        BY <2>1, NewStatsFacts
<1> HIDE DEF w, n, id
<1>9. /\ DOMAIN stats' = DOMAIN stats \cup {a} /\ stats'[a] = n
      /\ \A x \in DOMAIN stats : x # a => stats'[x] = stats[x]
    BY <1>2 DEF Put, n
<1>10. stats' \in [DOMAIN stats' -> StatsType]
    <2>1. stats \in [DOMAIN stats -> StatsType] /\ stats' = Put(stats, a, n)
        BY <1>1, <1>2 DEF Types, n
    <2>2. Put(stats, a, n) \in [DOMAIN stats \cup {a} -> StatsType]
        BY <1>8, <2>1, PutType
    <2> QED
        BY <1>9, <2>1, <2>2
<1>11. DOMAIN routes' = DOMAIN routes \cup {id} /\ routes' \in [DOMAIN routes' -> DOMAIN stats']
    <2>1. routes \in [DOMAIN routes -> DOMAIN stats']
        BY <1>1, <1>9 DEF Types
    <2>2. DOMAIN routes' = DOMAIN routes \cup {id}
        BY <1>2, PutFacts
    <2> QED
        BY <1>2, <1>9, <2>1, <2>2, PutType
<1>12. id \in RouteIds
    BY <1>4 DEF RouteIds, id
<1>13. /\ Listening' = Listening \cup {a} /\ a \notin Listening
       /\ \A x \in Listening : x \in DOMAIN stats /\ stats'[x] = stats[x]
    BY <1>8, <1>9 DEF Listening
<1>14. ASSUME NEW i, NEW x, ServedAt(i, x) PROVE x \in Listening' /\ stats'[x].id = i
    BY <1>13, <1>14 DEF ServedAt
<1>15. Types'
    BY <1>1, <1>3, <1>7, <1>9, <1>10, <1>11, <1>12 DEF Types
<1>16. RowsOK'
    BY <1>1, <1>3, <1>5, <1>7 DEF RowsOK, TargetRow
<1>17. WorkOK'
    BY <1>1, <1>3, <1>4, <1>5, <1>7 DEF WorkOK
<1>18. AloneOK'
    BY <1>1, <1>3, <1>5, <1>7 DEF AloneOK, Holding
<1>19. BoundOK'
    <2> SUFFICES ASSUME NEW g \in Handlers, work'[g].at \in {"mark", "persist"}, Undisturbed(work'[g].target)
                 PROVE  /\ work'[g].listen \in Listening' /\ stats'[work'[g].listen].id = <<work'[g].target, work'[g].port>>
                        /\ work'[g].at = "persist" =>
                              /\ work'[g].target \in DOMAIN targets
                              /\ \A s \in targets[work'[g].target].services :
                                    s.port = work'[g].port => s.listen = work'[g].listen
        BY <1>3 DEF BoundOK, Undisturbed, ServedAt, IdOf
    <2>1. CASE g = h
        BY <1>5, <1>7, <1>8, <1>9, <1>13, <2>1 DEF id
    <2>2. CASE g # h
        <3>1. work'[g] = work[g]
            BY <1>7, <2>2
        <3>2. /\ ServedAt(<<work[g].target, work[g].port>>, work[g].listen)
              /\ work[g].at = "persist" =>
                    /\ work[g].target \in DOMAIN targets
                    /\ \A s \in targets[work[g].target].services : s.port = work[g].port => s.listen = work[g].listen
            BY <1>1, <3>1 DEF BoundOK, IdOf
        <3>3. work[g].listen \in Listening' /\ stats'[work[g].listen].id = <<work[g].target, work[g].port>>
            BY <1>14, <3>2
        <3> QED
            BY <3>1, <3>2, <3>3
    <2> QED
        BY <2>1, <2>2
<1>20. MarkedOK'
    <2> SUFFICES ASSUME NEW u \in DOMAIN targets, Undisturbed(u), NEW s \in targets[u].services, s.listen # None
                 PROVE  \/ \E g \in Handlers : work'[g].at \in {"unroute", "delete"} /\ work'[g].target = u
                        \/ \E g \in Handlers : work'[g].at = "persist" /\ work'[g].target = u /\ work'[g].port = s.port
                        \/ /\ <<u, s.port>> \in DOMAIN routeRows /\ routeRows[<<u, s.port>>].listen = s.listen
                           /\ <<u, s.port>> \in unbound \/ (s.listen \in Listening' /\ stats'[s.listen].id = <<u, s.port>>)
        BY <1>3 DEF MarkedOK, Undisturbed, ServedAt, InFlight, TargetRow
    <2>1. \/ \E g \in Handlers : work[g].at \in {"unroute", "delete"} /\ work[g].target = u
          \/ \E g \in Handlers : work[g].at = "persist" /\ work[g].target = u /\ work[g].port = s.port
          \/ /\ <<u, s.port>> \in DOMAIN routeRows /\ routeRows[<<u, s.port>>].listen = s.listen
             /\ <<u, s.port>> \in unbound \/ ServedAt(<<u, s.port>>, s.listen)
        BY <1>1 DEF MarkedOK, InFlight, TargetRow
    <2> QED
        BY <1>3, <1>7, <1>14, <2>1
<1>21. IdsOK'
    <2>1. \A g \in Handlers : g # h /\ work[g].at # "idle" /\ work[g].target = work[h].target => work[h].target \in overlapped
        BY <1>1, <1>3 DEF AloneOK
    <2>2. work[h].target \in deleted => work[h].target \in overlapped
        BY <1>1, <1>3 DEF AloneOK
    <2>3. id[1] = work[h].target /\ work'[h].at = "mark" /\ <<work'[h].target, work'[h].port>> = id /\ work'[h].target = work[h].target
        BY <1>5, <1>7 DEF id
    <2> QED
        BY <1>1, <1>3, <1>7, <1>11, <2>1, <2>2, <2>3 DEF IdsOK, Undisturbed, IdOf
<1>22. CountOK'
    <2>1. Live(conns, a) = {} /\ Greeting(conns, a) = {}
        BY <1>1, <1>13 DEF CountOK, Live, Greeting
    <2>2. Cardinality({}) = 0
        BY FS_EmptySet
    <2>3. \A x \in DOMAIN stats' : Counted(stats'[x], Cardinality(Live(conns, x)), Cardinality(Greeting(conns, x)))
        BY <1>1, <1>8, <1>9, <2>1, <2>2 DEF CountOK
    <2>4. \A c \in Conns : conns'[c].at \in {"handshake", "forward"} => conns'[c].addr \in Listening'
        BY <1>1, <1>3, <1>13 DEF CountOK
    <2> QED
        BY <1>3, <2>3, <2>4 DEF CountOK
<1> QED
    BY <1>15, <1>16, <1>17, <1>18, <1>19, <1>20, <1>21, <1>22 DEF EstateInv

\* The route is stored: from now on its row stands for the marker.
LEMMA RecordRouteStep == ASSUME NEW h \in Handlers PROVE EstateInv /\ RecordRoute(h) => EstateInv'
<1> SUFFICES ASSUME EstateInv, RecordRoute(h) PROVE EstateInv'
    OBVIOUS
<1> DEFINE id == <<work[h].target, work[h].port>>
           v == [listen |-> work[h].listen, mode |-> work[h].mode]
           t == work[h].target
<1>1. Types /\ RowsOK /\ WorkOK /\ AloneOK /\ BoundOK /\ MarkedOK /\ IdsOK /\ CountOK
    BY DEF EstateInv
<1>2. /\ work[h].at = "persist" /\ Step(h, "idle") /\ UNCHANGED <<targets, certs, overlay, deleted>>
      /\ routeRows' = Put(routeRows, id, v)
    BY DEF RecordRoute, HandlerAt
<1>3. /\ work' = [work EXCEPT ![h] = Waiting]
      /\ UNCHANGED <<overlapped, torn, unbound, requests, restarts, routes, stats, conns, targets, certs, deleted>>
    BY <1>2, StepWork DEF overlay
<1>4. /\ work' \in [Handlers -> WorkType] /\ work'[h] = Waiting
      /\ \A g \in Handlers : g # h => work'[g] = work[g]
    BY <1>1, <1>3, WorkAfter, WaitingFacts
<1>5. Waiting.at = "idle" /\ RowOK(Waiting.row, DOMAIN certs)
    BY WaitingFacts, EmptyRowOK
<1>6. t \in Targets /\ work[h].port \in Ports /\ work[h].listen \in Addrs /\ work[h].mode \in RouteModes \cup {"hybrid"}
    BY <1>1, <1>2 DEF WorkOK
<1>7. v \in [listen : Addrs, mode : RouteModes \cup {"hybrid"}] /\ v.listen = work[h].listen
    BY <1>6
<1>8. id \in RouteIds /\ id = IdOf(h) /\ id[1] = t
    BY <1>6 DEF RouteIds, IdOf
<1> HIDE DEF id, v
<1>9. /\ DOMAIN routeRows' = DOMAIN routeRows \cup {id} /\ routeRows'[id] = v
      /\ \A x \in DOMAIN routeRows : x # id => routeRows'[x] = routeRows[x]
    BY <1>2 DEF Put
<1>10. routeRows' \in [DOMAIN routeRows' -> [listen : Addrs, mode : RouteModes \cup {"hybrid"}]]
    BY <1>1, <1>2, <1>7, <1>9, PutType DEF Types
<1>11. t \notin overlapped =>
          t \notin deleted /\ \A g \in Handlers : g # h /\ work[g].at # "idle" => work[g].target # t
    BY <1>1, <1>2 DEF AloneOK
<1> HIDE DEF t
<1>12. Types'
    BY <1>1, <1>3, <1>4, <1>8, <1>9, <1>10 DEF Types
<1>13. RowsOK'
    BY <1>1, <1>3, <1>4, <1>5 DEF RowsOK, TargetRow
<1>14. WorkOK'
    BY <1>1, <1>3, <1>4, <1>5 DEF WorkOK
<1>15. AloneOK'
    BY <1>1, <1>3, <1>4, <1>5 DEF AloneOK
<1>16. BoundOK'
    BY <1>1, <1>3, <1>4, <1>5 DEF BoundOK, Undisturbed, ServedAt, IdOf, Listening
<1>17. MarkedOK'
    <2> SUFFICES ASSUME NEW u \in DOMAIN targets, Undisturbed(u), NEW s \in targets[u].services, s.listen # None
                 PROVE  \/ \E g \in Handlers : work'[g].at \in {"unroute", "delete"} /\ work'[g].target = u
                        \/ \E g \in Handlers : work'[g].at = "persist" /\ work'[g].target = u /\ work'[g].port = s.port
                        \/ /\ <<u, s.port>> \in DOMAIN routeRows' /\ routeRows'[<<u, s.port>>].listen = s.listen
                           /\ <<u, s.port>> \in unbound \/ ServedAt(<<u, s.port>>, s.listen)
        BY <1>3 DEF MarkedOK, Undisturbed, ServedAt, InFlight, Listening, TargetRow
    <2>1. CASE u = t /\ s.port = work[h].port
        <3>1. <<u, s.port>> = id
            BY <2>1 DEF id, t
        <3>2. ServedAt(id, work[h].listen) /\ s.listen = work[h].listen
            BY <1>1, <1>2, <1>8, <2>1 DEF BoundOK, t
        <3> QED
            BY <1>7, <1>9, <3>1, <3>2
    <2>2. CASE u # t \/ s.port # work[h].port
        <3>1. <<u, s.port>> # id
            BY <2>2 DEF id, t
        <3>2. \/ \E g \in Handlers : work[g].at \in {"unroute", "delete"} /\ work[g].target = u
              \/ \E g \in Handlers : work[g].at = "persist" /\ work[g].target = u /\ work[g].port = s.port
              \/ /\ <<u, s.port>> \in DOMAIN routeRows /\ routeRows[<<u, s.port>>].listen = s.listen
                 /\ <<u, s.port>> \in unbound \/ ServedAt(<<u, s.port>>, s.listen)
            BY <1>1 DEF MarkedOK, InFlight, TargetRow
        <3>3. work[h].target = t
            BY DEF t
        <3> QED
            BY <1>2, <1>4, <1>9, <2>2, <3>1, <3>2, <3>3
    <2> QED
        BY <2>1, <2>2
<1>18. IdsOK'
    <2>1. \A g \in Handlers : work[g].at \in {"mark", "persist"} /\ IdOf(g) \in DOMAIN routes /\ IdOf(g) # id =>
             work'[g] = work[g]
        BY <1>4, <1>8
    <2>2. work[h].target = t
        BY DEF t
    <2>3. \A i \in DOMAIN routes : i # Configured /\ Undisturbed(i[1]) =>
             \/ i \in DOMAIN routeRows'
             \/ \E g \in Handlers : work'[g].at \in {"mark", "persist"} /\ <<work'[g].target, work'[g].port>> = i
        BY <1>1, <1>9, <2>1 DEF IdsOK, IdOf
    <2>4. \A g \in Handlers : Undisturbed(work'[g].target) =>
             /\ work'[g].at \in {"unroute", "delete"} => \A i \in DOMAIN routes : i[1] # work'[g].target
             /\ work'[g].at = "delete" => \A i \in DOMAIN routeRows' : i[1] # work'[g].target
        BY <1>1, <1>4, <1>5, <1>8, <1>9, <1>11 DEF IdsOK, Undisturbed
    <2>5. \A x \in deleted : Undisturbed(x) => \A i \in DOMAIN routeRows' \cup DOMAIN routes : i[1] # x
        BY <1>1, <1>8, <1>9, <1>11 DEF IdsOK, Undisturbed
    <2> QED
        BY <1>3, <2>3, <2>4, <2>5 DEF IdsOK, Undisturbed, IdOf
<1>19. CountOK'
    BY <1>1, <1>3, CountSame
<1> QED
    BY <1>12, <1>13, <1>14, <1>15, <1>16, <1>17, <1>18, <1>19 DEF EstateInv

\* delete_target: first the routes in memory, then the stored ones.
LEMMA DropRoutesStep == ASSUME NEW h \in Handlers, NEW t \in Targets PROVE EstateInv /\ DropRoutes(h, t) => EstateInv'
<1> SUFFICES ASSUME EstateInv, DropRoutes(h, t) PROVE EstateInv'
    OBVIOUS
<1> DEFINE w == [Waiting EXCEPT !.at = "unroute", !.target = t]
           gone == {id \in DOMAIN routeRows : id[1] = t}
<1>1. Types /\ RowsOK /\ WorkOK /\ AloneOK /\ BoundOK /\ MarkedOK /\ IdsOK /\ CountOK
    BY DEF EstateInv
<1>2. t \in DOMAIN targets /\ Start(h, t, w) /\ routes' = Without(routes, gone) /\ UNCHANGED <<tables, stats, conns>>
    BY DEF DropRoutes
<1>3. w \in WorkType /\ w.at = "unroute" /\ w.target = t /\ w.row = EmptyRow
    BY WaitingFacts DEF WorkType, Places
<1> HIDE DEF w
<1>4. /\ work[h].at = "idle" /\ work' = [work EXCEPT ![h] = w]
      /\ UNCHANGED <<deleted, torn, unbound>> /\ requests' \in Nat /\ restarts' \in Nat
      /\ overlapped \subseteq overlapped'
      /\ t \notin overlapped' => \A g \in Handlers : work[g].at # "idle" => work[g].target # t
    BY <1>1, <1>2, StartFacts
<1>5. /\ work' \in [Handlers -> WorkType] /\ work'[h] = w
      /\ \A g \in Handlers : g # h => work'[g] = work[g]
    BY <1>1, <1>3, <1>4, WorkAfter
<1>6. UNCHANGED <<targets, routeRows, certs>>
    BY <1>2 DEF tables
<1> HIDE DEF gone
<1>7. DOMAIN routes' = DOMAIN routes \ gone /\ routes' \in [DOMAIN routes' -> DOMAIN stats]
    BY <1>1, <1>2, WithoutFacts, WithoutType DEF Types
<1>8. Types'
    BY <1>1, <1>2, <1>4, <1>5, <1>6, <1>7 DEF Types
<1>9. RowsOK'
    BY <1>1, <1>3, <1>5, <1>6, EmptyRowOK DEF RowsOK, TargetRow
<1>10. WorkOK'
    BY <1>1, <1>3, <1>5, <1>6 DEF WorkOK
<1>11. AloneOK'
    BY <1>1, <1>2, <1>3, <1>4, <1>5, <1>6 DEF AloneOK, Holding
<1>12. BoundOK'
    BY <1>1, <1>2, <1>3, <1>4, <1>5, <1>6 DEF BoundOK, Undisturbed, ServedAt, IdOf, Listening
<1>13. MarkedOK'
    BY <1>1, <1>2, <1>3, <1>4, <1>5, <1>6 DEF MarkedOK, Undisturbed, ServedAt, InFlight, Listening, TargetRow
<1>14. IdsOK'
    <2>1. \A i \in DOMAIN routes' : i \in DOMAIN routes /\ (i \in DOMAIN routeRows => i[1] # t)
        BY <1>7 DEF gone
    <2>2. \A i \in DOMAIN routes' : i[1] = t => t \in overlapped' \cup torn
        <3> SUFFICES ASSUME NEW i \in DOMAIN routes', i[1] = t, t \notin overlapped' \cup torn PROVE FALSE
            OBVIOUS
        <3>1. i # Configured
            BY EstateAssumption DEF Configured, None
        <3>2. \E g \in Handlers : work[g].at \in {"mark", "persist"} /\ IdOf(g) = i
            BY <1>1, <1>4, <2>1, <3>1 DEF IdsOK, Undisturbed
        <3> QED
            BY <1>4, <3>2 DEF IdOf
    <2> QED
        BY <1>1, <1>3, <1>4, <1>5, <1>6, <2>1, <2>2 DEF IdsOK, Undisturbed, IdOf
<1>15. CountOK'
    BY <1>1, <1>2, CountSame
<1> QED
    BY <1>8, <1>9, <1>10, <1>11, <1>12, <1>13, <1>14, <1>15 DEF EstateInv

LEMMA DeleteRouteRowsStep == ASSUME NEW h \in Handlers PROVE EstateInv /\ DeleteRouteRows(h) => EstateInv'
<1> SUFFICES ASSUME EstateInv, DeleteRouteRows(h) PROVE EstateInv'
    OBVIOUS
<1> DEFINE w == [work[h] EXCEPT !.at = "delete"]
           t == work[h].target
           gone == {id \in DOMAIN routeRows : id[1] = t}
<1>1. Types /\ RowsOK /\ WorkOK /\ AloneOK /\ BoundOK /\ MarkedOK /\ IdsOK /\ CountOK
    BY DEF EstateInv
<1>2. /\ work[h].at = "unroute" /\ Step(h, "delete") /\ UNCHANGED <<targets, certs, overlay, deleted>>
      /\ routeRows' = Without(routeRows, gone)
    BY DEF DeleteRouteRows, HandlerAt
<1>3. /\ work' = [work EXCEPT ![h] = w]
      /\ UNCHANGED <<overlapped, torn, unbound, requests, restarts, routes, stats, conns, targets, certs, deleted>>
    BY <1>2, StepWork DEF overlay
<1>4. work[h] \in WorkType /\ t \in Targets
    BY <1>1, <1>2 DEF Types, WorkOK
<1>5. w \in WorkType /\ w.at = "delete" /\ w.target = t /\ w.row = work[h].row
    BY <1>4 DEF WorkType, Places
<1>6. /\ work' \in [Handlers -> WorkType] /\ work'[h] = w
      /\ \A g \in Handlers : g # h => work'[g] = work[g]
    BY <1>1, <1>3, <1>5, WorkAfter
<1> HIDE DEF w, gone
<1>7. /\ DOMAIN routeRows' = DOMAIN routeRows \ gone
      /\ \A i \in DOMAIN routeRows \ gone : routeRows'[i] = routeRows[i]
    BY <1>2 DEF Without
<1>8. routeRows' \in [DOMAIN routeRows' -> [listen : Addrs, mode : RouteModes \cup {"hybrid"}]]
    BY <1>1, <1>2, <1>7, WithoutType DEF Types
<1>9. \A i : i \in gone <=> i \in DOMAIN routeRows /\ i[1] = t
    BY DEF gone
<1>10. t \notin overlapped => \A g \in Handlers : g # h /\ work[g].at # "idle" => work[g].target # t
    BY <1>1, <1>2 DEF AloneOK
<1>11. work[h].target = t
    OBVIOUS
<1> HIDE DEF t
<1>12. Types'
    BY <1>1, <1>3, <1>6, <1>7, <1>8 DEF Types
<1>13. RowsOK'
    BY <1>1, <1>3, <1>5, <1>6 DEF RowsOK, TargetRow
<1>14. WorkOK'
    BY <1>1, <1>3, <1>4, <1>5, <1>6 DEF WorkOK
<1>15. AloneOK'
    BY <1>1, <1>2, <1>3, <1>5, <1>6, <1>11 DEF AloneOK, Holding
<1>16. BoundOK'
    BY <1>1, <1>2, <1>3, <1>5, <1>6 DEF BoundOK, Undisturbed, ServedAt, IdOf, Listening
<1>17. MarkedOK'
    <2> SUFFICES ASSUME NEW u \in DOMAIN targets, Undisturbed(u), NEW s \in targets[u].services, s.listen # None
                 PROVE  \/ \E g \in Handlers : work'[g].at \in {"unroute", "delete"} /\ work'[g].target = u
                        \/ \E g \in Handlers : work'[g].at = "persist" /\ work'[g].target = u /\ work'[g].port = s.port
                        \/ /\ <<u, s.port>> \in DOMAIN routeRows' /\ routeRows'[<<u, s.port>>].listen = s.listen
                           /\ <<u, s.port>> \in unbound \/ ServedAt(<<u, s.port>>, s.listen)
        BY <1>3 DEF MarkedOK, Undisturbed, ServedAt, InFlight, Listening, TargetRow
    <2>1. CASE u = t
        BY <1>5, <1>6, <2>1
    <2>2. CASE u # t
        <3>1. <<u, s.port>>[1] = u
            OBVIOUS
        <3>2. \/ \E g \in Handlers : work[g].at \in {"unroute", "delete"} /\ work[g].target = u
              \/ \E g \in Handlers : work[g].at = "persist" /\ work[g].target = u /\ work[g].port = s.port
              \/ /\ <<u, s.port>> \in DOMAIN routeRows /\ routeRows[<<u, s.port>>].listen = s.listen
                 /\ <<u, s.port>> \in unbound \/ ServedAt(<<u, s.port>>, s.listen)
            BY <1>1 DEF MarkedOK, InFlight, TargetRow
        <3> QED
            BY <1>6, <1>7, <1>9, <1>11, <2>2, <3>1, <3>2
    <2> QED
        BY <2>1, <2>2
<1>18. IdsOK'
    <2>1. \A i \in DOMAIN routes : i # Configured /\ Undisturbed(i[1]) =>
             \/ i \in DOMAIN routeRows'
             \/ \E g \in Handlers : work'[g].at \in {"mark", "persist"} /\ <<work'[g].target, work'[g].port>> = i
        BY <1>1, <1>2, <1>6, <1>7, <1>9, <1>11 DEF IdsOK, IdOf
    <2>2. \A g \in Handlers : Undisturbed(work'[g].target) =>
             /\ work'[g].at \in {"unroute", "delete"} => \A i \in DOMAIN routes : i[1] # work'[g].target
             /\ work'[g].at = "delete" => \A i \in DOMAIN routeRows' : i[1] # work'[g].target
        BY <1>1, <1>2, <1>5, <1>6, <1>7, <1>9, <1>11 DEF IdsOK, Undisturbed
    <2>3. \A x \in deleted : Undisturbed(x) => \A i \in DOMAIN routeRows' \cup DOMAIN routes : i[1] # x
        BY <1>1, <1>7 DEF IdsOK
    <2> QED
        BY <1>3, <2>1, <2>2, <2>3 DEF IdsOK, Undisturbed, IdOf
<1>19. CountOK'
    BY <1>1, <1>3, CountSame
<1> QED
    BY <1>12, <1>13, <1>14, <1>15, <1>16, <1>17, <1>18, <1>19 DEF EstateInv

LEMMA DeleteTargetStep == ASSUME NEW h \in Handlers PROVE EstateInv /\ DeleteTarget(h) => EstateInv'
<1> SUFFICES ASSUME EstateInv, DeleteTarget(h) PROVE EstateInv'
    OBVIOUS
<1> DEFINE t == work[h].target
<1>1. Types /\ RowsOK /\ WorkOK /\ AloneOK /\ BoundOK /\ MarkedOK /\ IdsOK /\ CountOK
    BY DEF EstateInv
<1>2. /\ work[h].at = "delete" /\ Step(h, "idle") /\ UNCHANGED <<routeRows, certs, overlay>>
      /\ targets' = Without(targets, {t}) /\ deleted' = deleted \cup {t}
    BY DEF DeleteTarget, HandlerAt
<1>3. /\ work' = [work EXCEPT ![h] = Waiting]
      /\ UNCHANGED <<overlapped, torn, unbound, requests, restarts, routes, stats, conns, routeRows, certs>>
    BY <1>2, StepWork DEF overlay
<1>4. /\ work' \in [Handlers -> WorkType] /\ work'[h] = Waiting
      /\ \A g \in Handlers : g # h => work'[g] = work[g]
    BY <1>1, <1>3, WorkAfter, WaitingFacts
<1>5. Waiting.at = "idle" /\ RowOK(Waiting.row, DOMAIN certs)
    BY WaitingFacts, EmptyRowOK
<1>6. t \in Targets
    BY <1>1, <1>2 DEF WorkOK
<1>7. t \notin overlapped => \A g \in Handlers : g # h /\ work[g].at # "idle" => work[g].target # t
    BY <1>1, <1>2 DEF AloneOK
<1>8. t \notin overlapped \cup torn => \A i \in DOMAIN routeRows \cup DOMAIN routes : i[1] # t
    BY <1>1, <1>2 DEF IdsOK, Undisturbed
<1> HIDE DEF t
<1>9. /\ DOMAIN targets' = DOMAIN targets \ {t}
      /\ \A x \in DOMAIN targets' : targets'[x] = targets[x]
    BY <1>2 DEF Without
<1>10. targets' \in [DOMAIN targets' -> RowType]
    BY <1>1, <1>2, <1>9, WithoutType DEF Types
<1>11. Types'
    BY <1>1, <1>2, <1>3, <1>4, <1>6, <1>9, <1>10 DEF Types
<1>12. RowsOK'
    BY <1>1, <1>3, <1>4, <1>5, <1>9 DEF RowsOK, TargetRow
<1>13. WorkOK'
    BY <1>1, <1>3, <1>4, <1>5 DEF WorkOK
<1>14. AloneOK'
    <2>1. \A g \in Handlers : work'[g].at # "idle" => g # h /\ work'[g] = work[g]
        BY <1>4, <1>5
    <2>2. \A f, g \in Handlers :
             work'[f].at # "idle" /\ work'[g].at # "idle" /\ work'[f].target = work'[g].target
               /\ work'[g].target \notin overlapped' => f = g
        BY <1>1, <1>3, <2>1 DEF AloneOK
    <2>3. ASSUME NEW g \in Handlers, work'[g].at # "idle", work'[g].target \notin overlapped'
          PROVE  /\ work'[g].at \in Holding =>
                       work'[g].target \in DOMAIN targets' /\ work'[g].row = targets'[work'[g].target]
                 /\ work'[g].at = "seed" => work'[g].target \notin DOMAIN targets'
                 /\ work'[g].target \notin deleted'
        <3>1. work'[g] = work[g] /\ work[g].at # "idle" /\ work[g].target \notin overlapped /\ work[g].target # t
            BY <1>3, <1>7, <2>1, <2>3
        <3>2. /\ work[g].at \in Holding => work[g].target \in DOMAIN targets /\ work[g].row = targets[work[g].target]
              /\ work[g].at = "seed" => work[g].target \notin DOMAIN targets
              /\ work[g].target \notin deleted
            BY <1>1, <3>1 DEF AloneOK
        <3> QED
            BY <1>2, <1>9, <3>1, <3>2
    <2>4. \A u \in deleted' : u \notin overlapped' => u \notin DOMAIN targets'
        BY <1>1, <1>2, <1>3, <1>9 DEF AloneOK
    <2> QED
        BY <2>2, <2>3, <2>4 DEF AloneOK, Holding
<1>15. BoundOK'
    BY <1>1, <1>3, <1>4, <1>5, <1>7, <1>9 DEF BoundOK, Undisturbed, ServedAt, IdOf, Listening
<1>16. MarkedOK'
    <2> SUFFICES ASSUME NEW u \in DOMAIN targets', Undisturbed(u), NEW s \in targets'[u].services, s.listen # None
                 PROVE  \/ \E g \in Handlers : work'[g].at \in {"unroute", "delete"} /\ work'[g].target = u
                        \/ \E g \in Handlers : work'[g].at = "persist" /\ work'[g].target = u /\ work'[g].port = s.port
                        \/ /\ <<u, s.port>> \in DOMAIN routeRows /\ routeRows[<<u, s.port>>].listen = s.listen
                           /\ <<u, s.port>> \in unbound \/ ServedAt(<<u, s.port>>, s.listen)
        BY <1>3 DEF MarkedOK, Undisturbed, ServedAt, InFlight, Listening, TargetRow
    <2>1. u # work[h].target
        BY <1>9 DEF t
    <2> QED
        BY <1>1, <1>4, <1>9, <2>1 DEF MarkedOK, InFlight, TargetRow
<1>17. IdsOK'
    BY <1>1, <1>2, <1>3, <1>4, <1>5, <1>8 DEF IdsOK, Undisturbed, IdOf
<1>18. CountOK'
    BY <1>1, <1>3, CountSame
<1> QED
    BY <1>11, <1>12, <1>13, <1>14, <1>15, <1>16, <1>17, <1>18 DEF EstateInv

LEMMA RegisterStep == ASSUME NEW h \in Handlers, NEW t \in Targets PROVE EstateInv /\ Register(h, t) => EstateInv'
<1> SUFFICES ASSUME EstateInv, Register(h, t) PROVE EstateInv'
    OBVIOUS
<1>1. Types /\ RowsOK /\ WorkOK /\ AloneOK /\ BoundOK /\ MarkedOK /\ IdsOK /\ CountOK
    BY DEF EstateInv
<1>2. /\ t \notin DOMAIN targets /\ t \notin deleted
      /\ Start(h, t, Waiting) /\ targets' = Put(targets, t, EmptyRow) /\ UNCHANGED <<routeRows, certs, overlay>>
      /\ \A g \in Handlers : work[g].at # "idle" => work[g].target # t
    BY DEF Register, Fresh, InFlight
<1>3. /\ work[h].at = "idle" /\ work' = [work EXCEPT ![h] = Waiting]
      /\ UNCHANGED <<deleted, torn, unbound, routeRows, certs, routes, stats, conns>> /\ requests' \in Nat /\ restarts' \in Nat
      /\ overlapped \subseteq overlapped'
    BY <1>1, <1>2, StartFacts DEF overlay
<1>4. /\ work' \in [Handlers -> WorkType] /\ work'[h] = Waiting
      /\ \A g \in Handlers : g # h => work'[g] = work[g]
    BY <1>1, <1>3, WorkAfter, WaitingFacts
<1>5. Waiting.at = "idle" /\ RowOK(Waiting.row, DOMAIN certs)
    BY WaitingFacts, EmptyRowOK
<1>6. /\ DOMAIN targets' = DOMAIN targets \cup {t} /\ targets'[t] = EmptyRow
      /\ \A x \in DOMAIN targets : x # t => targets'[x] = targets[x]
    BY <1>2 DEF Put
<1>7. targets' \in [DOMAIN targets' -> RowType]
    BY <1>1, <1>2, <1>6, PutType, EmptyRowOK DEF Types
<1>8. Types'
    BY <1>1, <1>3, <1>4, <1>6, <1>7 DEF Types
<1>9. RowsOK'
    BY <1>1, <1>3, <1>4, <1>5, <1>6, EmptyRowOK DEF RowsOK, TargetRow
<1>10. WorkOK'
    BY <1>1, <1>3, <1>4, <1>5 DEF WorkOK
<1>11. AloneOK'
    BY <1>1, <1>2, <1>3, <1>4, <1>5, <1>6 DEF AloneOK, Holding
<1>12. BoundOK'
    BY <1>1, <1>2, <1>3, <1>4, <1>5, <1>6 DEF BoundOK, Undisturbed, ServedAt, IdOf, Listening
<1>13. MarkedOK'
    BY <1>1, <1>2, <1>3, <1>4, <1>5, <1>6, EmptyRowOK DEF MarkedOK, Undisturbed, ServedAt, InFlight, Listening, TargetRow
<1>14. IdsOK'
    BY <1>1, <1>3, <1>4, <1>5 DEF IdsOK, Undisturbed, IdOf
<1>15. CountOK'
    BY <1>1, <1>3, CountSame
<1> QED
    BY <1>8, <1>9, <1>10, <1>11, <1>12, <1>13, <1>14, <1>15 DEF EstateInv

-----------------------------------------------------------------------------
(* Connections. *)

LEMMA CardAfter ==
    ASSUME NEW S, IsFiniteSet(S), NEW c
    PROVE  /\ Cardinality(S) \in Nat
           /\ Cardinality(S \cup {c}) = IF c \in S THEN Cardinality(S) ELSE Cardinality(S) + 1
           /\ Cardinality(S \ {c}) = IF c \in S THEN Cardinality(S) - 1 ELSE Cardinality(S)
           /\ c \in S => Cardinality(S) >= 1
<1>1. Cardinality(S) \in Nat /\ (S # {} => Cardinality(S) # 0)
    BY FS_CardinalityType, FS_EmptySet
<1>2. Cardinality(S \cup {c}) = IF c \in S THEN Cardinality(S) ELSE Cardinality(S) + 1
    BY FS_AddElement
<1>3. Cardinality(S \ {c}) = IF c \in S THEN Cardinality(S) - 1 ELSE Cardinality(S)
    BY FS_RemoveElement
<1> QED
    BY <1>1, <1>2, <1>3

LEMMA FewConns == ASSUME NEW f, NEW a PROVE IsFiniteSet(Live(f, a)) /\ IsFiniteSet(Greeting(f, a))
BY EstateAssumption, FS_Subset DEF Live, Greeting

LEMMA LiveAfter ==
    ASSUME NEW f \in [Conns -> ConnType], NEW c \in Conns, NEW d \in ConnType, NEW a
    PROVE  /\ Live([f EXCEPT ![c] = d], a) =
                 IF d.at \in {"handshake", "forward"} /\ d.addr = a THEN Live(f, a) \cup {c} ELSE Live(f, a) \ {c}
           /\ Greeting([f EXCEPT ![c] = d], a) =
                 IF d.at = "handshake" /\ d.addr = a THEN Greeting(f, a) \cup {c} ELSE Greeting(f, a) \ {c}
BY DEF Live, Greeting

\* A step of a connection changes the counters of its listener, and nothing else.
LEMMA ConnChanges ==
    ASSUME EstateInv, NEW c \in Conns, NEW d \in ConnType, NEW a \in Listening, NEW n \in StatsType,
           n.id = stats[a].id, n.bound = stats[a].bound,
           conns' = [conns EXCEPT ![c] = d], stats' = [stats EXCEPT ![a] = n],
           UNCHANGED <<tables, routes, work, aux, requests, restarts>>,
           d.at \in {"handshake", "forward"} => d.addr = a,
           conns[c].at \in {"handshake", "forward"} => conns[c].addr = a,
           Counted(n, Cardinality(Live(conns', a)), Cardinality(Greeting(conns', a)))
    PROVE  EstateInv'
<1>1. Types /\ RowsOK /\ WorkOK /\ AloneOK /\ BoundOK /\ MarkedOK /\ IdsOK /\ CountOK
    BY DEF EstateInv
<1>2. UNCHANGED <<targets, routeRows, certs, deleted, overlapped, torn, unbound>>
    BY DEF tables, aux
<1>3. a \in DOMAIN stats /\ stats[a].bound
    BY DEF Listening
<1>4. /\ DOMAIN stats' = DOMAIN stats /\ stats'[a] = n /\ stats' \in [DOMAIN stats' -> StatsType]
      /\ \A x \in DOMAIN stats : x # a => stats'[x] = stats[x]
    BY <1>1, <1>3 DEF Types
<1>5. \A x \in DOMAIN stats : stats'[x].id = stats[x].id /\ stats'[x].bound = stats[x].bound
    BY <1>4
<1>6. Listening' = Listening
    BY <1>4, <1>5 DEF Listening
<1>7. \A i, x : ServedAt(i, x) => x \in Listening' /\ stats'[x].id = i
    BY <1>5, <1>6 DEF ServedAt, Listening
<1>8. conns' \in [Conns -> ConnType]
    BY <1>1 DEF Types
<1>9. Types'
    BY <1>1, <1>2, <1>4, <1>8 DEF Types
<1>10. RowsOK' /\ WorkOK' /\ AloneOK' /\ IdsOK'
    BY <1>1, <1>2 DEF RowsOK, WorkOK, AloneOK, IdsOK, TargetRow, Undisturbed, IdOf
<1>11. BoundOK'
    BY <1>1, <1>2, <1>7 DEF BoundOK, Undisturbed, IdOf, ServedAt
<1>12. MarkedOK'
    <2> SUFFICES ASSUME NEW u \in DOMAIN targets, Undisturbed(u), NEW s \in targets[u].services, s.listen # None
                 PROVE  \/ \E g \in InFlight(u) : work[g].at \in {"unroute", "delete"}
                        \/ \E g \in InFlight(u) : work[g].at = "persist" /\ work[g].port = s.port
                        \/ /\ <<u, s.port>> \in DOMAIN routeRows /\ routeRows[<<u, s.port>>].listen = s.listen
                           /\ <<u, s.port>> \in unbound \/ (s.listen \in Listening' /\ stats'[s.listen].id = <<u, s.port>>)
        BY <1>2 DEF MarkedOK, Undisturbed, ServedAt, InFlight, TargetRow
    <2> QED
        BY <1>1, <1>7 DEF MarkedOK, TargetRow
<1>13. CountOK'
    <2>1. \A k \in Conns : conns'[k].at \in {"handshake", "forward"} => conns'[k].addr \in Listening
        BY <1>1 DEF CountOK, Types
    <2>2. ASSUME NEW x \in DOMAIN stats, x # a
          PROVE  Live(conns', x) = Live(conns, x) /\ Greeting(conns', x) = Greeting(conns, x)
        <3>1. c \notin Live(conns, x) /\ c \notin Greeting(conns, x)
            BY <2>2 DEF Live, Greeting
        <3>2. Live(conns', x) = Live(conns, x) \ {c} /\ Greeting(conns', x) = Greeting(conns, x) \ {c}
            <4>1. conns \in [Conns -> ConnType] /\ ~(d.at \in {"handshake", "forward"} /\ d.addr = x) /\ ~(d.at = "handshake" /\ d.addr = x)
                BY <1>1, <2>2 DEF Types
            <4>2. /\ Live([conns EXCEPT ![c] = d], x) = Live(conns, x) \ {c}
                  /\ Greeting([conns EXCEPT ![c] = d], x) = Greeting(conns, x) \ {c}
                BY <4>1 DEF Live, Greeting
            <4> QED
                BY <4>2
        <3> QED
            BY <3>1, <3>2
    <2>3. \A x \in DOMAIN stats' : Counted(stats'[x], Cardinality(Live(conns', x)), Cardinality(Greeting(conns', x)))
        BY <1>1, <1>4, <2>2 DEF CountOK
    <2> QED
        BY <1>6, <2>1, <2>3 DEF CountOK
<1> QED
    BY <1>9, <1>10, <1>11, <1>12, <1>13 DEF EstateInv

LEMMA AcceptedStats ==
    ASSUME NEW s \in StatsType, NEW n, n = [s EXCEPT !.total = s.total + 1, !.active = s.active + 1]
    PROVE  /\ n \in StatsType /\ n.id = s.id /\ n.bound = s.bound /\ n.total = s.total + 1 /\ n.active = s.active + 1
           /\ n.pqc = s.pqc /\ n.rejected = s.rejected /\ n.errors = s.errors /\ n.served = s.served
<1>1. s.total + 1 \in Nat /\ s.active + 1 \in Nat
    BY DEF StatsType
<1>2. n.id = s.id /\ n.bound = s.bound /\ n.total = s.total + 1 /\ n.active = s.active + 1
    BY DEF StatsType
<1>3. n.pqc = s.pqc /\ n.rejected = s.rejected /\ n.errors = s.errors /\ n.served = s.served
    BY DEF StatsType
<1>4. n \in StatsType
    BY <1>1 DEF StatsType
<1> QED
    BY <1>2, <1>3, <1>4

LEMMA AcceptStep == ASSUME NEW c \in Conns, NEW a \in Addrs PROVE EstateInv /\ Accept(c, a) => EstateInv'
<1> SUFFICES ASSUME EstateInv, Accept(c, a) PROVE EstateInv'
    OBVIOUS
<1> DEFINE d == [at |-> "handshake", addr |-> a, pqc |-> FALSE]
           s == stats[a]
           n == [s EXCEPT !.total = s.total + 1, !.active = s.active + 1]
<1>1. Types /\ CountOK
    BY DEF EstateInv
<1>2. /\ a \in Listening /\ conns[c].at = "none" /\ conns' = [conns EXCEPT ![c] = d]
      /\ UNCHANGED <<tables, routes, work, aux, requests, restarts>>
    BY DEF Accept
<1>3. d \in ConnType /\ d.at = "handshake" /\ d.addr = a
    BY DEF ConnType
<1>4. a \in DOMAIN stats /\ s \in StatsType
    BY <1>1, <1>2 DEF Types, Listening
<1>5. stats' = [stats EXCEPT ![a] = n]
    BY <1>1, <1>4 DEF Accept, Types
<1>6. /\ n \in StatsType /\ n.id = s.id /\ n.bound = s.bound /\ n.total = s.total + 1 /\ n.active = s.active + 1
      /\ n.pqc = s.pqc /\ n.rejected = s.rejected /\ n.errors = s.errors /\ n.served = s.served
    <2> HIDE DEF s
    <2> QED
        BY <1>4, AcceptedStats
<1>7. c \notin Live(conns, a) /\ c \notin Greeting(conns, a)
    BY <1>2 DEF Live, Greeting
<1>8. Live(conns', a) = Live(conns, a) \cup {c} /\ Greeting(conns', a) = Greeting(conns, a) \cup {c}
    <2> HIDE DEF d
    <2>1. conns \in [Conns -> ConnType]
        BY <1>1 DEF Types
    <2>2. /\ Live([conns EXCEPT ![c] = d], a) = Live(conns, a) \cup {c}
          /\ Greeting([conns EXCEPT ![c] = d], a) = Greeting(conns, a) \cup {c}
        BY <1>3, <2>1 DEF Live, Greeting
    <2> QED
        BY <1>2, <2>2
<1> HIDE DEF d, n
<1>9. /\ Cardinality(Live(conns', a)) = Cardinality(Live(conns, a)) + 1
      /\ Cardinality(Greeting(conns', a)) = Cardinality(Greeting(conns, a)) + 1
      /\ Cardinality(Greeting(conns, a)) \in Nat /\ Cardinality(Live(conns, a)) \in Nat
    BY <1>7, <1>8, CardAfter, FewConns
<1>10. Counted(s, Cardinality(Live(conns, a)), Cardinality(Greeting(conns, a)))
    BY <1>1, <1>4 DEF CountOK
<1>11. Counted(n, Cardinality(Live(conns', a)), Cardinality(Greeting(conns', a)))
    BY <1>4, <1>6, <1>9, <1>10 DEF Counted, StatsType
<1>12. /\ n \in StatsType /\ n.id = stats[a].id /\ n.bound = stats[a].bound
       /\ d.at \in {"handshake", "forward"} => d.addr = a
       /\ conns[c].at \in {"handshake", "forward"} => conns[c].addr = a
    BY <1>2, <1>3, <1>6
<1> QED
    BY <1>2, <1>3, <1>5, <1>11, <1>12, ConnChanges

LEMMA EndedStats ==
    ASSUME NEW s \in StatsType, s.active >= 1, NEW failed \in BOOLEAN, NEW n, n = Ended(s, failed)
    PROVE  /\ n \in StatsType /\ n.id = s.id /\ n.bound = s.bound /\ n.total = s.total /\ n.active = s.active - 1
           /\ n.pqc = s.pqc /\ n.rejected = s.rejected /\ n.errors = s.errors + (IF failed THEN 1 ELSE 0)
           /\ n.served = s.served + (IF failed THEN 0 ELSE 1)
<1> DEFINE e == IF failed THEN s.errors + 1 ELSE s.errors
           v == IF failed THEN s.served ELSE s.served + 1
<1>1. n = [s EXCEPT !.active = s.active - 1, !.errors = e, !.served = v]
    BY DEF Ended
<1>2. s.active - 1 \in Nat /\ e \in Nat /\ v \in Nat /\ s.errors \in Nat /\ s.served \in Nat
    BY DEF StatsType
<1>3. e = s.errors + (IF failed THEN 1 ELSE 0) /\ v = s.served + (IF failed THEN 0 ELSE 1)
    BY <1>2
<1> HIDE DEF e, v
<1>4. n.id = s.id /\ n.bound = s.bound /\ n.total = s.total /\ n.active = s.active - 1
    BY <1>1 DEF StatsType
<1>5. n.pqc = s.pqc /\ n.rejected = s.rejected /\ n.errors = e /\ n.served = v
    BY <1>1 DEF StatsType
<1>6. n \in StatsType
    BY <1>1, <1>2 DEF StatsType
<1> QED
    BY <1>3, <1>4, <1>5, <1>6

\* A live connection, its listener and what is counted there.
LEMMA LiveFacts ==
    ASSUME EstateInv, NEW c \in Conns, conns[c].at \in {"handshake", "forward"}, NEW a, a = conns[c].addr
    PROVE  /\ a \in Listening /\ a \in DOMAIN stats /\ stats[a] \in StatsType /\ stats[a].active >= 1
           /\ conns \in [Conns -> ConnType] /\ conns[c] \in ConnType
           /\ Counted(stats[a], Cardinality(Live(conns, a)), Cardinality(Greeting(conns, a)))
           /\ Cardinality(Greeting(conns, a)) \in Nat /\ Cardinality(Live(conns, a)) \in Nat
<1>1. Types /\ CountOK
    BY DEF EstateInv
<1>2. a \in Listening /\ a \in DOMAIN stats
    BY <1>1 DEF CountOK, Listening
<1>3. stats[a] \in StatsType /\ conns \in [Conns -> ConnType] /\ conns[c] \in ConnType
    BY <1>1, <1>2 DEF Types
<1>4. Counted(stats[a], Cardinality(Live(conns, a)), Cardinality(Greeting(conns, a)))
    BY <1>1, <1>2 DEF CountOK
<1>5. c \in Live(conns, a)
    BY DEF Live
<1>6. Cardinality(Greeting(conns, a)) \in Nat /\ Cardinality(Live(conns, a)) \in Nat /\ Cardinality(Live(conns, a)) >= 1
    BY <1>5, CardAfter, FewConns
<1> QED
    BY <1>2, <1>3, <1>4, <1>6 DEF Counted

\* The counters m, from s, that Ended is about to finish, with g others in their handshake.
Ending(m, s, failed, g) ==
    /\ m \in StatsType /\ m.id = s.id /\ m.bound = s.bound /\ m.active = s.active
    /\ m.total = s.total /\ m.errors = s.errors /\ m.served = s.served
    /\ m.rejected <= m.errors + (IF failed THEN 1 ELSE 0)
    /\ m.pqc + m.rejected + g <= m.total

\* A connection is over: one live connection less.
LEMMA ConnOver ==
    ASSUME EstateInv, NEW c \in Conns, conns[c].at \in {"handshake", "forward"}, NEW a, a = conns[c].addr,
           NEW d \in ConnType, d.at = "over", conns' = [conns EXCEPT ![c] = d],
           NEW m, NEW failed \in BOOLEAN, Ending(m, stats[a], failed, Cardinality(Greeting(conns, a) \ {c})),
           stats' = [stats EXCEPT ![a] = Ended(m, failed)],
           UNCHANGED <<tables, routes, work, aux, requests, restarts>>
    PROVE  EstateInv'
<1> DEFINE n == Ended(m, failed)
<1>1. /\ a \in Listening /\ a \in DOMAIN stats /\ stats[a] \in StatsType /\ stats[a].active >= 1
      /\ conns \in [Conns -> ConnType]
      /\ Counted(stats[a], Cardinality(Live(conns, a)), Cardinality(Greeting(conns, a)))
      /\ Cardinality(Live(conns, a)) \in Nat
    BY LiveFacts
<1>2. /\ n \in StatsType /\ n.id = m.id /\ n.bound = m.bound /\ n.total = m.total /\ n.active = m.active - 1
      /\ n.pqc = m.pqc /\ n.rejected = m.rejected /\ n.errors = m.errors + (IF failed THEN 1 ELSE 0)
      /\ n.served = m.served + (IF failed THEN 0 ELSE 1)
    BY <1>1, EndedStats DEF Ending
<1>3. stats' = [stats EXCEPT ![a] = n]
    OBVIOUS
<1> HIDE DEF n
<1>4. Live(conns', a) = Live(conns, a) \ {c} /\ Greeting(conns', a) = Greeting(conns, a) \ {c}
    <2>1. /\ Live([conns EXCEPT ![c] = d], a) = Live(conns, a) \ {c}
          /\ Greeting([conns EXCEPT ![c] = d], a) = Greeting(conns, a) \ {c}
        BY <1>1 DEF Live, Greeting
    <2> QED
        BY <2>1
<1>5. c \in Live(conns, a)
    BY DEF Live
<1>6. Cardinality(Live(conns', a)) = Cardinality(Live(conns, a)) - 1
    <2>1. IsFiniteSet(Live(conns, a))
        BY FewConns
    <2>2. Cardinality(Live(conns, a) \ {c}) = IF c \in Live(conns, a) THEN Cardinality(Live(conns, a)) - 1 ELSE Cardinality(Live(conns, a))
        BY <2>1, CardAfter
    <2> QED
        BY <1>4, <1>5, <2>2
<1>7. Counted(n, Cardinality(Live(conns', a)), Cardinality(Greeting(conns', a)))
    <2>1. n.active = Cardinality(Live(conns', a))
        BY <1>1, <1>2, <1>6 DEF Counted, Ending
    <2>2. n.total + (IF n.bound THEN 0 ELSE 1) = n.active + n.served + n.errors
        BY <1>1, <1>2 DEF Counted, Ending, StatsType
    <2>3. n.rejected <= n.errors /\ n.pqc + n.rejected + Cardinality(Greeting(conns', a)) <= n.total
        BY <1>2, <1>4 DEF Ending
    <2> QED
        BY <2>1, <2>2, <2>3 DEF Counted
<1>8. /\ n.id = stats[a].id /\ n.bound = stats[a].bound /\ d.at \notin {"handshake", "forward"}
    BY <1>2 DEF Ending
<1>9. /\ d.at \in {"handshake", "forward"} => d.addr = a
      /\ conns[c].at \in {"handshake", "forward"} => conns[c].addr = a
    BY <1>8
<1> QED
    <2>1. n \in StatsType /\ a \in Listening
        BY <1>1, <1>2
    <2> QED
        BY <1>3, <1>7, <1>8, <1>9, <2>1, ConnChanges, ZenonT(30)

\* The connections in their handshake, without c.
LEMMA GreetingLess ==
    ASSUME EstateInv, NEW c \in Conns, conns[c].at \in {"handshake", "forward"}, NEW a, a = conns[c].addr
    PROVE  /\ Cardinality(Greeting(conns, a) \ {c}) \in Nat
           /\ Cardinality(Greeting(conns, a) \ {c}) <= Cardinality(Greeting(conns, a))
           /\ conns[c].at = "handshake" => Cardinality(Greeting(conns, a) \ {c}) + 1 = Cardinality(Greeting(conns, a))
<1>1. c \in Greeting(conns, a) <=> conns[c].at = "handshake"
    BY DEF Greeting
<1>2. IsFiniteSet(Greeting(conns, a))
    BY FewConns
<1>3. /\ Cardinality(Greeting(conns, a)) \in Nat
      /\ Cardinality(Greeting(conns, a) \ {c}) =
            IF c \in Greeting(conns, a) THEN Cardinality(Greeting(conns, a)) - 1 ELSE Cardinality(Greeting(conns, a))
      /\ c \in Greeting(conns, a) => Cardinality(Greeting(conns, a)) >= 1
    BY <1>2, CardAfter
<1> QED
    BY <1>1, <1>3

LEMMA OverConn == ASSUME NEW k \in ConnType PROVE [k EXCEPT !.at = "over"] \in ConnType /\ [k EXCEPT !.at = "over"].at = "over"
BY DEF ConnType

\* handle_conn comes to its end.
Ends(c, failed) ==
    /\ conns[c].at \in {"handshake", "forward"}
    /\ conns' = [conns EXCEPT ![c].at = "over"]
    /\ stats' = [stats EXCEPT ![conns[c].addr] = Ended(@, failed)]
    /\ UNCHANGED <<tables, routes, work, aux, requests, restarts>>

LEMMA EndsStep == ASSUME EstateInv, NEW c \in Conns, NEW failed \in BOOLEAN, Ends(c, failed) PROVE EstateInv'
<1> DEFINE a == conns[c].addr
           m == stats[a]
           d == [conns[c] EXCEPT !.at = "over"]
<1>0. conns[c].at \in {"handshake", "forward"} /\ UNCHANGED <<tables, routes, work, aux, requests, restarts>>
    BY DEF Ends
<1>1. /\ a \in DOMAIN stats /\ m \in StatsType /\ m.active >= 1 /\ conns[c] \in ConnType
      /\ Counted(m, Cardinality(Live(conns, a)), Cardinality(Greeting(conns, a)))
      /\ Cardinality(Greeting(conns, a)) \in Nat
    BY <1>0, LiveFacts
<1>2. /\ Cardinality(Greeting(conns, a) \ {c}) \in Nat
      /\ Cardinality(Greeting(conns, a) \ {c}) <= Cardinality(Greeting(conns, a))
    BY <1>0, GreetingLess
<1>3. d \in ConnType /\ d.at = "over"
    BY <1>1, OverConn
<1>4. conns' = [conns EXCEPT ![c] = d] /\ stats' = [stats EXCEPT ![a] = Ended(m, failed)]
    BY DEF Ends
<1>5. Ending(m, stats[a], failed, Cardinality(Greeting(conns, a) \ {c}))
    <2>1. m.rejected <= m.errors + (IF failed THEN 1 ELSE 0) /\ m.pqc + m.rejected + Cardinality(Greeting(conns, a) \ {c}) <= m.total
        <3> HIDE DEF m
        <3> QED
            BY <1>1, <1>2 DEF Counted, StatsType
    <2> QED
        BY <1>1, <2>1 DEF Ending
<1> HIDE DEF m, d, a
<1>6. a = conns[c].addr
    BY DEF a
<1> QED
    BY <1>0, <1>3, <1>4, <1>5, <1>6, ConnOver

LEMMA FailsStep == ASSUME NEW c \in Conns PROVE EstateInv /\ Fails(c) => EstateInv'
BY EndsStep DEF Fails, Ends

LEMMA ServedStep == ASSUME NEW c \in Conns PROVE EstateInv /\ Served(c) => EstateInv'
BY EndsStep DEF Served, Ends

\* The counters with the negotiated group, and those of a connection that is refused.
LEMMA NegotiatedStats ==
    ASSUME NEW s \in StatsType, NEW pqc \in BOOLEAN
    PROVE  \/ /\ s.mode = "pqc-only" /\ ~pqc
              /\ \E m \in StatsType : /\ Negotiated(s, pqc) = Ended(m, TRUE)
                                      /\ m.id = s.id /\ m.bound = s.bound /\ m.active = s.active /\ m.total = s.total
                                      /\ m.errors = s.errors /\ m.served = s.served /\ m.pqc = s.pqc
                                      /\ m.rejected = s.rejected + 1
           \/ /\ ~(s.mode = "pqc-only" /\ ~pqc)
              /\ Negotiated(s, pqc) \in StatsType
              /\ LET n == Negotiated(s, pqc)
                 IN  /\ n.id = s.id /\ n.bound = s.bound /\ n.active = s.active /\ n.total = s.total
                     /\ n.errors = s.errors /\ n.served = s.served /\ n.rejected = s.rejected
                     /\ n.pqc = s.pqc + (IF pqc THEN 1 ELSE 0)
<1> DEFINE q == IF pqc THEN s.pqc + 1 ELSE s.pqc
           n == [s EXCEPT !.pqc = q]
           m == [n EXCEPT !.rejected = s.rejected + 1]
<1>1. q \in Nat /\ q = s.pqc + (IF pqc THEN 1 ELSE 0) /\ s.rejected + 1 \in Nat
    BY DEF StatsType
<1> HIDE DEF q
<1>2. n.id = s.id /\ n.bound = s.bound /\ n.active = s.active /\ n.total = s.total
    BY DEF StatsType
<1>3. n.errors = s.errors /\ n.served = s.served /\ n.rejected = s.rejected /\ n.pqc = q
    BY DEF StatsType
<1>4. n \in StatsType
    BY <1>1 DEF StatsType
<1>5. Negotiated(s, pqc) = IF s.mode = "pqc-only" /\ ~pqc THEN Ended(m, TRUE) ELSE n
    BY <1>3 DEF Negotiated, q
<1> HIDE DEF n
<1>6. m.id = n.id /\ m.bound = n.bound /\ m.active = n.active /\ m.total = n.total
    BY <1>4 DEF StatsType
<1>7. m.errors = n.errors /\ m.served = n.served /\ m.pqc = n.pqc /\ m.rejected = s.rejected + 1
    BY <1>4 DEF StatsType
<1>8. m \in StatsType
    BY <1>1, <1>4 DEF StatsType
<1> HIDE DEF m
<1>9. CASE s.mode = "pqc-only" /\ ~pqc
    <2>1. q = s.pqc
        BY <1>9 DEF q
    <2>2. Negotiated(s, pqc) = Ended(m, TRUE)
        BY <1>5, <1>9
    <2> QED
        BY <1>2, <1>3, <1>6, <1>7, <1>8, <1>9, <2>1, <2>2
<1>10. CASE ~(s.mode = "pqc-only" /\ ~pqc)
    <2>1. Negotiated(s, pqc) = n
        BY <1>5, <1>10
    <2> QED
        BY <1>1, <1>2, <1>3, <1>4, <1>10, <2>1
<1> QED
    BY <1>9, <1>10

LEMMA HandshakeStep == ASSUME NEW c \in Conns, NEW pqc \in BOOLEAN PROVE EstateInv /\ Handshake(c, pqc) => EstateInv'
<1> SUFFICES ASSUME EstateInv, Handshake(c, pqc) PROVE EstateInv'
    OBVIOUS
<1> DEFINE a == conns[c].addr
           s == stats[a]
           refused == s.mode = "pqc-only" /\ ~pqc
           d == [conns[c] EXCEPT !.pqc = pqc, !.at = IF refused THEN "over" ELSE "forward"]
           rest == Greeting(conns, a) \ {c}
<1>1. conns[c].at = "handshake" /\ UNCHANGED <<tables, routes, work, aux, requests, restarts>>
    BY DEF Handshake
<1>2. /\ a \in Listening /\ a \in DOMAIN stats /\ s \in StatsType /\ s.active >= 1
      /\ conns \in [Conns -> ConnType] /\ conns[c] \in ConnType
      /\ Counted(s, Cardinality(Live(conns, a)), Cardinality(Greeting(conns, a)))
      /\ Cardinality(Greeting(conns, a)) \in Nat /\ Cardinality(Live(conns, a)) \in Nat
    BY <1>1, LiveFacts
<1>3. Cardinality(rest) \in Nat /\ Cardinality(rest) + 1 = Cardinality(Greeting(conns, a))
    BY <1>1, GreetingLess
<1>4. conns' = [conns EXCEPT ![c] = d] /\ stats' = [stats EXCEPT ![a] = Negotiated(s, pqc)]
    BY <1>2 DEF Handshake
<1>5. d \in ConnType /\ d.at = (IF refused THEN "over" ELSE "forward") /\ d.addr = a
    <2> HIDE DEF refused
    <2> QED
        BY <1>2 DEF ConnType
<1>6. a = conns[c].addr
    OBVIOUS
<1> HIDE DEF a, d
<1>7. CASE refused
    <2>1. PICK m \in StatsType : /\ Negotiated(s, pqc) = Ended(m, TRUE)
                                 /\ m.id = s.id /\ m.bound = s.bound /\ m.active = s.active /\ m.total = s.total
                                 /\ m.errors = s.errors /\ m.served = s.served /\ m.pqc = s.pqc
                                 /\ m.rejected = s.rejected + 1
        BY <1>2, <1>7, NegotiatedStats
    <2>2. Ending(m, s, TRUE, Cardinality(rest))
        <3> HIDE DEF s, rest
        <3> QED
            BY <1>2, <1>3, <2>1 DEF Ending, Counted, StatsType
    <2>3. stats' = [stats EXCEPT ![a] = Ended(m, TRUE)]
        BY <1>4, <2>1
    <2>4. conns' = [conns EXCEPT ![c] = d] /\ d.at = "over"
        BY <1>4, <1>5, <1>7
    <2> QED
        BY <1>1, <1>5, <1>6, <2>2, <2>3, <2>4, ConnOver
<1>8. CASE ~refused
    <2> DEFINE n == Negotiated(s, pqc)
    <2>1. /\ n \in StatsType /\ n.id = s.id /\ n.bound = s.bound /\ n.active = s.active /\ n.total = s.total
          /\ n.errors = s.errors /\ n.served = s.served /\ n.rejected = s.rejected
          /\ n.pqc = s.pqc + (IF pqc THEN 1 ELSE 0)
        BY <1>2, <1>8, NegotiatedStats
    <2>2. d.at = "forward"
        BY <1>5, <1>8
    <2>3. Live(conns', a) = Live(conns, a) /\ Greeting(conns', a) = rest
        <3>1. /\ Live([conns EXCEPT ![c] = d], a) = Live(conns, a)
              /\ Greeting([conns EXCEPT ![c] = d], a) = rest
            BY <1>1, <1>2, <1>5, <1>6, <2>2 DEF Live, Greeting
        <3> QED
            BY <1>4, <3>1
    <2> HIDE DEF n, rest
    <2>4. Counted(n, Cardinality(Live(conns', a)), Cardinality(Greeting(conns', a)))
        <3> HIDE DEF s
        <3> QED
            BY <1>2, <1>3, <2>1, <2>3 DEF Counted, StatsType
    <2>5. stats' = [stats EXCEPT ![a] = n]
        BY <1>4 DEF n
    <2>6. n.id = stats[a].id /\ n.bound = stats[a].bound /\ conns' = [conns EXCEPT ![c] = d]
        BY <1>4, <2>1
    <2> QED
        BY <1>1, <1>2, <1>5, <1>6, <2>1, <2>4, <2>5, <2>6, ConnChanges
<1> QED
    BY <1>7, <1>8

-----------------------------------------------------------------------------
(* Starting. *)

\* Of two stored routes with one address at most one is bound again.
LEMMA BackUnique ==
    ASSUME Types, NEW taken, NEW i \in Rebound(taken), NEW j \in Rebound(taken),
           routeRows[i].listen = routeRows[j].listen
    PROVE  i = j
<1>1. i \in RouteIds /\ j \in RouteIds /\ i \in DOMAIN routeRows /\ j \in DOMAIN routeRows
    BY DEF Rebound, Types
<1>2. i[1] \in Nat /\ i[2] \in Nat /\ j[1] \in Nat /\ j[2] \in Nat /\ i = <<i[1], i[2]>> /\ j = <<j[1], j[2]>>
    <2>1. \A x \in Targets \X Ports : x[1] \in Targets /\ x[2] \in Ports /\ x = <<x[1], x[2]>>
        OBVIOUS
    <2>2. Targets \subseteq Nat /\ Ports \subseteq Nat
        BY EstateAssumption
    <2>3. i \in Targets \X Ports /\ j \in Targets \X Ports
        BY <1>1 DEF RouteIds
    <2> QED
        BY <2>1, <2>2, <2>3
<1>3. ~Before(i, j) /\ ~Before(j, i)
    BY <1>1 DEF Rebound
<1>4. i[1] = j[1] /\ i[2] = j[2]
    BY <1>2, <1>3 DEF Before
<1> QED
    BY <1>2, <1>4

LEMMA NoneCounted == ASSUME NEW f, f = [c \in Conns |-> NoConn]
                     PROVE  /\ f \in [Conns -> ConnType] /\ \A c \in Conns : f[c].at = "none"
                            /\ \A a : Cardinality(Live(f, a)) = 0 /\ Cardinality(Greeting(f, a)) = 0
<1>1. f \in [Conns -> ConnType] /\ \A c \in Conns : f[c].at = "none"
    BY DEF NoConn, ConnType
<1>2. \A a : Live(f, a) = {} /\ Greeting(f, a) = {}
    BY <1>1 DEF Live, Greeting
<1> QED
    BY <1>1, <1>2, FS_EmptySet

LEMMA ConfigStatsFacts ==
    ASSUME NEW taken
    PROVE  ConfigStats(taken) \in StatsType /\ Counted(ConfigStats(taken), 0, 0)
<1> DEFINE n == NewStats(Configured, "pqc-only")
           b == ConfigAddr \notin taken
           e == IF ConfigAddr \in taken THEN 1 ELSE 0
           m == [n EXCEPT !.bound = b, !.errors = e]
<1>1. n \in StatsType
    BY NewStatsFacts DEF Modes
<1>2. n.total = 0 /\ n.active = 0 /\ n.pqc = 0 /\ n.rejected = 0 /\ n.errors = 0 /\ n.served = 0
    BY DEF NewStats
<1>3. b \in BOOLEAN /\ e \in Nat /\ (b => e = 0) /\ (~b => e = 1)
    OBVIOUS
<1>4. ConfigStats(taken) = m
    BY DEF ConfigStats
<1> HIDE DEF n, b, e
<1>5. m \in StatsType
    BY <1>1, <1>3 DEF StatsType
<1>6. m.total = n.total /\ m.active = n.active /\ m.pqc = n.pqc /\ m.rejected = n.rejected
    BY <1>1 DEF StatsType
<1>7. m.served = n.served /\ m.errors = e /\ m.bound = b
    BY <1>1 DEF StatsType
<1> HIDE DEF m
<1>8. m.total + (IF m.bound THEN 0 ELSE 1) = m.active + m.served + m.errors
    BY <1>2, <1>3, <1>6, <1>7
<1>9. m.active = 0 /\ m.rejected <= m.errors /\ m.pqc + m.rejected + 0 <= m.total
    BY <1>2, <1>3, <1>6, <1>7
<1> QED
    BY <1>4, <1>5, <1>8, <1>9 DEF Counted

\* What a start leaves in memory: the stored routes that are not skipped, each at its own address.
LEMMA RestartedFacts ==
    ASSUME Types, NEW taken \in SUBSET Addrs, Restarted(taken)
    PROVE  /\ stats' \in [DOMAIN stats' -> StatsType] /\ DOMAIN stats' \subseteq Addrs
           /\ \A a \in DOMAIN stats' : Counted(stats'[a], 0, 0)
           /\ routes' \in [DOMAIN routes' -> DOMAIN stats'] /\ DOMAIN routes' \subseteq DOMAIN routeRows \cup {Configured}
           /\ \A id \in DOMAIN routeRows \ unbound' :
                 routeRows[id].listen \in Listening' /\ stats'[routeRows[id].listen].id = id
<1> DEFINE back == Rebound(taken)
           at == {routeRows[id].listen : id \in back}
           who(a) == CHOOSE i \in back : routeRows[i].listen = a
           f == [a \in at |-> NewStats(who(a), routeRows[who(a)].mode)]
           g == [id \in back |-> routeRows[id].listen]
<1>1. /\ stats' = WithConfig(f, ConfigAddr, ConfigStats(taken))
      /\ routes' = WithConfig(g, Configured, ConfigAddr)
      /\ unbound' = DOMAIN routeRows \ back
    BY DEF Restarted
<1>2. /\ back \subseteq DOMAIN routeRows
      /\ \A id \in back : routeRows[id].listen \in Addrs /\ routeRows[id].listen # ConfigAddr
                          /\ routeRows[id].mode \in Modes /\ id \in RouteIds
    BY EstateAssumption DEF Rebound, Types, Modes
<1>3. \A a \in at : who(a) \in back /\ routeRows[who(a)].listen = a
    OBVIOUS
<1>4. \A id \in back : routeRows[id].listen \in at /\ who(routeRows[id].listen) = id
    BY <1>3, BackUnique
<1> HIDE DEF back, who
<1>5. \A a \in at : /\ f[a] \in StatsType /\ f[a].id = who(a) /\ f[a].bound = TRUE /\ Counted(f[a], 0, 0)
    BY <1>2, <1>3, NewStatsFacts
<1>6. DOMAIN f = at /\ at \subseteq Addrs /\ ConfigAddr \notin at /\ DOMAIN g = back /\ \A id \in back : g[id] \in at
    BY <1>2
<1> HIDE DEF f, g, at
<1>7. CASE ConfigAddr = None
    <2>1. stats' = f /\ routes' = g
        BY <1>1, <1>7 DEF WithConfig
    <2>2. f \in [at -> StatsType]
        BY <1>5, <1>6 DEF f
    <2>3. g \in [back -> at]
        BY <1>6 DEF g
    <2> QED
        BY <1>1, <1>2, <1>4, <1>5, <1>6, <2>1, <2>2, <2>3 DEF Listening
<1>8. CASE ConfigAddr # None
    <2>1. stats' = Put(f, ConfigAddr, ConfigStats(taken)) /\ routes' = Put(g, Configured, ConfigAddr)
        BY <1>1, <1>8 DEF WithConfig
    <2>2. /\ DOMAIN stats' = at \cup {ConfigAddr} /\ stats'[ConfigAddr] = ConfigStats(taken)
          /\ \A a \in at : stats'[a] = f[a]
        BY <1>6, <2>1 DEF Put
    <2>3. DOMAIN routes' = back \cup {Configured}
        BY <1>6, <2>1 DEF Put
    <2>4. ConfigAddr \in Addrs
        BY <1>8, EstateAssumption DEF None
    <2>5. stats' \in [DOMAIN stats' -> StatsType]
        BY <1>5, <1>6, <2>1, <2>2, ConfigStatsFacts DEF Put
    <2>6. routes' \in [DOMAIN routes' -> DOMAIN stats']
        BY <1>6, <2>1, <2>2, <2>3 DEF Put
    <2>7. \A a \in DOMAIN stats' : Counted(stats'[a], 0, 0)
        BY <1>5, <2>2, ConfigStatsFacts
    <2> QED
        BY <1>1, <1>2, <1>4, <1>5, <1>6, <2>2, <2>3, <2>4, <2>5, <2>6, <2>7 DEF Listening
<1> QED
    BY <1>7, <1>8

LEMMA RestartStep == EstateInv /\ Restart => EstateInv'
<1> SUFFICES ASSUME EstateInv, Restart PROVE EstateInv'
    OBVIOUS
<1>1. Types /\ RowsOK /\ WorkOK /\ AloneOK /\ BoundOK /\ MarkedOK /\ IdsOK /\ CountOK
    BY DEF EstateInv
<1>2. /\ work' = [h \in Handlers |-> Waiting] /\ UNCHANGED <<targets, routeRows, certs, deleted, overlapped, requests>>
      /\ restarts' \in Nat
    BY <1>1 DEF Restart, tables, Types
<1>3. \A u : u \notin torn' => u \notin torn /\ \A h \in Handlers : work[h].at # "idle" => work[h].target # u
    BY DEF Restart
<1>4. PICK taken \in SUBSET Addrs : Restarted(taken)
    BY DEF Restart
<1>5. conns' = [c \in Conns |-> NoConn]
    BY <1>4 DEF Restarted
<1>6. /\ stats' \in [DOMAIN stats' -> StatsType] /\ DOMAIN stats' \subseteq Addrs
      /\ \A a \in DOMAIN stats' : Counted(stats'[a], 0, 0)
      /\ routes' \in [DOMAIN routes' -> DOMAIN stats'] /\ DOMAIN routes' \subseteq DOMAIN routeRows \cup {Configured}
      /\ \A id \in DOMAIN routeRows \ unbound' :
            routeRows[id].listen \in Listening' /\ stats'[routeRows[id].listen].id = id
    BY <1>1, <1>4, RestartedFacts
<1>7. /\ conns' \in [Conns -> ConnType] /\ \A c \in Conns : conns'[c].at = "none"
      /\ \A a : Cardinality(Live(conns', a)) = 0 /\ Cardinality(Greeting(conns', a)) = 0
    BY <1>5, NoneCounted
<1>8. \A h \in Handlers : work'[h] = Waiting /\ work'[h].at = "idle"
    BY <1>2, WaitingFacts
<1>9. Types'
    BY <1>1, <1>2, <1>6, <1>7, WaitingFacts DEF Types
<1>10. RowsOK'
    BY <1>1, <1>2, <1>8, WaitingFacts, EmptyRowOK DEF RowsOK, TargetRow
<1>11. WorkOK' /\ BoundOK'
    BY <1>8 DEF WorkOK, BoundOK
<1>12. AloneOK'
    BY <1>1, <1>2, <1>8 DEF AloneOK
<1>13. MarkedOK'
    <2> SUFFICES ASSUME NEW u \in DOMAIN targets, u \notin overlapped \cup torn', NEW s \in targets[u].services, s.listen # None
                 PROVE  /\ <<u, s.port>> \in DOMAIN routeRows /\ routeRows[<<u, s.port>>].listen = s.listen
                        /\ <<u, s.port>> \in unbound' \/ (s.listen \in Listening' /\ stats'[s.listen].id = <<u, s.port>>)
        BY <1>2 DEF MarkedOK, Undisturbed, ServedAt, TargetRow
    <2>1. InFlight(u) = {} /\ Undisturbed(u)
        BY <1>3 DEF InFlight, Undisturbed
    <2>2. <<u, s.port>> \in DOMAIN routeRows /\ routeRows[<<u, s.port>>].listen = s.listen
        BY <1>1, <2>1 DEF MarkedOK, TargetRow
    <2> QED
        BY <1>6, <2>2
<1>14. IdsOK'
    <2>1. \A t \in deleted : t # Configured[1]
        BY <1>1, EstateAssumption DEF Types, Configured, None
    <2>2. \A t : t \notin overlapped \cup torn' => Undisturbed(t)
        BY <1>3 DEF Undisturbed
    <2> QED
        BY <1>1, <1>2, <1>6, <1>8, <2>1, <2>2 DEF IdsOK, Undisturbed
<1>15. CountOK'
    BY <1>6, <1>7 DEF CountOK
<1> QED
    BY <1>9, <1>10, <1>11, <1>12, <1>13, <1>14, <1>15 DEF EstateInv

LEMMA EstateInitInv == EstateInit => EstateInv
<1> SUFFICES ASSUME EstateInit PROVE EstateInv
    OBVIOUS
<1> DEFINE n == NewStats(Configured, "pqc-only")
<1>1. /\ targets = << >> /\ routeRows = << >> /\ certs = << >> /\ deleted = {} /\ requests = 0 /\ restarts = 0
      /\ conns = [c \in Conns |-> NoConn] /\ work = [h \in Handlers |-> Waiting]
    BY DEF EstateInit
<1>2. n \in StatsType /\ Counted(n, 0, 0)
    BY NewStatsFacts DEF Modes
<1> HIDE DEF n
<1>3. /\ stats \in [DOMAIN stats -> StatsType] /\ DOMAIN stats \subseteq Addrs
      /\ \A a \in DOMAIN stats : Counted(stats[a], 0, 0)
      /\ routes \in [DOMAIN routes -> DOMAIN stats] /\ DOMAIN routes \subseteq {Configured}
    <2>1. CASE ConfigAddr = None
        <3>1. stats = << >> /\ routes = << >>
            BY <2>1 DEF EstateInit, WithConfig
        <3> QED
            BY <3>1
    <2>2. CASE ConfigAddr # None
        <3>1. stats = Put(<< >>, ConfigAddr, n) /\ routes = Put(<< >>, Configured, ConfigAddr)
            BY <2>2 DEF EstateInit, WithConfig, n
        <3>2. stats = [x \in {ConfigAddr} |-> n] /\ routes = [x \in {Configured} |-> ConfigAddr]
            BY <3>1 DEF Put
        <3>3. ConfigAddr \in Addrs
            BY <2>2, EstateAssumption DEF None
        <3> QED
            BY <1>2, <3>2, <3>3
    <2> QED
        BY <2>1, <2>2
<1>4. /\ conns \in [Conns -> ConnType] /\ \A c \in Conns : conns[c].at = "none"
      /\ \A a : Cardinality(Live(conns, a)) = 0 /\ Cardinality(Greeting(conns, a)) = 0
    BY <1>1, NoneCounted
<1>5. \A h \in Handlers : work[h] = Waiting /\ work[h].at = "idle"
    BY <1>1, WaitingFacts
<1>6. DOMAIN targets = {} /\ DOMAIN routeRows = {} /\ DOMAIN certs = {}
    BY <1>1
<1>7. Types
    <2>1. IsFiniteSet({})
        BY FS_EmptySet
    <2>2. work \in [Handlers -> WorkType]
        BY <1>1, WaitingFacts
    <2>3. /\ targets \in [DOMAIN targets -> RowType] /\ certs \in [DOMAIN certs -> {"active", "revoked"}]
          /\ routeRows \in [DOMAIN routeRows -> [listen : Addrs, mode : RouteModes \cup {"hybrid"}]]
        BY <1>1, EmptyIsFunction
    <2> QED
        BY <1>1, <1>3, <1>4, <1>6, <2>1, <2>2, <2>3 DEF Types
<1>8. RowsOK
    BY <1>5, <1>6, WaitingFacts, EmptyRowOK DEF RowsOK
<1>9. WorkOK /\ AloneOK /\ BoundOK /\ MarkedOK
    BY <1>1, <1>5, <1>6 DEF WorkOK, AloneOK, BoundOK, MarkedOK
<1>10. IdsOK
    BY <1>1, <1>3, <1>5, <1>6 DEF IdsOK
<1>11. CountOK
    BY <1>3, <1>4 DEF CountOK
<1> QED
    BY <1>7, <1>8, <1>9, <1>10, <1>11 DEF EstateInv

-----------------------------------------------------------------------------
(* The invariant, and what follows from it. *)

LEMMA HandlerStepInv == ASSUME NEW h \in Handlers PROVE EstateInv /\ HandlerStep(h) => EstateInv'
BY RegisterStep, SeedCheckStep, DropRoutesStep, ReadToScanStep, ReadToProtectStep, ReadToIssueStep, ApplyFixStep,
   SeedWriteStep, ScanFailsStep, WriteScanStep, BindRouteStep, BindFailsStep, MarkProtectedStep, RecordRouteStep,
   RecordCertStep, IssueFailsStep, MarkCertifiedStep, IssueStep, RevokeStep, RenewStep, DeleteRouteRowsStep,
   DeleteTargetStep, Zenon DEF HandlerStep

LEMMA ConnStepInv == ASSUME NEW c \in Conns PROVE EstateInv /\ ConnStep(c) => EstateInv'
BY AcceptStep, HandshakeStep, FailsStep, ServedStep, Zenon DEF ConnStep

LEMMA StutterInv == EstateInv /\ UNCHANGED estateVars => EstateInv'
<1> SUFFICES ASSUME EstateInv, UNCHANGED estateVars PROVE EstateInv'
    OBVIOUS
<1>1. UNCHANGED <<overlaps, targets, routeRows, certs, routes, stats, conns, work, deleted, overlapped, torn, unbound,
                  requests, restarts>>
    BY DEF estateVars, tables, overlay, aux
<1>2. Types' /\ RowsOK' /\ WorkOK'
    BY <1>1 DEF EstateInv, Types, RowsOK, WorkOK, TargetRow
<1>3. AloneOK' /\ BoundOK'
    BY <1>1 DEF EstateInv, AloneOK, BoundOK, Undisturbed, ServedAt, IdOf, Listening
<1>4. MarkedOK'
    BY <1>1 DEF EstateInv, MarkedOK, Undisturbed, ServedAt, Listening, TargetRow, InFlight
<1>5. IdsOK' /\ CountOK'
    BY <1>1 DEF EstateInv, IdsOK, CountOK, Undisturbed, IdOf, Listening
<1> QED
    BY <1>2, <1>3, <1>4, <1>5 DEF EstateInv

LEMMA EstateNextInv == EstateInv /\ [EstateNext]_estateVars => EstateInv'
BY HandlerStepInv, ConnStepInv, RestartStep, StutterInv, Zenon DEF EstateNext

\* Every reachable state of the estate satisfies the inductive invariant.
THEOREM EstateInvariant == EstateSpec => []EstateInv
BY EstateInitInv, EstateNextInv, PTL DEF EstateSpec

\* What the invariant says of a target no handler works on.
LEMMA InvMarkers == EstateInv => MarkerIsServed /\ DeletedIsGone
<1> SUFFICES ASSUME EstateInv PROVE MarkerIsServed /\ DeletedIsGone
    OBVIOUS
<1>1. \A t : Clean(t) => InFlight(t) = {} /\ Undisturbed(t)
    BY DEF Clean, Undisturbed
<1>2. MarkerIsServed
    <2> SUFFICES ASSUME NEW t \in DOMAIN targets, Clean(t), NEW s \in TargetRow(t).services, s.listen # None
                 PROVE  /\ <<t, s.port>> \in DOMAIN routeRows /\ routeRows[<<t, s.port>>].listen = s.listen
                        /\ <<t, s.port>> \in unbound \/ (s.listen \in Listening /\ stats[s.listen].id = <<t, s.port>>)
        BY Zenon DEF MarkerIsServed
    <2> QED
        BY <1>1 DEF EstateInv, MarkedOK, ServedAt
<1>3. DeletedIsGone
    BY <1>1 DEF EstateInv, DeletedIsGone, AloneOK, IdsOK, Undisturbed
<1> QED
    BY <1>2, <1>3

LEMMA InvRows == EstateInv => EstateTypeOK /\ CertIsRecorded /\ StatusIsWorst
<1> SUFFICES ASSUME EstateInv PROVE EstateTypeOK /\ CertIsRecorded /\ StatusIsWorst
    OBVIOUS
<1>1. \A t \in DOMAIN targets : RowOK(TargetRow(t), DOMAIN certs)
    BY DEF EstateInv, RowsOK
<1>2. \A t \in DOMAIN targets : TargetRow(t) \in RowType
    BY DEF EstateInv, Types, TargetRow
<1>3. CertIsRecorded /\ StatusIsWorst
    BY <1>1 DEF CertIsRecorded, StatusIsWorst, RowOK
<1>4. \A t \in DOMAIN targets : TargetRow(t).services \subseteq ServiceType
    BY <1>2 DEF RowType
<1>5. \A t \in DOMAIN targets : \A r, s \in TargetRow(t).services : r.port = s.port /\ r.source = s.source => r = s
    BY <1>1 DEF RowOK
<1>6. /\ DOMAIN targets \subseteq Targets /\ DOMAIN stats \subseteq Addrs
      /\ \A id \in DOMAIN routeRows : routeRows[id] \in [listen : Addrs, mode : RouteModes \cup {"hybrid"}]
      /\ \A id \in DOMAIN routes : routes[id] \in DOMAIN stats
    BY DEF EstateInv, Types
<1>7. EstateTypeOK
    BY <1>4, <1>5, <1>6, Zenon DEF EstateTypeOK, ServiceType
<1> QED
    BY <1>3, <1>7

LEMMA InvCounters == EstateInv => CountersAddUp
<1> SUFFICES ASSUME EstateInv, NEW a \in DOMAIN stats
             PROVE  LET s == stats[a]
                    IN  /\ s.active = Cardinality({c \in Conns : conns[c].at \in {"handshake", "forward"} /\ conns[c].addr = a})
                        /\ s.total = s.active + s.served + s.errors - (IF s.bound THEN 0 ELSE 1)
                        /\ s.rejected <= s.errors /\ s.pqc + s.rejected <= s.total
    BY Zenon DEF CountersAddUp
<1>1. stats[a] \in StatsType
    BY DEF EstateInv, Types
<1>2. Counted(stats[a], Cardinality(Live(conns, a)), Cardinality(Greeting(conns, a)))
    BY DEF EstateInv, CountOK
<1>3. Cardinality(Greeting(conns, a)) \in Nat /\ Cardinality(Live(conns, a)) \in Nat
    BY FewConns, FS_CardinalityType
<1>4. Live(conns, a) = {c \in Conns : conns[c].at \in {"handshake", "forward"} /\ conns[c].addr = a}
    BY DEF Live
<1> QED
    BY <1>1, <1>2, <1>3, <1>4 DEF Counted, StatsType

LEMMA InvSound == EstateInv => EstateIsSound
BY InvMarkers, InvRows, InvCounters, Zenon DEF EstateIsSound

\* For any targets, ports, addresses, handlers (overlapping or not), connections and restarts:
\* a marked service of a target that nothing disturbed is served by the listener of its stored
\* route, a deleted target leaves nothing a restart would bind again, certificates are recorded,
\* the posture is the worst one and the counters of every route add up.
THEOREM EstateIsSoundHolds == EstateSpec => []EstateIsSound
BY EstateInvariant, InvSound, PTL

-----------------------------------------------------------------------------
(* No request that has the target for itself takes a marker away. *)

\* The part of MarkersStay about one target.
StaysMarked(old, new) ==
    \A s \in old.services :
        (s.listen # None /\ \E r \in new.services : r.port = s.port)
        => \A r \in new.services : r.port = s.port => r.listen # None

LEMMA MarkersByTarget ==
    ASSUME \A t \in DOMAIN targets : t \in DOMAIN targets' /\ t \notin overlapped' => StaysMarked(targets[t], targets'[t])
    PROVE  MarkersStay
BY Zenon DEF MarkersStay, StaysMarked, TargetRow

LEMMA SameStaysMarked == ASSUME NEW row, NEW C, RowOK(row, C) PROVE StaysMarked(row, row)
BY DEF RowOK, StaysMarked

LEMMA InvRowOK == ASSUME EstateInv, NEW t \in DOMAIN targets PROVE RowOK(targets[t], DOMAIN certs) /\ targets[t] \in RowType
BY DEF EstateInv, RowsOK, Types, TargetRow

\* The rows a step does not write keep their markers.
LEMMA KeptMarkers ==
    ASSUME EstateInv, NEW u,
           \A t \in DOMAIN targets : t \in DOMAIN targets' /\ t # u => targets'[t] = targets[t],
           u \in DOMAIN targets /\ u \in DOMAIN targets' /\ u \notin overlapped' => StaysMarked(targets[u], targets'[u])
    PROVE  MarkersStay
<1> SUFFICES ASSUME NEW t \in DOMAIN targets, t \in DOMAIN targets', t \notin overlapped'
             PROVE  StaysMarked(targets[t], targets'[t])
    BY MarkersByTarget, Zenon
<1>1. CASE t = u
    BY <1>1, Zenon
<1>2. CASE t # u
    <2>1. targets'[t] = targets[t]
        BY <1>2
    <2> QED
        BY <2>1, InvRowOK, SameStaysMarked
<1> QED
    BY <1>1, <1>2

LEMMA SameMarkers == ASSUME EstateInv, UNCHANGED targets PROVE MarkersStay
<1> SUFFICES ASSUME NEW t \in DOMAIN targets PROVE StaysMarked(targets[t], targets'[t])
    BY MarkersByTarget, Zenon
<1> QED
    BY InvRowOK, SameStaysMarked

\* A handler that has its target for itself writes back the stored row, changed.
LEMMA WrittenMarkers ==
    ASSUME EstateInv, NEW h \in Handlers, work[h].at \in Holding, NEW row,
           targets' = Put(targets, work[h].target, row), UNCHANGED overlapped,
           StaysMarked(work[h].row, row)
    PROVE  MarkersStay
<1> DEFINE u == work[h].target
<1>1. /\ DOMAIN targets' = DOMAIN targets \cup {u} /\ targets'[u] = row
      /\ \A t \in DOMAIN targets : t # u => targets'[t] = targets[t]
    BY DEF Put
<1>2. u \notin overlapped => work[h].row = targets[u]
    BY DEF EstateInv, AloneOK, Holding
<1> HIDE DEF u
<1>3. u \notin overlapped' => StaysMarked(targets[u], targets'[u])
    BY <1>1, <1>2
<1> QED
    BY <1>1, <1>3, KeptMarkers

LEMMA SeedWriteMarkers == ASSUME EstateInv, NEW h \in Handlers, SeedWrite(h) PROVE MarkersStay
<1> DEFINE u == work[h].target
<1>1. PICK row : targets' = Put(targets, u, row)
    BY DEF SeedWrite
<1>2. UNCHANGED overlapped
    BY DEF SeedWrite, Step
<1>3. u \notin overlapped => u \notin DOMAIN targets
    BY DEF EstateInv, AloneOK, SeedWrite, HandlerAt
<1>4. \A t \in DOMAIN targets : t # u => targets'[t] = targets[t]
    BY <1>1 DEF Put
<1> HIDE DEF u
<1> QED
    BY <1>2, <1>3, <1>4, KeptMarkers

LEMMA WriteScanMarkers == ASSUME EstateInv, NEW h \in Handlers, WriteScan(h) PROVE MarkersStay
<1>1. PICK fresh \in Seen(work[h].source) :
         targets' = Put(targets, work[h].target, Scanned(work[h].row, work[h].source, fresh))
    BY DEF WriteScan
<1>2. UNCHANGED overlapped /\ work[h].at \in Holding
    BY DEF WriteScan, Step, HandlerAt, Holding
<1>3. work[h].row \in RowType /\ work[h].source \in {"network", "host"} /\ RowOK(work[h].row, DOMAIN certs)
    BY DEF EstateInv, Types, WorkType, RowsOK
<1> DEFINE row == Scanned(work[h].row, work[h].source, fresh)
<1>4. \A s \in row.services : \A r \in work[h].row.services : s.port = r.port => s.listen = r.listen
    BY <1>3, ScannedRow
<1> HIDE DEF row
<1>5. StaysMarked(work[h].row, row)
    BY <1>4 DEF StaysMarked
<1>6. targets' = Put(targets, work[h].target, row)
    BY <1>1 DEF row
<1> QED
    BY <1>2, <1>5, <1>6, WrittenMarkers

LEMMA MarkedStaysMarked ==
    ASSUME NEW row \in RowType, NEW C, RowOK(row, C), NEW p, NEW l \in Addrs \cup {None}, NEW c \in 0..MaxCerts,
           c = None \/ c \in C
    PROVE  StaysMarked(row, Marked(row, p, l, c))
<1> DEFINE new == Marked(row, p, l, c)
<1>1. Remarked(row, new, p, l)
    BY MarkedRow
<1> HIDE DEF new
<1>2. \A s \in new.services : \A r \in row.services : s.port = r.port /\ r.listen # None => s.listen # None
    BY <1>1 DEF RowOK, Remarked
<1>3. StaysMarked(row, new)
    BY <1>2 DEF StaysMarked
<1> QED
    BY <1>3 DEF new

LEMMA MarkMarkers == ASSUME EstateInv, NEW h \in Handlers, MarkProtected(h) \/ MarkCertified(h) PROVE MarkersStay
<1>1. work[h] \in WorkType /\ RowOK(work[h].row, DOMAIN certs)
    BY DEF EstateInv, Types, RowsOK
<1>2. /\ work[h].row \in RowType /\ work[h].listen \in Addrs \cup {None} /\ work[h].cert \in 0..MaxCerts
      /\ None \in Addrs \cup {None} /\ None \in 0..MaxCerts
    BY <1>1, EstateAssumption DEF WorkType, None
<1>3. UNCHANGED overlapped /\ work[h].at \in Holding
    BY DEF MarkProtected, MarkCertified, Step, HandlerAt, Holding
<1>4. CASE MarkProtected(h)
    <2>1. targets' = Put(targets, work[h].target, Marked(work[h].row, work[h].port, work[h].listen, None))
        BY <1>4 DEF MarkProtected
    <2>2. StaysMarked(work[h].row, Marked(work[h].row, work[h].port, work[h].listen, None))
        BY <1>1, <1>2, MarkedStaysMarked
    <2> QED
        BY <1>3, <2>1, <2>2, WrittenMarkers
<1>5. CASE MarkCertified(h)
    <2>1. targets' = Put(targets, work[h].target, Marked(work[h].row, work[h].port, None, work[h].cert))
        BY <1>5 DEF MarkCertified
    <2>2. work[h].cert \in DOMAIN certs
        BY <1>5 DEF EstateInv, WorkOK, MarkCertified, HandlerAt
    <2>3. StaysMarked(work[h].row, Marked(work[h].row, work[h].port, None, work[h].cert))
        BY <1>1, <1>2, <2>2, MarkedStaysMarked
    <2> QED
        BY <1>3, <2>1, <2>3, WrittenMarkers
<1> QED
    BY <1>4, <1>5

LEMMA RegisterMarkers == ASSUME EstateInv, NEW h \in Handlers, NEW t, Register(h, t) PROVE MarkersStay
<1>1. t \notin DOMAIN targets /\ targets' = Put(targets, t, EmptyRow)
    BY DEF Register, Fresh
<1>2. \A u \in DOMAIN targets : u # t => targets'[u] = targets[u]
    BY <1>1 DEF Put
<1> QED
    BY <1>1, <1>2, KeptMarkers

LEMMA DeleteMarkers == ASSUME EstateInv, NEW h \in Handlers, DeleteTarget(h) PROVE MarkersStay
<1> DEFINE u == work[h].target
<1>1. targets' = Without(targets, {u})
    BY DEF DeleteTarget
<1>2. DOMAIN targets' = DOMAIN targets \ {u} /\ \A t \in DOMAIN targets \ {u} : targets'[t] = targets[t]
    BY <1>1, WithoutFacts
<1> HIDE DEF u
<1> QED
    BY <1>2, KeptMarkers

LEMMA StepMarkers == ASSUME EstateInv, EstateNext PROVE MarkersStay
<1>1. ASSUME NEW h \in Handlers, HandlerStep(h) PROVE MarkersStay
    <2>1. \/ UNCHANGED targets \/ SeedWrite(h) \/ WriteScan(h) \/ MarkProtected(h) \/ MarkCertified(h)
          \/ DeleteTarget(h) \/ \E t \in Targets : Register(h, t)
        BY <1>1 DEF HandlerStep, SeedCheck, DropRoutes, ReadToScan, ReadToProtect, ReadToIssue, ApplyFix, ScanFails,
                    BindRoute, BindFails, RecordRoute, RecordCert, IssueFails, Issue, Revoke, Renew, DeleteRouteRows, tables
    <2> QED
        BY <1>1, <2>1, SameMarkers, SeedWriteMarkers, WriteScanMarkers, MarkMarkers, DeleteMarkers, RegisterMarkers, Zenon
<1>2. ASSUME NEW c \in Conns, ConnStep(c) PROVE UNCHANGED targets
    BY <1>2 DEF ConnStep, Accept, Handshake, Fails, Served, tables
<1>3. Restart => UNCHANGED targets
    BY DEF Restart, tables
<1> QED
    BY <1>1, <1>2, <1>3, SameMarkers, Zenon DEF EstateNext

\* For any constants: while a port stays exposed, no sweep, login, certificate, re-protection or
\* restart that does not overlap another request of the target takes the port's marker away.
THEOREM MarkersStayHolds == EstateSpec => [][MarkersStay]_estateVars
<1>1. EstateInv /\ [EstateNext]_estateVars => [MarkersStay]_estateVars
    BY StepMarkers, Zenon
<1> QED
    BY <1>1, EstateInvariant, PTL DEF EstateSpec
=============================================================================
