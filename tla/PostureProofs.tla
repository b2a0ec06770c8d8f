---------------------------- MODULE PostureProofs ----------------------------
(***************************************************************************)
(* Proofs about Posture for every finite set of tenants, every set of      *)
(* scores, thresholds and bounds, tasks that take turns and tasks that     *)
(* interleave.                                                             *)
(***************************************************************************)
EXTENDS Posture, FiniteSetTheorems, SequenceTheorems, TLAPS

-----------------------------------------------------------------------------
(* The inductive invariant. *)

\* Where a task is in the work that follows a scan, and in that on a ticket.
Scanned == {"cache", "history", "insert", "audit", "drop", "slo", "breach", "governance", "critical"}
OnTicket == {"ticket", "ask", "save", "resolved"}
Places == {"new", "asleep", "next", "tickets", "scan", "report"} \cup Scanned \cup OnTicket
ForTenant == {"scan", "report"} \cup Scanned \cup OnTicket

TaskType ==
    [at : Places, tenant : Tenants \cup {"none"}, score : Nat, assets : Nat, prev : Seq(Scores),
     todo : Seq(Tenants), status : Kinds \cup TicketStatuses]

SloRow == [score : Nat, failing : BOOLEAN, scan : Nat]
Notices == [fired : [Kinds -> Nat], newest : Kinds \cup {"none"}]

TasksTyped ==
    /\ task \in [Tasks -> TaskType]
    /\ \A k \in Tasks : task[k].at \in ForTenant => task[k].tenant \in Tenants
    /\ \A k \in Tasks : task[k].at \in Scanned => task[k].score \in Scores /\ task[k].assets \in AssetCounts
    /\ \A k \in Tasks : task[k].at \in {"ask", "save"} => task[k].status \in TicketStatuses

Types ==
    /\ PostureTypeOK
    /\ turns \in BOOLEAN /\ airGapped \in BOOLEAN
    /\ cache \in [tenant : Tenants \cup {"none"}, score : Nat]
    /\ slo \in [Tenants -> Seq(SloRow)]
    /\ notices \in [Tenants -> Notices]
    /\ resolutions \in [Tenants -> Nat]
    /\ TasksTyped

Rests(k) == task[k].at \in {"asleep", "new"}

\* Taking turns, one task is at work at most.
OneAwake == turns => \A k, m \in Tasks : Rests(k) \/ Rests(m) \/ k = m

\* The tasks that have yet to alert a breach of t.
Breaching(t) == {k \in Tasks : In(k, "breach") /\ task[k].tenant = t}
FailingOf(q) == {n \in DOMAIN q : q[n].failing}
Failing(t) == FailingOf(slo[t])

BreachInv == \A t \in Tenants : Cardinality(Failing(t)) = Fired(t, "slo_breach") + Cardinality(Breaching(t))

\* A task at a ticket has seen it at the integration, where tickets stay.
RealInv ==
    /\ TicketIsReal
    /\ \A k \in Tasks : task[k].at \in {"ticket", "ask", "save"} => remote[task[k].tenant] # "none"

\* Taking turns, what a task knows of the stored ticket is so, and the alert of
\* a resolution is the one thing that may be due.
Resolving(t) == \E k \in Tasks : In(k, "resolved") /\ task[k].tenant = t

TurnTicket(k) ==
    /\ In(k, "ticket") => ticket[task[k].tenant] = "none"
    /\ In(k, "ask") => ticket[task[k].tenant] = task[k].status /\ Unsettled(task[k].tenant)
    /\ In(k, "save") => ticket[task[k].tenant] # task[k].status
    /\ In(k, "save") /\ k # "webhook" => Unsettled(task[k].tenant)

ResolveInv ==
    turns =>
        /\ \A k \in Tasks : TurnTicket(k)
        /\ \A t \in Tenants :
              Fired(t, "remediation_resolved") + (IF Resolving(t) THEN 1 ELSE 0) = resolutions[t]

\* Taking turns: the last score is the one the task read, until it stores its
\* own; then the audit event and the alert of a drop are due, each if there is one.
LastOf(t) == IF history[t] = << >> THEN << >> ELSE <<history[t][Len(history[t])].score>>
DropsOf(h) == {n \in 2..Len(h) : h[n - 1].score >= h[n].score + Drop}
Tells(c, h, C) == Len(c) = Cardinality(C) /\ \A n \in C : c[PlaceIn(C, n)] = <<h[n - 1].score, h[n].score>>
AuditDue(t) == \E k \in Tasks : In(k, "audit") /\ task[k].tenant = t /\ IsChange(task[k].prev, task[k].score)
DropDue(t) == \E k \in Tasks :
                 task[k].at \in {"audit", "drop"} /\ task[k].tenant = t /\ IsDrop(task[k].prev, task[k].score)
Drops(t) == DropsOf(history[t])
Steps(t) == Changes(history[t])
Audited(t, C) == Tells(changed[t], history[t], C)

TurnScan(k) ==
    LET t == task[k].tenant  h == history[t]
    IN  /\ task[k].at \in {"cache", "history", "insert"} => task[k].prev = LastOf(t)
        /\ In(k, "insert") => ~Skipped(t, task[k].score, task[k].assets)
        /\ In(k, "audit") /\ IsChange(task[k].prev, task[k].score) =>
              Len(h) >= 2 /\ h[Len(h)].score = task[k].score /\ h[Len(h) - 1].score = task[k].prev[1]
        /\ task[k].at \in {"history", "insert", "audit", "drop", "slo"} => cache.score = task[k].score

TurnTenant(t) ==
    /\ Audited(t, IF AuditDue(t) THEN Steps(t) \ {Len(history[t])} ELSE Steps(t))
    /\ Fired(t, "posture_drop") + (IF DropDue(t) THEN 1 ELSE 0) = Cardinality(Drops(t))

StoryInv ==
    turns =>
        /\ \A k \in Tasks : TurnScan(k)
        /\ \A t \in Tenants : TurnTenant(t)
        /\ HistoryHasNoRepeats /\ SloJudgesOwnScan

PostureInv ==
    Types /\ OneAwake /\ BreachInv /\ RealInv /\ ResolveInv /\ StoryInv /\ AlertsStayInside

-----------------------------------------------------------------------------
(* Records, sequences and counts. *)

\* all_tenants lists tenants.
LEMMA AllTenants == SetToSeq(Tenants) \in Seq(Tenants)
<1> DEFINE N == Cardinality(Tenants)
           f == SetToSeq(Tenants)
<1>1. N \in Nat /\ ExistsBijection(1..N, Tenants)
    BY PostureAssumption, FS_CardinalityType
<1>2. \E g \in [1..N -> Tenants] : IsInjective(g)
    BY <1>1 DEF ExistsBijection, Bijection, Injection, IsInjective
<1>3. f \in [1..N -> Tenants]
    BY <1>2 DEF SetToSeq
<1> QED
    BY <1>1, <1>3

\* A task that sleeps, and one that wakes with what it is to do.
LEMMA AsleepType == Asleep \in TaskType /\ Asleep.at = "asleep"
<1>1. << >> \in Seq(Scores) /\ << >> \in Seq(Tenants) /\ 0 \in Nat /\ "none" \in TicketStatuses /\ "asleep" \in Places
    BY DEF TicketStatuses, Places
<1> QED
    BY <1>1 DEF Asleep, TaskType

LEMMA AsleepTodo ==
    ASSUME NEW p \in Places, NEW td \in Seq(Tenants)
    PROVE  [Asleep EXCEPT !.at = p, !.todo = td] \in TaskType /\ [Asleep EXCEPT !.at = p, !.todo = td].at = p
BY AsleepType DEF TaskType

LEMMA AsleepFor ==
    ASSUME NEW p \in Places, NEW t \in Tenants
    PROVE  /\ [Asleep EXCEPT !.at = p, !.tenant = t] \in TaskType
           /\ [Asleep EXCEPT !.at = p, !.tenant = t].at = p
           /\ [Asleep EXCEPT !.at = p, !.tenant = t].tenant = t
BY AsleepType DEF TaskType

LEMMA AsleepStatus ==
    ASSUME NEW s \in Kinds \cup TicketStatuses
    PROVE  [Asleep EXCEPT !.status = s] \in TaskType /\ [Asleep EXCEPT !.status = s].at = "asleep"
BY AsleepType DEF TaskType

Saving(t, s) == [Asleep EXCEPT !.at = "save", !.tenant = t, !.status = s]

LEMMA AsleepSave ==
    ASSUME NEW t \in Tenants, NEW s \in TicketStatuses
    PROVE  /\ Saving(t, s) \in TaskType /\ Saving(t, s).at = "save"
           /\ Saving(t, s).tenant = t /\ Saving(t, s).status = s
<1>1. "save" \in Places
    BY DEF Places, OnTicket
<1> QED
    BY <1>1, AsleepType DEF TaskType, Saving

\* Task k goes from place to place, the others stay.
Moves(k, from, to, t) ==
    /\ task[k].at = from
    /\ task' \in [Tasks -> TaskType]
    /\ task'[k].at = to /\ task'[k].tenant = t
    /\ \A m \in Tasks \ {k} : task'[m] = task[m]

\* Its locals stay too.
Keeps(k) ==
    /\ task'[k].tenant = task[k].tenant /\ task'[k].score = task[k].score /\ task'[k].assets = task[k].assets
    /\ task'[k].prev = task[k].prev /\ task'[k].status = task[k].status

LEMMA MoveFacts ==
    ASSUME Types, NEW k \in Tasks, NEW from, In(k, from), NEW p \in Places, Move(k, p)
    PROVE  Moves(k, from, p, task[k].tenant) /\ Keeps(k)
BY DEF Types, TasksTyped, TaskType, In, Move, Moves, Keeps

LEMMA BecomesFacts ==
    ASSUME Types, NEW k \in Tasks, NEW from, In(k, from), NEW s \in TaskType, task' = [task EXCEPT ![k] = s]
    PROVE  Moves(k, from, s.at, s.tenant) /\ task'[k] = s
BY DEF Types, TasksTyped, In, Moves

\* Where a task sleeps.
Home(k) == IF k = "startup" THEN "new" ELSE "asleep"

LEMMA WakesFacts ==
    ASSUME Types, NEW k \in Tasks, NEW s \in TaskType, Wakes(k, s)
    PROVE  Moves(k, Home(k), s.at, s.tenant) /\ task'[k] = s /\ Turn(k)
<1>1. In(k, Home(k)) /\ task' = [task EXCEPT ![k] = s] /\ Turn(k)
    BY DEF Wakes, Home
<1> QED
    BY <1>1, BecomesFacts

LEMMA TasksAfter ==
    ASSUME Types, NEW k \in Tasks, NEW from, NEW p, NEW t, Moves(k, from, p, t),
           p \in ForTenant => t \in Tenants,
           p \in Scanned => task'[k].score \in Scores /\ task'[k].assets \in AssetCounts,
           p \in {"ask", "save"} => task'[k].status \in TicketStatuses
    PROVE  TasksTyped'
BY DEF Types, TasksTyped, Moves

\* fire counts the alert, and delivers it only where it may.
LEMMA FireFacts ==
    ASSUME Types, NEW t \in Tenants, NEW kind \in Kinds, Fire(t, kind), UNCHANGED airGapped
    PROVE  /\ notices' \in [Tenants -> Notices]
           /\ \A u \in Tenants, q \in Kinds :
                 notices'[u].fired[q] = notices[u].fired[q] + (IF u = t /\ q = kind /\ q \in Counted THEN 1 ELSE 0)
           /\ AlertsStayInside => AlertsStayInside'
<1>1. PICK d \in Delivered :
        /\ notices' = [notices EXCEPT ![t].fired[kind] = IF kind \in Counted THEN @ + 1 ELSE @, ![t].newest = kind]
        /\ Leaves(IF d > 0 THEN {"alert"} ELSE {})
    BY DEF Fire
<1>2. notices' \in [Tenants -> Notices]
    <2> DEFINE n == notices[t]
               f == [n.fired EXCEPT ![kind] = IF kind \in Counted THEN @ + 1 ELSE @]
    <2>1. n \in Notices /\ n.fired \in [Kinds -> Nat]
        BY DEF Types, Notices
    <2>2. f \in [Kinds -> Nat]
        BY <2>1
    <2>3. notices' = [notices EXCEPT ![t] = [n EXCEPT !.fired = f, !.newest = kind]]
        BY <1>1 DEF Types
    <2> HIDE DEF f, n
    <2>4. [n EXCEPT !.fired = f, !.newest = kind] \in Notices
        BY <2>1, <2>2 DEF Notices
    <2> QED
        BY <2>3, <2>4 DEF Types
<1>3. \A u \in Tenants, q \in Kinds :
          notices'[u].fired[q] = notices[u].fired[q] + (IF u = t /\ q = kind /\ q \in Counted THEN 1 ELSE 0)
    BY <1>1 DEF Types, Notices
<1>4. airGapped => d = 0
    BY DEF Delivered
<1>5. AlertsStayInside => AlertsStayInside'
    BY <1>1, <1>4 DEF AlertsStayInside, Leaves
<1> QED
    BY <1>2, <1>3, <1>5

LEMMA FiredNat == ASSUME Types, NEW t \in Tenants PROVE \A q \in Counted : Fired(t, q) \in Nat
BY DEF Types, Notices, Fired, Kinds, Counted

\* A row appended to a sequence.
LEMMA AppendFacts ==
    ASSUME NEW S, NEW s \in Seq(S), NEW e \in S
    PROVE  /\ Append(s, e) \in Seq(S) /\ Len(Append(s, e)) = Len(s) + 1 /\ Len(s) \in Nat
           /\ DOMAIN Append(s, e) = 1..(Len(s) + 1) /\ DOMAIN s = 1..Len(s)
           /\ \A i \in 1..Len(s) : Append(s, e)[i] = s[i]
           /\ Append(s, e)[Len(s) + 1] = e
OBVIOUS

\* A snapshot appended to a history: what it adds to the changes, the drops and
\* the repeats.
LEMMA ChangesAfter ==
    ASSUME NEW h \in Seq(Snapshot), NEW r \in Snapshot
    PROVE  /\ IsFiniteSet(Changes(h)) /\ Changes(h) \subseteq 2..Len(h) /\ Len(h) + 1 \notin Changes(h)
           /\ Changes(Append(h, r)) =
                 IF h # << >> /\ h[Len(h)].score # r.score THEN Changes(h) \cup {Len(h) + 1} ELSE Changes(h)
<1> DEFINE g == Append(h, r)
           n == Len(h)
           D == Changes(h)
           E == Changes(g)
<1>1. n \in Nat /\ Len(g) = n + 1 /\ g[n + 1] = r /\ (\A i \in 1..n : g[i] = h[i]) /\ (h # << >> <=> n > 0)
    BY AppendFacts
<1>2. D = {i \in 2..n : h[i].score # h[i - 1].score} /\ E = {i \in 2..(n + 1) : g[i].score # g[i - 1].score}
    BY <1>1 DEF Changes
<1> HIDE DEF g, n, D, E
<1>3. D \subseteq 2..n /\ D \subseteq 1..n /\ n + 1 \notin D
    BY <1>1, <1>2
<1>4. IsFiniteSet(D)
    <2>1. IsFiniteSet(1..n)
        BY <1>1, FS_Interval
    <2> QED
        BY <1>3, <2>1, FS_Subset
<1>5. ASSUME NEW i \in 2..n PROVE i \in E <=> i \in D
    <2>1. i \in 1..n /\ i - 1 \in 1..n /\ i \in 2..(n + 1)
        BY <1>1
    <2> QED
        BY <1>1, <1>2, <2>1
<1>6. n + 1 \in E <=> n > 0 /\ h[n].score # r.score
    <2>1. CASE n > 0
        <3>1. n \in 1..n /\ n + 1 \in 2..(n + 1) /\ (n + 1) - 1 = n
            BY <1>1, <2>1
        <3>2. g[(n + 1) - 1] = h[n]
            BY <1>1, <3>1
        <3> QED
            BY <1>1, <1>2, <2>1, <3>1, <3>2
    <2>2. CASE ~(n > 0)
        BY <1>1, <1>2, <2>2
    <2> QED
        BY <2>1, <2>2
<1>7. E \subseteq (2..n) \cup {n + 1}
    BY <1>1, <1>2
<1>8. E = IF n > 0 /\ h[n].score # r.score THEN D \cup {n + 1} ELSE D
    <2>1. ASSUME NEW i PROVE i \in E <=> i \in D \/ (i = n + 1 /\ n > 0 /\ h[n].score # r.score)
        BY <1>3, <1>5, <1>6, <1>7
    <2> QED
        BY <2>1
<1> QED
    BY <1>1, <1>3, <1>4, <1>8 DEF g, n, D, E

LEMMA TellsAfter ==
    ASSUME NEW h \in Seq(Snapshot), NEW r \in Snapshot, NEW c, NEW C, C \subseteq 2..Len(h), Tells(c, h, C)
    PROVE  Tells(c, Append(h, r), C)
<1> DEFINE g == Append(h, r)
<1>1. Len(h) \in Nat /\ \A i \in 1..Len(h) : g[i] = h[i]
    BY AppendFacts
<1> HIDE DEF g
<1>2. ASSUME NEW i \in C PROVE g[i] = h[i] /\ g[i - 1] = h[i - 1]
    <2>1. i \in 1..Len(h) /\ i - 1 \in 1..Len(h)
        BY <1>1
    <2> QED
        BY <1>1, <2>1
<1> QED
    BY <1>2 DEF Tells, g

LEMMA DropsAfter ==
    ASSUME NEW h \in Seq(Snapshot), NEW r \in Snapshot
    PROVE  /\ IsFiniteSet(DropsOf(h)) /\ Len(h) + 1 \notin DropsOf(h)
           /\ DropsOf(Append(h, r)) =
                 IF h # << >> /\ h[Len(h)].score >= r.score + Drop THEN DropsOf(h) \cup {Len(h) + 1} ELSE DropsOf(h)
<1> DEFINE g == Append(h, r)
           n == Len(h)
           D == DropsOf(h)
           E == DropsOf(g)
<1>1. n \in Nat /\ Len(g) = n + 1 /\ g[n + 1] = r /\ (\A i \in 1..n : g[i] = h[i]) /\ (h # << >> <=> n > 0)
    BY AppendFacts
<1>2. D = {i \in 2..n : h[i - 1].score >= h[i].score + Drop} /\ E = {i \in 2..(n + 1) : g[i - 1].score >= g[i].score + Drop}
    BY <1>1 DEF DropsOf
<1> HIDE DEF g, n, D, E
<1>3. D \subseteq 1..n /\ n + 1 \notin D
    BY <1>1, <1>2
<1>4. IsFiniteSet(D)
    <2>1. IsFiniteSet(1..n)
        BY <1>1, FS_Interval
    <2> QED
        BY <1>3, <2>1, FS_Subset
<1>5. ASSUME NEW i \in 2..n PROVE i \in E <=> i \in D
    <2>1. i \in 1..n /\ i - 1 \in 1..n /\ i \in 2..(n + 1)
        BY <1>1
    <2> QED
        BY <1>1, <1>2, <2>1
<1>6. n + 1 \in E <=> n > 0 /\ h[n].score >= r.score + Drop
    <2>1. CASE n > 0
        <3>1. n \in 1..n /\ n + 1 \in 2..(n + 1) /\ (n + 1) - 1 = n
            BY <1>1, <2>1
        <3>2. g[(n + 1) - 1] = h[n]
            BY <1>1, <3>1
        <3> QED
            BY <1>1, <1>2, <2>1, <3>1, <3>2
    <2>2. CASE ~(n > 0)
        BY <1>1, <1>2, <2>2
    <2> QED
        BY <2>1, <2>2
<1>7. E \subseteq (2..n) \cup {n + 1} /\ D \subseteq 2..n
    BY <1>1, <1>2
<1>8. E = IF n > 0 /\ h[n].score >= r.score + Drop THEN D \cup {n + 1} ELSE D
    <2>1. ASSUME NEW i PROVE i \in E <=> i \in D \/ (i = n + 1 /\ n > 0 /\ h[n].score >= r.score + Drop)
        BY <1>3, <1>5, <1>6, <1>7
    <2> QED
        BY <2>1
<1> QED
    BY <1>1, <1>3, <1>4, <1>8 DEF g, n, D, E

LEMMA RepeatsAfter ==
    ASSUME NEW h \in Seq(Snapshot), NEW s \in Snapshot, h # << >> => h[Len(h)] # s,
           \A i \in 2..Len(h) : h[i] # h[i - 1]
    PROVE  \A i \in 2..Len(Append(h, s)) : Append(h, s)[i] # Append(h, s)[i - 1]
<1> DEFINE g == Append(h, s)
           n == Len(h)
<1>1. n \in Nat /\ Len(g) = n + 1 /\ g[n + 1] = s /\ (\A i \in 1..n : g[i] = h[i]) /\ (h # << >> <=> n > 0)
    BY AppendFacts
<1>2. (n > 0 => h[n] # s) /\ \A i \in 2..n : h[i] # h[i - 1]
    BY <1>1
<1> HIDE DEF g, n
<1>3. ASSUME NEW i \in 2..(n + 1) PROVE g[i] # g[i - 1]
    <2>1. CASE i \in 2..n
        <3>1. i \in 1..n /\ i - 1 \in 1..n
            BY <1>1, <2>1
        <3> QED
            BY <1>1, <1>2, <2>1, <3>1
    <2>2. CASE i = n + 1
        <3>1. n > 0 /\ n \in 1..n /\ i - 1 = n
            BY <1>1, <2>2
        <3> QED
            BY <1>1, <1>2, <2>2, <3>1
    <2> QED
        BY <1>1, <2>1, <2>2
<1> QED
    BY <1>1, <1>3 DEF g, n

-----------------------------------------------------------------------------
(* What a step leaves alone. *)

\* No alert of one of the kinds K is recorded.
Silent(K) == \A u \in Tenants, q \in K : notices'[u].fired[q] = notices[u].fired[q]

\* What the tables of the scans and of the tickets hold.
ScanTables == <<history, changed, slo, cache>>
TicketTables == <<ticket, remote, resolutions>>

LEMMA AwakeAfter ==
    ASSUME Types, OneAwake, NEW k \in Tasks, NEW from, NEW p, NEW t, Moves(k, from, p, t), UNCHANGED turns,
           Rests(k) => Turn(k)
    PROVE  OneAwake'
BY DEF OneAwake, Moves, Turn, Rests, Types

LEMMA BreachAfter ==
    ASSUME Types, BreachInv, NEW k \in Tasks, NEW from, NEW p, NEW t, Moves(k, from, p, t), UNCHANGED slo,
           Silent({"slo_breach"}), from # "breach", p # "breach"
    PROVE  BreachInv'
<1> SUFFICES ASSUME NEW u \in Tenants
             PROVE  Cardinality(Failing(u)') = Fired(u, "slo_breach")' + Cardinality(Breaching(u)')
    BY DEF BreachInv
<1>1. Failing(u)' = Failing(u)
    BY DEF Failing
<1>2. Breaching(u)' = Breaching(u)
    BY DEF Breaching, In, Moves
<1>3. Fired(u, "slo_breach")' = Fired(u, "slo_breach")
    BY DEF Silent, Fired
<1> QED
    BY <1>1, <1>2, <1>3 DEF BreachInv

LEMMA RealAfter ==
    ASSUME Types, RealInv, NEW k \in Tasks, NEW from, NEW p, NEW t, Moves(k, from, p, t), UNCHANGED ticket,
           \A u \in Tenants : remote[u] # "none" => remote'[u] # "none",
           p \in {"ticket", "ask", "save"} => remote'[t] # "none"
    PROVE  RealInv'
<1>1. TicketIsReal'
    BY DEF RealInv, TicketIsReal
<1>2. ASSUME NEW m \in Tasks, task'[m].at \in {"ticket", "ask", "save"}
      PROVE  remote'[task'[m].tenant] # "none"
    <2>1. CASE m = k
        BY <1>2, <2>1 DEF Moves
    <2>2. CASE m # k
        <3>1. task'[m] = task[m]
            BY <2>2 DEF Moves
        <3>2. task[m].at \in ForTenant
            BY <1>2, <3>1 DEF ForTenant, OnTicket
        <3> QED
            BY <1>2, <3>1, <3>2 DEF RealInv, Types, TasksTyped
    <2> QED
        BY <2>1, <2>2
<1> QED
    BY <1>1, <1>2 DEF RealInv

LEMMA ResolveAfter ==
    ASSUME Types, ResolveInv, NEW k \in Tasks, NEW from, NEW p, NEW t, Moves(k, from, p, t),
           UNCHANGED <<turns, ticket, resolutions>>, Silent({"remediation_resolved"}),
           from # "resolved", p # "resolved", turns => TurnTicket(k)'
    PROVE  ResolveInv'
<1> SUFFICES ASSUME turns PROVE /\ \A m \in Tasks : TurnTicket(m)'
                                /\ \A u \in Tenants :
                                      Fired(u, "remediation_resolved")' + (IF Resolving(u)' THEN 1 ELSE 0)
                                        = resolutions'[u]
    BY DEF ResolveInv
<1>1. ASSUME NEW m \in Tasks PROVE TurnTicket(m)'
    <2>1. CASE m # k
        <3>1. task'[m] = task[m] /\ TurnTicket(m)
            BY <2>1 DEF Moves, ResolveInv
        <3> QED
            BY <3>1 DEF TurnTicket, In, Unsettled
    <2> QED
        BY <2>1
<1>2. ASSUME NEW u \in Tenants
      PROVE  Fired(u, "remediation_resolved")' + (IF Resolving(u)' THEN 1 ELSE 0) = resolutions'[u]
    <2>1. Resolving(u)' <=> Resolving(u)
        BY DEF Resolving, In, Moves
    <2>2. Fired(u, "remediation_resolved")' = Fired(u, "remediation_resolved")
        BY DEF Silent, Fired
    <2> QED
        BY <2>1, <2>2 DEF ResolveInv
<1> QED
    BY <1>1, <1>2

\* A tenant's tables stay as they are, and so does what is due.
LEMMA TenantAfter ==
    ASSUME NEW u \in Tenants, TurnTenant(u), history'[u] = history[u], changed'[u] = changed[u],
           AuditDue(u)' <=> AuditDue(u), DropDue(u)' <=> DropDue(u), Silent({"posture_drop"})
    PROVE  TurnTenant(u)'
<1>1. Fired(u, "posture_drop")' = Fired(u, "posture_drop")
    BY DEF Silent, Fired
<1>2. Drops(u)' = Drops(u) /\ Steps(u)' = Steps(u)
    BY DEF Drops, Steps
<1> QED
    BY <1>1, <1>2 DEF TurnTenant, Audited

LEMMA StoryAfter ==
    ASSUME Types, StoryInv, NEW k \in Tasks, NEW from, NEW p, NEW t, Moves(k, from, p, t),
           UNCHANGED <<turns, ScanTables>>, Silent({"posture_drop"}),
           from \notin {"audit", "drop"}, p \notin {"audit", "drop"}, turns => TurnScan(k)'
    PROVE  StoryInv'
<1> SUFFICES ASSUME turns
             PROVE  /\ \A m \in Tasks : TurnScan(m)'
                    /\ \A u \in Tenants : TurnTenant(u)'
                    /\ HistoryHasNoRepeats' /\ SloJudgesOwnScan'
    BY DEF StoryInv
<1>1. ASSUME NEW m \in Tasks PROVE TurnScan(m)'
    <2>1. CASE m # k
        <3>1. task'[m] = task[m] /\ TurnScan(m)
            BY <2>1 DEF Moves, StoryInv
        <3> QED
            BY <3>1 DEF TurnScan, In, LastOf, Skipped, ScanTables, IsChange
    <2> QED
        BY <2>1
<1>2. ASSUME NEW u \in Tenants PROVE TurnTenant(u)'
    <2>1. AuditDue(u)' <=> AuditDue(u)
        BY DEF AuditDue, In, Moves, IsChange
    <2>2. DropDue(u)' <=> DropDue(u)
        BY DEF DropDue, Moves, IsDrop
    <2> QED
        BY <2>1, <2>2, TenantAfter DEF StoryInv, ScanTables
<1>3. HistoryHasNoRepeats' /\ SloJudgesOwnScan'
    BY DEF StoryInv, HistoryHasNoRepeats, SloJudgesOwnScan, ScanTables
<1> QED
    BY <1>1, <1>2, <1>3

\* The step of a task outside the work on a scan or on a ticket.
LEMMA Elsewhere ==
    ASSUME PostureInv, NEW k \in Tasks, NEW from, NEW p, NEW t, Moves(k, from, p, t),
           UNCHANGED <<turns, ScanTables, TicketTables>>, Silent(Counted),
           from \notin {"audit", "drop", "breach", "resolved"}, p \notin Scanned \cup OnTicket,
           Rests(k) => Turn(k)
    PROVE  OneAwake' /\ BreachInv' /\ RealInv' /\ ResolveInv' /\ StoryInv'
<1>1. /\ Silent({"slo_breach"}) /\ Silent({"posture_drop"}) /\ Silent({"remediation_resolved"})
      /\ task'[k].at = p
    BY DEF Silent, Counted, Moves
<1>2. TurnScan(k)'
    BY <1>1 DEF TurnScan, In, Scanned
<1>3. TurnTicket(k)'
    BY <1>1 DEF TurnTicket, In, OnTicket
<1>4. OneAwake'
    BY AwakeAfter DEF PostureInv
<1>5. BreachInv'
    <2>1. p # "breach" /\ UNCHANGED slo
        BY DEF Scanned, ScanTables
    <2> QED
        BY <1>1, <2>1, BreachAfter DEF PostureInv
<1>6. RealInv'
    <2>1. p \notin {"ticket", "ask", "save"} /\ UNCHANGED <<ticket, remote>>
        BY DEF OnTicket, TicketTables
    <2> QED
        BY <2>1, RealAfter DEF PostureInv
<1>7. ResolveInv'
    <2>1. p # "resolved" /\ UNCHANGED <<turns, ticket, resolutions>>
        BY DEF OnTicket, TicketTables
    <2> QED
        BY <1>1, <1>3, <2>1, ResolveAfter DEF PostureInv
<1>8. StoryInv'
    <2>1. p \notin {"audit", "drop"}
        BY DEF Scanned
    <2> QED
        BY <1>1, <1>2, <2>1, StoryAfter DEF PostureInv
<1> QED
    BY <1>4, <1>5, <1>6, <1>7, <1>8

-----------------------------------------------------------------------------
(* The tasks outside the work on a scan or on a ticket. *)

Tables == <<ScanTables, TicketTables, governance, notices, outside>>

\* The tables are left alone: what remains is where the task goes.
LEMMA QuietStep ==
    ASSUME PostureInv, NEW k \in Tasks, NEW from, NEW p, NEW t, Moves(k, from, p, t),
           UNCHANGED <<turns, airGapped, Tables>>, paused' \subseteq Tenants,
           from \notin {"audit", "drop", "breach", "resolved"}, p \notin Scanned \cup OnTicket,
           p \in ForTenant => t \in Tenants, Rests(k) => Turn(k)
    PROVE  PostureInv'
<1>1. UNCHANGED <<turns, ScanTables, TicketTables>> /\ Silent(Counted)
    BY DEF Tables, Silent
<1>2. OneAwake' /\ BreachInv' /\ RealInv' /\ ResolveInv' /\ StoryInv'
    BY <1>1, Elsewhere
<1>3. TasksTyped'
    <2>1. p \notin Scanned /\ p \notin {"ask", "save"}
        BY DEF OnTicket
    <2> QED
        BY <2>1, TasksAfter DEF PostureInv
<1>4. Types'
    BY <1>3 DEF PostureInv, Types, PostureTypeOK, Tables, ScanTables, TicketTables
<1>5. AlertsStayInside'
    BY DEF PostureInv, AlertsStayInside, Tables
<1> QED
    BY <1>2, <1>4, <1>5 DEF PostureInv

\* The places a task wakes at.
LEMMA HomeFacts ==
    ASSUME Types, NEW k \in Tasks
    PROVE  /\ Home(k) \notin {"audit", "drop", "breach", "resolved"}
           /\ Home(k) \in {"new", "asleep"}
BY DEF Home

LEMMA SchedulerTicksStep == PostureInv /\ SchedulerTicks => PostureInv'
<1> SUFFICES ASSUME PostureInv, SchedulerTicks PROVE PostureInv'
    OBVIOUS
<1> DEFINE s == [Asleep EXCEPT !.at = "next", !.todo = SetToSeq(Tenants)]
<1>1. s \in TaskType /\ s.at = "next"
    <2>1. "next" \in Places
        BY DEF Places
    <2> QED
        BY <2>1, AllTenants, AsleepTodo
<1>2. Wakes("scheduler", s) /\ UNCHANGED <<turns, airGapped, Tables, paused>>
    BY DEF SchedulerTicks, Tables, ScanTables, TicketTables, fixed, postureTables
<1> HIDE DEF s
<1>3. Moves("scheduler", Home("scheduler"), "next", s.tenant) /\ Turn("scheduler")
    BY <1>1, <1>2, WakesFacts DEF PostureInv, Tasks
<1>4. "next" \notin Scanned \cup OnTicket /\ "next" \notin ForTenant /\ "scheduler" \in Tasks
    BY DEF Scanned, OnTicket, ForTenant, Tasks
<1>5. paused' \subseteq Tenants
    BY <1>2 DEF PostureInv, Types, PostureTypeOK
<1> QED
    BY <1>2, <1>3, <1>4, <1>5, HomeFacts, QuietStep DEF PostureInv

\* A task starts to scan a tenant.
LEMMA StartsScan ==
    ASSUME PostureInv, NEW k \in Tasks, NEW t \in Tenants,
           Wakes(k, [Asleep EXCEPT !.at = "scan", !.tenant = t]),
           UNCHANGED <<fixed, paused, cache, postureTables, changed, resolutions, remote>>
    PROVE  PostureInv'
<1> DEFINE s == [Asleep EXCEPT !.at = "scan", !.tenant = t]
<1>1. s \in TaskType /\ s.at = "scan" /\ s.tenant = t
    <2>1. "scan" \in Places
        BY DEF Places
    <2> QED
        BY <2>1, AsleepFor
<1>2. Wakes(k, s) /\ UNCHANGED <<turns, airGapped, Tables, paused>>
    BY DEF Tables, ScanTables, TicketTables, fixed, postureTables
<1> HIDE DEF s
<1>3. Moves(k, Home(k), "scan", t) /\ Turn(k)
    BY <1>1, <1>2, WakesFacts DEF PostureInv
<1>4. "scan" \notin Scanned \cup OnTicket
    BY DEF Scanned, OnTicket
<1>5. paused' \subseteq Tenants
    BY <1>2 DEF PostureInv, Types, PostureTypeOK
<1> QED
    BY <1>2, <1>3, <1>4, <1>5, HomeFacts, QuietStep DEF PostureInv

LEMMA StartupScanStep == PostureInv /\ StartupScan(Default) => PostureInv'
<1>1. Default \in Tenants /\ "startup" \in Tasks
    BY PostureAssumption DEF Tasks
<1> QED
    BY <1>1, StartsScan DEF StartupScan

LEMMA ScheduleTicksStep == ASSUME NEW t \in Own PROVE PostureInv /\ ScheduleTicks(t) => PostureInv'
<1>1. t \in Tenants /\ "schedule" \in Tasks
    BY PostureAssumption DEF Tasks
<1> QED
    BY <1>1, StartsScan DEF ScheduleTicks

LEMMA TriggerScanStep == ASSUME NEW t \in Tenants PROVE PostureInv /\ TriggerScan(t) => PostureInv'
<1>1. "request" \in Tasks
    BY DEF Tasks
<1> QED
    BY <1>1, StartsScan DEF TriggerScan

LEMMA PutSettingsStep == ASSUME NEW t \in Tenants PROVE PostureInv /\ PutSettings(t) => PostureInv'
<1> SUFFICES ASSUME PostureInv, PutSettings(t) PROVE PostureInv'
    OBVIOUS
<1>1. Asleep \in TaskType /\ Asleep.at = "asleep"
    BY AsleepType
<1>2. Wakes("request", Asleep) /\ UNCHANGED <<turns, airGapped, Tables>>
    BY DEF PutSettings, Tables, ScanTables, TicketTables, fixed, postureTables
<1>3. Moves("request", Home("request"), "asleep", Asleep.tenant) /\ Turn("request")
    BY <1>1, <1>2, WakesFacts DEF PostureInv, Tasks
<1>4. "asleep" \notin Scanned \cup OnTicket /\ "asleep" \notin ForTenant /\ "request" \in Tasks
    BY DEF Scanned, OnTicket, ForTenant, Tasks
<1>5. paused' \subseteq Tenants
    BY DEF PutSettings, PostureInv, Types, PostureTypeOK
<1> QED
    BY <1>2, <1>3, <1>4, <1>5, HomeFacts, QuietStep DEF PostureInv

LEMMA SyncRemediationsStep == ASSUME NEW t \in Tenants PROVE PostureInv /\ SyncRemediations(t) => PostureInv'
<1> SUFFICES ASSUME PostureInv, SyncRemediations(t) PROVE PostureInv'
    OBVIOUS
<1> DEFINE s == [Asleep EXCEPT !.at = "tickets", !.todo = <<t>>]
<1>1. s \in TaskType /\ s.at = "tickets"
    <2>1. "tickets" \in Places /\ <<t>> \in Seq(Tenants)
        BY DEF Places
    <2> QED
        BY <2>1, AsleepTodo
<1>2. Wakes("request", s) /\ UNCHANGED <<turns, airGapped, Tables, paused>>
    BY DEF SyncRemediations, Tables, ScanTables, TicketTables, fixed, postureTables
<1> HIDE DEF s
<1>3. Moves("request", Home("request"), "tickets", s.tenant) /\ Turn("request")
    BY <1>1, <1>2, WakesFacts DEF PostureInv, Tasks
<1>4. "tickets" \notin Scanned \cup OnTicket /\ "tickets" \notin ForTenant /\ "request" \in Tasks
    BY DEF Scanned, OnTicket, ForTenant, Tasks
<1>5. paused' \subseteq Tenants
    BY <1>2 DEF PostureInv, Types, PostureTypeOK
<1> QED
    BY <1>2, <1>3, <1>4, <1>5, HomeFacts, QuietStep DEF PostureInv

\* The scheduler goes on to a tenant, skips it, or comes to the tickets.
LEMMA SchedulerNextStep == PostureInv /\ SchedulerNext => PostureInv'
<1> SUFFICES ASSUME PostureInv, SchedulerNext PROVE PostureInv'
    OBVIOUS
<1> DEFINE old == task["scheduler"]
           todo == old.todo
           goes == IF Skips(Head(todo)) THEN "next" ELSE "scan"
<1>1. "scheduler" \in Tasks /\ old \in TaskType /\ todo \in Seq(Tenants) /\ In("scheduler", "next")
    BY DEF PostureInv, Types, TasksTyped, TaskType, Tasks, SchedulerNext
<1>2. UNCHANGED <<turns, airGapped, Tables, paused>>
    BY DEF SchedulerNext, Tables, ScanTables, TicketTables, fixed, postureTables
<1>3. \E p \in {"next", "scan", "tickets"}, t \in Tenants \cup {"none"} :
          Moves("scheduler", "next", p, t) /\ (p = "scan" => t \in Tenants)
    <2>1. CASE todo = << >>
        <3> DEFINE s == [Asleep EXCEPT !.at = "tickets", !.todo = SetToSeq(Tenants)]
        <3>1. s \in TaskType /\ s.at = "tickets"
            <4>1. "tickets" \in Places
                BY DEF Places
            <4> QED
                BY <4>1, AllTenants, AsleepTodo
        <3>2. task' = [task EXCEPT !["scheduler"] = s]
            BY <2>1 DEF SchedulerNext
        <3> HIDE DEF s
        <3>3. Moves("scheduler", "next", "tickets", s.tenant)
            BY <1>1, <3>1, <3>2, BecomesFacts DEF PostureInv
        <3>4. s.tenant \in Tenants \cup {"none"}
            BY <3>1 DEF TaskType
        <3> QED
            BY <3>3, <3>4
    <2>2. CASE todo # << >>
        <3> DEFINE s == [old EXCEPT !.todo = Tail(todo), !.tenant = Head(todo), !.at = goes]
        <3>1. Tail(todo) \in Seq(Tenants) /\ Head(todo) \in Tenants /\ goes \in {"next", "scan"} /\ goes \in Places
            BY <1>1, <2>2 DEF Places
        <3> HIDE DEF goes
        <3>2. s \in TaskType /\ s.at = goes /\ s.tenant = Head(todo)
            BY <1>1, <3>1 DEF TaskType
        <3>3. task' = [task EXCEPT !["scheduler"] = s]
            BY <2>2, <1>1 DEF SchedulerNext, PostureInv, Types, TasksTyped, goes
        <3> HIDE DEF s
        <3>4. Moves("scheduler", "next", goes, Head(todo))
            BY <1>1, <3>2, <3>3, BecomesFacts DEF PostureInv
        <3> QED
            BY <3>1, <3>4
    <2> QED
        BY <2>1, <2>2
<1>4. PICK p \in {"next", "scan", "tickets"}, t \in Tenants \cup {"none"} :
          Moves("scheduler", "next", p, t) /\ (p = "scan" => t \in Tenants)
    BY <1>3
<1>5. p \notin Scanned \cup OnTicket /\ (p \in ForTenant => t \in Tenants)
    BY <1>4 DEF Scanned, OnTicket, ForTenant
<1>6. paused' \subseteq Tenants /\ ~Rests("scheduler")
    BY <1>1, <1>2 DEF PostureInv, Types, PostureTypeOK, Rests, In
<1> QED
    BY <1>1, <1>2, <1>4, <1>5, <1>6, QuietStep

-----------------------------------------------------------------------------
(* Alerts and deliveries outside the scans and the tickets. *)

\* An alert of a kind that nothing counts is recorded, or none.
LEMMA LoudStep ==
    ASSUME PostureInv, NEW k \in Tasks, NEW from, NEW p, NEW t, Moves(k, from, p, t),
           UNCHANGED <<turns, airGapped, paused, ScanTables, TicketTables, governance>>,
           notices' \in [Tenants -> Notices], Silent(Counted), AlertsStayInside',
           from \notin {"audit", "drop", "breach", "resolved"}, p \notin Scanned \cup OnTicket,
           p \in ForTenant => t \in Tenants, Rests(k) => Turn(k)
    PROVE  PostureInv'
<1>1. OneAwake' /\ BreachInv' /\ RealInv' /\ ResolveInv' /\ StoryInv'
    BY Elsewhere
<1>2. TasksTyped'
    <2>1. p \notin Scanned /\ p \notin {"ask", "save"}
        BY DEF OnTicket
    <2> QED
        BY <2>1, TasksAfter DEF PostureInv
<1>3. Types'
    BY <1>2 DEF PostureInv, Types, PostureTypeOK, ScanTables, TicketTables
<1> QED
    BY <1>1, <1>3 DEF PostureInv

LEMMA FireSilent ==
    ASSUME Types, NEW t \in Tenants, NEW kind \in Kinds, Fire(t, kind), UNCHANGED airGapped,
           NEW K \in SUBSET (Kinds \ {kind})
    PROVE  Silent(K)
<1> SUFFICES ASSUME NEW u \in Tenants, NEW q \in K PROVE notices'[u].fired[q] = notices[u].fired[q]
    BY DEF Silent
<1>1. notices'[u].fired[q] = notices[u].fired[q] + (IF u = t /\ q = kind /\ q \in Counted THEN 1 ELSE 0)
    BY FireFacts
<1>2. notices[u].fired[q] \in Nat
    BY DEF Types, Notices
<1> QED
    BY <1>1, <1>2

LEMMA TestAlertStep == ASSUME NEW t \in Tenants PROVE PostureInv /\ TestAlert(t) => PostureInv'
<1> SUFFICES ASSUME PostureInv, TestAlert(t) PROVE PostureInv'
    OBVIOUS
<1> DEFINE s == [Asleep EXCEPT !.at = "report", !.tenant = t]
<1>1. s \in TaskType /\ s.at = "report" /\ s.tenant = t
    <2>1. "report" \in Places
        BY DEF Places
    <2> QED
        BY <2>1, AsleepFor
<1>2. /\ Wakes("request", s) /\ Fire(t, "test")
      /\ UNCHANGED <<turns, airGapped, paused, ScanTables, TicketTables, governance>>
    BY DEF TestAlert, ScanTables, TicketTables, fixed
<1> HIDE DEF s
<1>3. Moves("request", Home("request"), "report", t) /\ Turn("request")
    BY <1>1, <1>2, WakesFacts DEF PostureInv, Tasks
<1>4. "report" \notin Scanned \cup OnTicket /\ "request" \in Tasks /\ "test" \in Kinds
    BY DEF Scanned, OnTicket, Tasks, Kinds
<1>5. notices' \in [Tenants -> Notices] /\ Silent(Counted) /\ AlertsStayInside'
    <2>1. Counted \in SUBSET (Kinds \ {"test"}) /\ UNCHANGED airGapped
        BY <1>2 DEF Counted, Kinds
    <2> QED
        BY <1>2, <1>4, <2>1, FireFacts, FireSilent DEF PostureInv
<1> QED
    BY <1>2, <1>3, <1>4, <1>5, HomeFacts, LoudStep DEF PostureInv

LEMMA ReportTestStep == PostureInv /\ ReportTest => PostureInv'
<1> SUFFICES ASSUME PostureInv, ReportTest PROVE PostureInv'
    OBVIOUS
<1> DEFINE n == notices[task["request"].tenant].newest
           s == [Asleep EXCEPT !.status = n]
<1>1. "request" \in Tasks /\ In("request", "report") /\ task["request"].tenant \in Tenants
    BY DEF PostureInv, Types, TasksTyped, Tasks, ReportTest, In, ForTenant
<1>2. n \in Kinds \cup TicketStatuses
    BY <1>1 DEF PostureInv, Types, Notices, TicketStatuses
<1>3. s \in TaskType /\ s.at = "asleep" /\ task' = [task EXCEPT !["request"] = s]
    BY <1>2, AsleepStatus DEF ReportTest
<1> HIDE DEF s, n
<1>4. Moves("request", "report", "asleep", s.tenant)
    BY <1>1, <1>3, BecomesFacts DEF PostureInv
<1>5. UNCHANGED <<turns, airGapped, Tables, paused>> /\ paused' \subseteq Tenants
    BY DEF ReportTest, Tables, ScanTables, TicketTables, fixed, postureTables, PostureInv, Types, PostureTypeOK
<1>6. "asleep" \notin Scanned \cup OnTicket /\ "asleep" \notin ForTenant /\ ~Rests("request")
    BY <1>1 DEF Scanned, OnTicket, ForTenant, Rests, In
<1> QED
    BY <1>1, <1>4, <1>5, <1>6, QuietStep

\* deliver_evidence touches nothing the invariant speaks about.
LEMMA DeliverEvidenceStep == PostureInv /\ DeliverEvidence => PostureInv'
<1> SUFFICES ASSUME PostureInv, DeliverEvidence PROVE PostureInv'
    OBVIOUS
<1>1. /\ UNCHANGED <<turns, airGapped, paused, cache, history, slo, governance, notices, ticket, changed>>
      /\ UNCHANGED <<resolutions, remote, task, outside>>
    BY DEF DeliverEvidence, fixed, Leaves
<1>2. Types' /\ OneAwake'
    BY <1>1 DEF PostureInv, Types, PostureTypeOK, TasksTyped, OneAwake, Rests
<1>3. BreachInv'
    BY <1>1 DEF PostureInv, BreachInv, Failing, Breaching, In, Fired
<1>4. RealInv' /\ ResolveInv'
    BY <1>1 DEF PostureInv, RealInv, TicketIsReal, ResolveInv, TurnTicket, Resolving, Unsettled, In, Fired
<1>5. StoryInv'
    BY <1>1 DEF PostureInv, StoryInv, TurnTenant, TurnScan, LastOf, Skipped, In, Steps, AuditDue, DropDue, Drops, Audited,
                Fired, HistoryHasNoRepeats, SloJudgesOwnScan, IsChange, IsDrop
<1>6. AlertsStayInside'
    BY <1>1 DEF PostureInv, AlertsStayInside
<1> QED
    BY <1>2, <1>3, <1>4, <1>5, <1>6 DEF PostureInv

\* The end of a scan: the next tenant, the tickets, or sleep.
LEMMA AlertFindingsStep == ASSUME NEW k \in Tasks PROVE PostureInv /\ AlertFindings(k) => PostureInv'
<1> SUFFICES ASSUME PostureInv, AlertFindings(k) PROVE PostureInv'
    OBVIOUS
<1> DEFINE s == AfterScan(k)
<1>1. In(k, "critical") /\ task[k] \in TaskType /\ task[k].tenant \in Tenants /\ task' = [task EXCEPT ![k] = s]
    BY DEF PostureInv, Types, TasksTyped, AlertFindings, In, ForTenant, Scanned
<1>2. s \in TaskType /\ s.at \in {"next", "tickets", "asleep"}
    <2>1. "next" \in Places /\ "tickets" \in Places /\ <<task[k].tenant>> \in Seq(Tenants)
        BY <1>1 DEF Places
    <2>2. CASE k = "scheduler"
        <3>1. s = [Asleep EXCEPT !.at = "next", !.todo = task[k].todo] /\ task[k].todo \in Seq(Tenants)
            BY <1>1, <2>2 DEF AfterScan, TaskType
        <3> QED
            BY <2>1, <3>1, AsleepTodo
    <2>3. CASE k = "schedule"
        <3>1. PICK td \in Seq(Tenants) : s = [Asleep EXCEPT !.at = "tickets", !.todo = td]
            BY <2>1, <2>3 DEF AfterScan
        <3>2. [Asleep EXCEPT !.at = "tickets", !.todo = td] \in TaskType
              /\ [Asleep EXCEPT !.at = "tickets", !.todo = td].at = "tickets"
            BY <2>1, AsleepTodo, Zenon
        <3> QED
            BY <3>1, <3>2, Zenon
    <2>4. CASE k \notin {"scheduler", "schedule"}
        BY <2>4, AsleepType DEF AfterScan
    <2> QED
        BY <2>2, <2>3, <2>4
<1> HIDE DEF s
<1>3. Moves(k, "critical", s.at, s.tenant)
    BY <1>1, <1>2, BecomesFacts DEF PostureInv
<1>4. UNCHANGED <<turns, airGapped, paused, ScanTables, TicketTables, governance>>
    BY DEF AlertFindings, ScanTables, TicketTables, fixed
<1>5. s.at \notin Scanned \cup OnTicket /\ s.at \notin ForTenant /\ ~Rests(k) /\ "new_critical" \in Kinds
    BY <1>1, <1>2 DEF Scanned, OnTicket, ForTenant, Rests, In, Kinds
<1>6. notices' \in [Tenants -> Notices] /\ Silent(Counted) /\ AlertsStayInside'
    <2>1. CASE Fire(task[k].tenant, "new_critical")
        <3>1. Counted \in SUBSET (Kinds \ {"new_critical"}) /\ UNCHANGED airGapped
            BY <1>4 DEF Counted, Kinds
        <3> QED
            BY <1>1, <1>5, <2>1, <3>1, FireFacts, FireSilent DEF PostureInv
    <2>2. CASE NoAlert
        BY <1>4, <2>2 DEF NoAlert, PostureInv, Types, Silent, AlertsStayInside
    <2> QED
        BY <2>1, <2>2 DEF AlertFindings
<1> QED
    BY <1>3, <1>4, <1>5, <1>6, LoudStep

-----------------------------------------------------------------------------
(* The steps that follow a scan. *)

\* They leave the tickets alone.
LEMMA TicketSide ==
    ASSUME PostureInv, NEW k \in Tasks, NEW from, NEW p, NEW t, Moves(k, from, p, t),
           UNCHANGED <<turns, TicketTables>>, Silent({"remediation_resolved"}),
           from # "resolved", p \notin OnTicket, ~Rests(k)
    PROVE  OneAwake' /\ RealInv' /\ ResolveInv'
<1>1. task'[k].at = p
    BY DEF Moves
<1>2. TurnTicket(k)'
    BY <1>1 DEF TurnTicket, In, OnTicket
<1>3. OneAwake'
    BY AwakeAfter DEF PostureInv
<1>4. p \notin {"ticket", "ask", "save"} /\ p # "resolved" /\ UNCHANGED <<ticket, remote>>
      /\ UNCHANGED <<turns, ticket, resolutions>>
    BY DEF OnTicket, TicketTables
<1>5. RealInv'
    BY <1>4, RealAfter DEF PostureInv
<1>6. ResolveInv'
    BY <1>2, <1>4, ResolveAfter DEF PostureInv
<1> QED
    BY <1>3, <1>5, <1>6

\* Taking turns, the task at work is alone: what is due is due from it.
LEMMA Alone ==
    ASSUME PostureInv, turns, NEW k \in Tasks, NEW from, NEW p, NEW t, Moves(k, from, p, t), ~Rests(k)
    PROVE  /\ \A m \in Tasks \ {k} : TurnScan(m)' /\ TurnTicket(m)'
           /\ \A u \in Tenants :
                 /\ AuditDue(u) <=> from = "audit" /\ task[k].tenant = u /\ IsChange(task[k].prev, task[k].score)
                 /\ AuditDue(u)' <=> p = "audit" /\ t = u /\ IsChange(task'[k].prev, task'[k].score)
                 /\ DropDue(u) <=>
                       from \in {"audit", "drop"} /\ task[k].tenant = u /\ IsDrop(task[k].prev, task[k].score)
                 /\ DropDue(u)' <=>
                       p \in {"audit", "drop"} /\ t = u /\ IsDrop(task'[k].prev, task'[k].score)
                 /\ Resolving(u) <=> from = "resolved" /\ task[k].tenant = u
                 /\ Resolving(u)' <=> p = "resolved" /\ t = u
<1>1. \A m \in Tasks \ {k} : task[m].at \in {"asleep", "new"} /\ task'[m] = task[m]
    BY DEF PostureInv, OneAwake, Rests, Moves
<1>2. \A m \in Tasks \ {k} : TurnScan(m)' /\ TurnTicket(m)'
    BY <1>1 DEF TurnScan, TurnTicket, In
<1>3. ASSUME NEW u \in Tenants
      PROVE  /\ AuditDue(u) <=> from = "audit" /\ task[k].tenant = u /\ IsChange(task[k].prev, task[k].score)
             /\ AuditDue(u)' <=> p = "audit" /\ t = u /\ IsChange(task'[k].prev, task'[k].score)
    BY <1>1 DEF AuditDue, In, Moves, IsChange
<1>4. ASSUME NEW u \in Tenants
      PROVE  /\ DropDue(u) <=>
                   from \in {"audit", "drop"} /\ task[k].tenant = u /\ IsDrop(task[k].prev, task[k].score)
             /\ DropDue(u)' <=>
                   p \in {"audit", "drop"} /\ t = u /\ IsDrop(task'[k].prev, task'[k].score)
    BY <1>1 DEF DropDue, Moves, IsDrop
<1>5. ASSUME NEW u \in Tenants
      PROVE  /\ Resolving(u) <=> from = "resolved" /\ task[k].tenant = u
             /\ Resolving(u)' <=> p = "resolved" /\ t = u
    BY <1>1 DEF Resolving, In, Moves
<1> QED
    BY <1>2, <1>3, <1>4, <1>5

\* A task at work on a scan.
LEMMA ScannedFacts ==
    ASSUME Types, NEW k \in Tasks, task[k].at \in Scanned
    PROVE  /\ task[k].tenant \in Tenants /\ task[k].score \in Scores /\ task[k].score \in Nat
           /\ task[k].assets \in AssetCounts /\ [score |-> task[k].score, assets |-> task[k].assets] \in Snapshot
           /\ task[k].prev \in Seq(Scores) /\ ~Rests(k)
           /\ history[task[k].tenant] \in Seq(Snapshot) /\ Len(history[task[k].tenant]) \in Nat
<1>1. task[k].tenant \in Tenants /\ task[k].score \in Scores /\ task[k].assets \in AssetCounts /\ task[k].prev \in Seq(Scores) /\ Scores \subseteq Nat
    BY PostureAssumption DEF Types, TasksTyped, TaskType, Scanned, ForTenant
<1>2. history[task[k].tenant] \in Seq(Snapshot)
    BY <1>1 DEF Types, PostureTypeOK
<1>3. ~Rests(k)
    BY DEF Rests, Scanned
<1>4. task[k].score \in Nat
    BY <1>1
<1>5. Len(history[task[k].tenant]) \in Nat
    BY <1>2, LenProperties
<1>6. [score |-> task[k].score, assets |-> task[k].assets] \in Snapshot
    BY <1>1 DEF Snapshot
<1> QED
    BY <1>1, <1>2, <1>3, <1>4, <1>5, <1>6

LEMMA ScanTargetsStep == ASSUME NEW k \in Tasks PROVE PostureInv /\ ScanTargets(k) => PostureInv'
<1> SUFFICES ASSUME PostureInv, ScanTargets(k) PROVE PostureInv'
    OBVIOUS
<1> DEFINE t == task[k].tenant
           pr == LastOf(t)
<1>1. In(k, "scan") /\ task[k] \in TaskType /\ t \in Tenants /\ ~Rests(k)
    BY DEF ScanTargets, PostureInv, Types, TasksTyped, In, ForTenant, Rests
<1>2. pr \in Seq(Scores)
    <2>1. history[t] \in Seq(Snapshot)
        BY <1>1 DEF PostureInv, Types, PostureTypeOK
    <2>2. history[t] # << >> => Len(history[t]) \in 1..Len(history[t])
        BY <2>1
    <2>3. history[t] # << >> => history[t][Len(history[t])].score \in Scores
        <3>1. history[t] # << >> => history[t][Len(history[t])] \in Snapshot
            BY <2>1, <2>2
        <3> QED
            BY <3>1 DEF Snapshot
    <2> QED
        BY <2>3 DEF LastOf
<1>3. PICK s \in Scores, a \in AssetCounts :
          task' = [task EXCEPT ![k].at = "cache", ![k].score = s, ![k].assets = a, ![k].prev = pr]
    BY DEF ScanTargets, LastOf, Last
<1> HIDE DEF pr
<1>4. /\ Moves(k, "scan", "cache", t)
      /\ task'[k].score = s /\ task'[k].assets = a /\ task'[k].prev = pr
    <2>1. "cache" \in Places /\ s \in Nat /\ a \in Nat
        BY PostureAssumption DEF Places, Scanned
    <2> QED
        BY <1>1, <1>2, <1>3, <2>1 DEF Moves, PostureInv, Types, TasksTyped, TaskType, In
<1>5. /\ UNCHANGED <<turns, airGapped, paused, TicketTables, ScanTables, governance, notices, outside>>
      /\ UNCHANGED <<turns, TicketTables>> /\ UNCHANGED <<turns, ScanTables>> /\ UNCHANGED slo
    BY DEF ScanTargets, ScanTables, TicketTables, fixed, postureTables
<1>6. Silent({"remediation_resolved"}) /\ Silent({"posture_drop"}) /\ Silent({"slo_breach"})
    BY <1>5 DEF Silent
<1>7. OneAwake' /\ RealInv' /\ ResolveInv'
    <2>1. "cache" \notin OnTicket
        BY DEF OnTicket
    <2> QED
        BY <1>1, <1>4, <1>5, <1>6, <2>1, TicketSide
<1>8. BreachInv'
    BY <1>4, <1>5, <1>6, BreachAfter DEF PostureInv
<1>9. TurnScan(k)'
    BY <1>4, <1>5 DEF TurnScan, In, Moves, pr, LastOf, ScanTables
<1>10. StoryInv'
    BY <1>4, <1>5, <1>6, <1>9, StoryAfter DEF PostureInv
<1>11. Types'
    <2>1. TasksTyped'
        BY <1>1, <1>4, TasksAfter DEF PostureInv, Scanned
    <2> QED
        BY <1>5, <2>1 DEF PostureInv, Types, PostureTypeOK, ScanTables, TicketTables
<1> QED
    BY <1>5, <1>7, <1>8, <1>10, <1>11 DEF PostureInv, AlertsStayInside

\* A step from one place to the next, which stores what is well typed.
LEMMA ScanSide ==
    ASSUME PostureInv, NEW k \in Tasks, NEW from \in Scanned, NEW p \in Scanned,
           Moves(k, from, p, task[k].tenant), Keeps(k),
           UNCHANGED <<turns, airGapped, paused, TicketTables>>, Silent({"remediation_resolved"}),
           history' \in [Tenants -> Seq(Snapshot)], changed' \in [Tenants -> Seq(Scores \X Scores)],
           governance' \in [Tenants -> Nat], cache' \in [tenant : Tenants \cup {"none"}, score : Nat],
           slo' \in [Tenants -> Seq(SloRow)], notices' \in [Tenants -> Notices]
    PROVE  Types' /\ OneAwake' /\ RealInv' /\ ResolveInv'
<1>1. task[k].at \in Scanned /\ Types
    BY DEF Moves, PostureInv
<1>2. task[k].tenant \in Tenants /\ task[k].score \in Scores /\ task[k].assets \in AssetCounts /\ ~Rests(k)
    BY <1>1, ScannedFacts
<1>3. p \notin OnTicket /\ from # "resolved" /\ p \notin {"ask", "save"} /\ UNCHANGED <<turns, TicketTables>>
    BY DEF Scanned, OnTicket
<1>4. OneAwake' /\ RealInv' /\ ResolveInv'
    BY <1>2, <1>3, TicketSide
<1>5. TasksTyped'
    BY <1>1, <1>2, <1>3, TasksAfter DEF Keeps
<1>6. Types'
    BY <1>1, <1>5 DEF Types, PostureTypeOK, TicketTables
<1> QED
    BY <1>4, <1>6

\* Where a task goes when it only moves on.
LEMMA ScanMoves ==
    ASSUME PostureInv, NEW k \in Tasks, NEW from \in Scanned, In(k, from), NEW p \in Scanned, Move(k, p)
    PROVE  Moves(k, from, p, task[k].tenant) /\ Keeps(k)
<1>1. p \in Places
    BY DEF Places
<1> QED
    BY <1>1, MoveFacts DEF PostureInv

LEMMA WriteCacheStep == ASSUME NEW k \in Tasks PROVE PostureInv /\ WriteCache(k) => PostureInv'
<1> SUFFICES ASSUME PostureInv, WriteCache(k) PROVE PostureInv'
    OBVIOUS
<1> DEFINE t == task[k].tenant
<1>0. "cache" \in Scanned /\ "history" \in Scanned /\ In(k, "cache") /\ Move(k, "history") /\ task[k].at \in Scanned
    BY DEF Scanned, WriteCache, In
<1>1. Moves(k, "cache", "history", t) /\ Keeps(k)
    BY <1>0, ScanMoves
<1>2. t \in Tenants /\ task[k].score \in Nat /\ ~Rests(k)
    BY <1>0, ScannedFacts DEF PostureInv
<1>3. /\ UNCHANGED <<turns, airGapped, paused, TicketTables>>
      /\ UNCHANGED <<turns, history, changed, slo, governance, notices, outside, airGapped>>
      /\ cache' = [tenant |-> t, score |-> task[k].score]
    BY DEF WriteCache, TicketTables, fixed, postureTables
<1>4. Silent({"remediation_resolved"}) /\ Silent({"posture_drop"}) /\ Silent({"slo_breach"})
    BY <1>3 DEF Silent
<1>5. Types' /\ OneAwake' /\ RealInv' /\ ResolveInv'
    <2>1. cache' \in [tenant : Tenants \cup {"none"}, score : Nat] /\ cache'.score = task[k].score
        BY <1>2, <1>3
    <2>2. /\ history' \in [Tenants -> Seq(Snapshot)] /\ changed' \in [Tenants -> Seq(Scores \X Scores)]
          /\ governance' \in [Tenants -> Nat] /\ slo' \in [Tenants -> Seq(SloRow)] /\ notices' \in [Tenants -> Notices]
        BY <1>3 DEF PostureInv, Types, PostureTypeOK
    <2> QED
        BY <1>0, <1>1, <1>3, <1>4, <2>1, <2>2, ScanSide
<1>6. BreachInv'
    BY <1>1, <1>3, <1>4, BreachAfter DEF PostureInv
<1>7. StoryInv'
    <2> SUFFICES ASSUME turns PROVE /\ \A m \in Tasks : TurnScan(m)'
                                    /\ \A u \in Tenants : TurnTenant(u)'
                                    /\ HistoryHasNoRepeats' /\ SloJudgesOwnScan'
        BY <1>3 DEF StoryInv
    <2>1. \A m \in Tasks \ {k} : TurnScan(m)'
        BY <1>1, <1>2, Alone
    <2>2. \A u \in Tenants : (AuditDue(u)' <=> AuditDue(u)) /\ (DropDue(u)' <=> DropDue(u))
        BY <1>1, <1>2, Alone
    <2>3. TurnScan(k)'
        <3>1. TurnScan(k)
            BY DEF PostureInv, StoryInv
        <3>2. cache'.score = task[k].score
            BY <1>3
        <3> QED
            BY <1>0, <1>1, <1>3, <3>1, <3>2 DEF TurnScan, Moves, Keeps, In, LastOf
    <2>4. \A u \in Tenants : TurnTenant(u)'
        BY <1>3, <1>4, <2>2, TenantAfter DEF PostureInv, StoryInv
    <2>5. HistoryHasNoRepeats' /\ SloJudgesOwnScan'
        BY <1>3 DEF PostureInv, StoryInv, HistoryHasNoRepeats, SloJudgesOwnScan
    <2> QED
        BY <2>1, <2>3, <2>4, <2>5
<1>8. AlertsStayInside'
    BY <1>3 DEF PostureInv, AlertsStayInside
<1> QED
    BY <1>5, <1>6, <1>7, <1>8 DEF PostureInv

\* A score that is skipped is no change.
LEMMA ComparePostureStep == ASSUME NEW k \in Tasks PROVE PostureInv /\ ComparePosture(k) => PostureInv'
<1> SUFFICES ASSUME PostureInv, ComparePosture(k) PROVE PostureInv'
    OBVIOUS
<1> DEFINE t == task[k].tenant
           skip == Skipped(t, task[k].score, task[k].assets)
           p == IF skip THEN "audit" ELSE "insert"
<1>0. "history" \in Scanned /\ p \in Scanned /\ In(k, "history") /\ Move(k, p) /\ task[k].at \in Scanned
    BY DEF Scanned, ComparePosture, In
<1>1. Moves(k, "history", p, t) /\ Keeps(k)
    BY <1>0, ScanMoves
<1>2. t \in Tenants /\ task[k].score \in Nat /\ ~Rests(k) /\ history[t] \in Seq(Snapshot)
    BY <1>0, ScannedFacts DEF PostureInv
<1>3. /\ UNCHANGED <<turns, airGapped, paused, TicketTables>>
      /\ UNCHANGED <<turns, history, changed, slo, cache, governance, notices, outside, airGapped>>
    BY DEF ComparePosture, TicketTables, fixed, postureTables
<1>4. Silent({"remediation_resolved"}) /\ Silent({"posture_drop"}) /\ Silent({"slo_breach"})
    BY <1>3 DEF Silent
<1>5. Types' /\ OneAwake' /\ RealInv' /\ ResolveInv'
    <2>1. /\ history' \in [Tenants -> Seq(Snapshot)] /\ changed' \in [Tenants -> Seq(Scores \X Scores)]
          /\ governance' \in [Tenants -> Nat] /\ slo' \in [Tenants -> Seq(SloRow)] /\ notices' \in [Tenants -> Notices]
          /\ cache' \in [tenant : Tenants \cup {"none"}, score : Nat]
        BY <1>3 DEF PostureInv, Types, PostureTypeOK
    <2> HIDE DEF p
    <2> QED
        BY <1>0, <1>1, <1>3, <1>4, <2>1, ScanSide
<1>6. BreachInv'
    BY <1>1, <1>3, <1>4, BreachAfter DEF PostureInv
<1>7. StoryInv'
    <2> SUFFICES ASSUME turns PROVE /\ \A m \in Tasks : TurnScan(m)'
                                    /\ \A u \in Tenants : TurnTenant(u)'
                                    /\ HistoryHasNoRepeats' /\ SloJudgesOwnScan'
        BY <1>3 DEF StoryInv
    <2>0. TurnScan(k)
        BY DEF PostureInv, StoryInv
    <2>1. skip => ~IsChange(task[k].prev, task[k].score) /\ ~IsDrop(task[k].prev, task[k].score)
        <3>1. SUFFICES ASSUME skip PROVE task[k].prev = <<task[k].score>>
            BY <1>2, PostureAssumption DEF IsChange, IsDrop
        <3> QED
            BY <1>0, <2>0, <3>1 DEF TurnScan, In, LastOf, Skipped, Last
    <2>2. \A m \in Tasks \ {k} : TurnScan(m)'
        BY <1>1, <1>2, Alone
    <2>3. \A u \in Tenants : (AuditDue(u)' <=> AuditDue(u)) /\ (DropDue(u)' <=> DropDue(u))
        <3>1. task'[k].prev = task[k].prev /\ task'[k].score = task[k].score
            BY <1>1 DEF Keeps
        <3> QED
            BY <1>1, <1>2, <2>1, <3>1, Alone
    <2>4. TurnScan(k)'
        <3>1. /\ task'[k].at = p /\ task'[k].tenant = t
              /\ task'[k].prev = task[k].prev /\ task'[k].score = task[k].score /\ task[k].at = "history"
              /\ task'[k].assets = task[k].assets
            BY <1>1 DEF Moves, Keeps
        <3> QED
            BY <1>3, <2>0, <2>1, <3>1 DEF TurnScan, In, LastOf, Skipped, IsChange
    <2>5. \A u \in Tenants : TurnTenant(u)'
        BY <1>3, <1>4, <2>3, TenantAfter DEF PostureInv, StoryInv
    <2>6. HistoryHasNoRepeats' /\ SloJudgesOwnScan'
        BY <1>3 DEF PostureInv, StoryInv, HistoryHasNoRepeats, SloJudgesOwnScan
    <2> QED
        BY <2>2, <2>4, <2>5, <2>6
<1>8. AlertsStayInside'
    BY <1>3 DEF PostureInv, AlertsStayInside
<1> QED
    BY <1>5, <1>6, <1>7, <1>8 DEF PostureInv

\* The row is stored; the event and the alert it calls for become due.
LEMMA InsertPostureStep == ASSUME NEW k \in Tasks PROVE PostureInv /\ InsertPosture(k) => PostureInv'
<1> SUFFICES ASSUME PostureInv, InsertPosture(k) PROVE PostureInv'
    OBVIOUS
<1> DEFINE t == task[k].tenant
           s == task[k].score
           r == [score |-> s, assets |-> task[k].assets]
           h == history[t]
           n == Len(h)
<1>0. "insert" \in Scanned /\ "audit" \in Scanned /\ In(k, "insert") /\ Move(k, "audit") /\ task[k].at \in Scanned
    BY DEF Scanned, InsertPosture, In
<1>1. Moves(k, "insert", "audit", t) /\ Keeps(k)
    BY <1>0, ScanMoves
<1>2. t \in Tenants /\ s \in Scores /\ s \in Nat /\ ~Rests(k) /\ h \in Seq(Snapshot) /\ n \in Nat
      /\ r \in Snapshot /\ r.score = s
    BY <1>0, ScannedFacts DEF PostureInv
<1>3. /\ UNCHANGED <<turns, airGapped, paused, TicketTables>>
      /\ UNCHANGED <<turns, changed, slo, cache, governance, notices, outside, airGapped>>
    BY DEF InsertPosture, TicketTables, fixed
<1>4. Silent({"remediation_resolved"}) /\ Silent({"posture_drop"}) /\ Silent({"slo_breach"})
    BY <1>3 DEF Silent
<1>5. /\ history' \in [Tenants -> Seq(Snapshot)] /\ history'[t] = Append(h, r)
      /\ \A u \in Tenants : u # t => history'[u] = history[u]
    <2>1. history' = [history EXCEPT ![t] = Append(h, r)] /\ history \in [Tenants -> Seq(Snapshot)]
        BY DEF InsertPosture, PostureInv, Types, PostureTypeOK
    <2>2. Append(h, r) \in Seq(Snapshot)
        BY <1>2, AppendFacts
    <2> QED
        BY <1>2, <2>1, <2>2
<1>6. Types' /\ OneAwake' /\ RealInv' /\ ResolveInv'
    <2>1. /\ changed' \in [Tenants -> Seq(Scores \X Scores)]
          /\ governance' \in [Tenants -> Nat] /\ slo' \in [Tenants -> Seq(SloRow)] /\ notices' \in [Tenants -> Notices]
          /\ cache' \in [tenant : Tenants \cup {"none"}, score : Nat]
        BY <1>3 DEF PostureInv, Types, PostureTypeOK
    <2> QED
        BY <1>0, <1>1, <1>3, <1>4, <1>5, <2>1, ScanSide
<1>7. BreachInv'
    BY <1>1, <1>3, <1>4, BreachAfter DEF PostureInv
<1>8. ASSUME turns PROVE /\ \A m \in Tasks : TurnScan(m)'
                         /\ \A u \in Tenants : TurnTenant(u)'
                         /\ HistoryHasNoRepeats' /\ SloJudgesOwnScan'
    <2>1. /\ task'[k].at = "audit" /\ task'[k].tenant = t /\ task[k].at = "insert"
          /\ task'[k].prev = task[k].prev /\ task'[k].score = s
        BY <1>1 DEF Moves, Keeps
    <2>2. TurnScan(k) /\ TurnTenant(t) /\ HistoryHasNoRepeats /\ SloJudgesOwnScan
        BY <1>2, <1>8 DEF PostureInv, StoryInv
    <2>3. /\ task[k].prev = LastOf(t) /\ cache.score = s
          /\ h # << >> => h[n] # r
        BY <2>1, <2>2 DEF TurnScan, In, Skipped, Last
    <2>. PICK w \in Tenants : w = t
        BY <1>2
    <2>4. /\ \A m \in Tasks \ {k} : TurnScan(m)'
          /\ \A u \in Tenants : u # t => (AuditDue(u)' <=> AuditDue(u)) /\ (DropDue(u)' <=> DropDue(u))
          /\ ~AuditDue(w) /\ ~DropDue(w)
          /\ AuditDue(w)' <=> IsChange(task[k].prev, s)
          /\ DropDue(w)' <=> IsDrop(task[k].prev, s)
        BY <1>1, <1>2, <1>8, <2>1, Alone
    <2>5. /\ IsChange(task[k].prev, s) <=> h # << >> /\ h[n].score # s
          /\ IsDrop(task[k].prev, s) <=> h # << >> /\ h[n].score >= s + Drop
          /\ h # << >> => task[k].prev[1] = h[n].score
        BY <2>3 DEF IsChange, IsDrop, LastOf
    <2> HIDE DEF h, n, s, t, r
    <2>6. /\ Len(Append(h, r)) = n + 1 /\ Append(h, r)[n + 1] = r
          /\ \A i \in 1..n : Append(h, r)[i] = h[i]
          /\ h # << >> <=> n > 0
        BY <1>2, AppendFacts DEF n
    <2>7. TurnScan(k)'
        <3>1. h # << >> => n \in 1..n /\ (n + 1) - 1 = n
            BY <1>2, <2>6
        <3>2. h # << >> => Append(h, r)[(n + 1) - 1] = h[n]
            BY <2>6, <3>1
        <3>3. IsChange(task'[k].prev, task'[k].score) =>
                 /\ Len(history'[t]) >= 2 /\ history'[t][Len(history'[t])].score = s
                 /\ history'[t][Len(history'[t]) - 1].score = task'[k].prev[1]
            BY <1>2, <1>5, <2>1, <2>5, <2>6, <3>2
        <3> QED
            BY <1>3, <2>1, <2>3, <3>3 DEF TurnScan, In
    <2>8. Audited(w, IF AuditDue(w) THEN Steps(w) \ {Len(history[w])} ELSE Steps(w))'
        <3> DEFINE C == Changes(h)
        <3>1. Tells(changed[w], h, C)
            BY <2>2, <2>4 DEF TurnTenant, Audited, Steps, h
        <3>2. C \subseteq 2..Len(h) /\ n + 1 \notin C
            BY <1>2, ChangesAfter DEF n
        <3>3. Changes(Append(h, r)) = IF AuditDue(w)' THEN C \cup {n + 1} ELSE C
            BY <1>2, <2>4, <2>5, ChangesAfter DEF n
        <3> HIDE DEF C
        <3>4. Tells(changed[w], Append(h, r), C)
            BY <1>2, <3>1, <3>2, TellsAfter
        <3>5. changed'[w] = changed[w] /\ history'[w] = Append(h, r)
            BY <1>3, <1>5
        <3>6. (IF AuditDue(w)' THEN Changes(Append(h, r)) \ {Len(Append(h, r))} ELSE Changes(Append(h, r))) = C
            BY <2>6, <3>2, <3>3
        <3> QED
            BY <3>4, <3>5, <3>6 DEF Audited, Steps
    <2>9. Fired(w, "posture_drop")' + (IF DropDue(w)' THEN 1 ELSE 0) = Cardinality(Drops(w)')
        <3>1. Fired(w, "posture_drop")' = Fired(w, "posture_drop")
            BY <1>3 DEF Fired
        <3>2. Fired(w, "posture_drop") = Cardinality(DropsOf(h))
            <4>1. Fired(w, "posture_drop") + 0 = Cardinality(DropsOf(h))
                BY <2>2, <2>4 DEF TurnTenant, Drops, h
            <4> QED
                BY <4>1, FiredNat DEF PostureInv, Counted
        <3>3. IsFiniteSet(DropsOf(h)) /\ n + 1 \notin DropsOf(h)
            BY <1>2, DropsAfter DEF n
        <3>4. DropsOf(Append(h, r)) = IF DropDue(w)' THEN DropsOf(h) \cup {n + 1} ELSE DropsOf(h)
            BY <1>2, <2>4, <2>5, DropsAfter DEF n
        <3>5. Cardinality(DropsOf(h) \cup {n + 1}) = Cardinality(DropsOf(h)) + 1
            BY <3>3, FS_AddElement
        <3>6. Drops(w)' = DropsOf(Append(h, r))
            BY <1>5 DEF Drops, DropsOf
        <3>7. Fired(w, "posture_drop") \in Nat
            BY FiredNat DEF PostureInv, Counted
        <3> QED
            BY <3>1, <3>2, <3>4, <3>5, <3>6, <3>7
    <2>10. \A u \in Tenants : TurnTenant(u)'
        <3>1. TurnTenant(w)'
            BY <2>8, <2>9 DEF TurnTenant
        <3>2. ASSUME NEW u \in Tenants, u # t PROVE TurnTenant(u)'
            <4>1. TurnTenant(u) /\ history'[u] = history[u] /\ changed'[u] = changed[u]
                BY <1>3, <1>5, <1>8, <3>2 DEF PostureInv, StoryInv
            <4> QED
                BY <1>4, <2>4, <3>2, <4>1, TenantAfter
        <3> QED
            BY <3>1, <3>2
    <2>11. HistoryHasNoRepeats'
        <3> SUFFICES ASSUME NEW u \in Tenants
                     PROVE  \A i \in 2..Len(history'[u]) : history'[u][i] # history'[u][i - 1]
            BY <1>3 DEF HistoryHasNoRepeats
        <3>1. CASE u # t
            BY <1>5, <1>8, <2>2, <3>1 DEF HistoryHasNoRepeats
        <3>2. CASE u = t
            <4>1. \A i \in 2..Len(h) : h[i] # h[i - 1]
                BY <1>2, <1>8, <2>2 DEF HistoryHasNoRepeats, h
            <4>2. h # << >> => h[Len(h)] # r
                BY <2>3 DEF n
            <4>3. \A i \in 2..Len(Append(h, r)) : Append(h, r)[i] # Append(h, r)[i - 1]
                BY <1>2, <4>1, <4>2, RepeatsAfter
            <4> QED
                BY <1>5, <3>2, <4>3
        <3> QED
            BY <3>1, <3>2
    <2>12. SloJudgesOwnScan'
        BY <1>3, <2>2 DEF SloJudgesOwnScan
    <2> QED
        BY <2>4, <2>7, <2>10, <2>11, <2>12
<1>9. StoryInv'
    BY <1>3, <1>8 DEF StoryInv
<1>10. AlertsStayInside'
    BY <1>3 DEF PostureInv, AlertsStayInside
<1> QED
    BY <1>6, <1>7, <1>9, <1>10 DEF PostureInv

\* The event of the last step of a history completes the account of it.
LEMMA TellsMore ==
    ASSUME NEW h, NEW n \in Nat, NEW C, IsFiniteSet(C), C \subseteq 2..n, n \in C,
           NEW c \in Seq(Scores \X Scores), Tells(c, h, C \ {n}),
           NEW e \in Scores \X Scores, e = <<h[n - 1].score, h[n].score>>
    PROVE  Tells(Append(c, e), h, C)
<1> DEFINE d == Append(c, e)
           B == C \ {n}
<1>1. Len(d) = Len(c) + 1 /\ (\A i \in 1..Len(c) : d[i] = c[i]) /\ d[Len(c) + 1] = e
    BY AppendFacts
<1>2. /\ IsFiniteSet(B) /\ Cardinality(B) \in Nat /\ Cardinality(C) = Cardinality(B) + 1
    <2>1. IsFiniteSet(B) /\ n \notin B /\ C = B \cup {n}
        BY FS_Subset
    <2> HIDE DEF B
    <2> QED
        BY <2>1, FS_AddElement, FS_CardinalityType
<1>3. Len(c) = Cardinality(B) /\ \A i \in B : c[PlaceIn(B, i)] = <<h[i - 1].score, h[i].score>>
    BY DEF Tells
<1> HIDE DEF d
<1>4. d[PlaceIn(C, n)] = <<h[n - 1].score, h[n].score>>
    <2>1. {m \in C : m <= n} = C
        <3>1. \A m \in C : m <= n
            OBVIOUS
        <3> QED
            BY <3>1, Zenon
    <2> HIDE DEF B
    <2> QED
        BY <1>1, <1>2, <1>3, <2>1 DEF PlaceIn
<1>5. ASSUME NEW i \in B PROVE d[PlaceIn(C, i)] = <<h[i - 1].score, h[i].score>>
    <2> DEFINE L == {m \in B : m <= i}
    <2>1. {m \in C : m <= i} = L
        OBVIOUS
    <2>2. L \subseteq B /\ i \in L
        OBVIOUS
    <2> HIDE DEF B, L
    <2>3. IsFiniteSet(L) /\ Cardinality(L) \in Nat /\ Cardinality(L) <= Cardinality(B) /\ L # {}
        BY <1>2, <2>2, FS_Subset, FS_CardinalityType
    <2>4. Cardinality(L) # 0
        BY <2>3, FS_EmptySet
    <2>5. Cardinality(L) \in 1..Len(c)
        BY <1>2, <1>3, <2>3, <2>4
    <2>6. PlaceIn(C, i) = Cardinality(L) /\ PlaceIn(B, i) = Cardinality(L)
        BY <2>1 DEF PlaceIn, L
    <2> QED
        BY <1>1, <1>3, <2>5, <2>6
<1> QED
    BY <1>1, <1>2, <1>3, <1>4, <1>5 DEF Tells, d

\* A change is told to the audit log.
LEMMA AuditChangeStep == ASSUME NEW k \in Tasks PROVE PostureInv /\ AuditChange(k) => PostureInv'
<1> SUFFICES ASSUME PostureInv, AuditChange(k) PROVE PostureInv'
    OBVIOUS
<1> DEFINE t == task[k].tenant
           s == task[k].score
           prev == task[k].prev
           change == IsChange(prev, s)
           e == <<prev[1], s>>
           h == history[t]
<1>0. "drop" \in Scanned /\ "audit" \in Scanned /\ In(k, "audit") /\ Move(k, "drop") /\ task[k].at \in Scanned
    BY DEF Scanned, AuditChange, In
<1>1. Moves(k, "audit", "drop", t) /\ Keeps(k)
    BY <1>0, ScanMoves
<1>2. t \in Tenants /\ s \in Scores /\ s \in Nat /\ ~Rests(k) /\ h \in Seq(Snapshot) /\ prev \in Seq(Scores)
    BY <1>0, ScannedFacts DEF PostureInv
<1>3. /\ UNCHANGED <<turns, airGapped, paused, TicketTables>>
      /\ UNCHANGED <<turns, history, slo, cache, governance, notices, outside, airGapped>>
    BY DEF AuditChange, TicketTables, fixed, postureTables
<1>4. Silent({"remediation_resolved"}) /\ Silent({"posture_drop"}) /\ Silent({"slo_breach"})
    BY <1>3 DEF Silent
<1>5. /\ changed' \in [Tenants -> Seq(Scores \X Scores)]
      /\ changed'[t] = IF change THEN Append(changed[t], e) ELSE changed[t]
      /\ \A u \in Tenants : u # t => changed'[u] = changed[u]
      /\ change => e \in Scores \X Scores
      /\ changed[t] \in Seq(Scores \X Scores)
    <2>1. /\ changed' = IF change THEN [changed EXCEPT ![t] = Append(@, e)] ELSE changed
          /\ changed \in [Tenants -> Seq(Scores \X Scores)]
        BY DEF AuditChange, PostureInv, Types, PostureTypeOK
    <2>2. change => e \in Scores \X Scores
        <3>1. change => prev # << >>
            BY DEF IsChange
        <3>2. prev # << >> => prev[1] \in Scores
            BY <1>2
        <3> QED
            BY <1>2, <3>1, <3>2
    <2> HIDE DEF change, e
    <2>3. change => Append(changed[t], e) \in Seq(Scores \X Scores)
        BY <1>2, <2>1, <2>2, AppendFacts
    <2> QED
        BY <1>2, <2>1, <2>2, <2>3
<1>6. Types' /\ OneAwake' /\ RealInv' /\ ResolveInv'
    <2>1. /\ history' \in [Tenants -> Seq(Snapshot)]
          /\ governance' \in [Tenants -> Nat] /\ slo' \in [Tenants -> Seq(SloRow)] /\ notices' \in [Tenants -> Notices]
          /\ cache' \in [tenant : Tenants \cup {"none"}, score : Nat]
        BY <1>3 DEF PostureInv, Types, PostureTypeOK
    <2> QED
        BY <1>0, <1>1, <1>3, <1>4, <1>5, <2>1, ScanSide
<1>7. BreachInv'
    BY <1>1, <1>3, <1>4, BreachAfter DEF PostureInv
<1>8. ASSUME turns PROVE /\ \A m \in Tasks : TurnScan(m)'
                         /\ \A u \in Tenants : TurnTenant(u)'
                         /\ HistoryHasNoRepeats' /\ SloJudgesOwnScan'
    <2>1. /\ task'[k].at = "drop" /\ task'[k].tenant = t /\ task[k].at = "audit"
          /\ task'[k].prev = prev /\ task'[k].score = s
        BY <1>1 DEF Moves, Keeps
    <2>2. TurnScan(k) /\ TurnTenant(t) /\ HistoryHasNoRepeats /\ SloJudgesOwnScan
        BY <1>2, <1>8 DEF PostureInv, StoryInv
    <2>3. /\ cache.score = s
          /\ change => Len(h) >= 2 /\ h[Len(h)].score = s /\ h[Len(h) - 1].score = prev[1] /\ prev[1] # s
        BY <2>1, <2>2 DEF TurnScan, In, IsChange
    <2>. PICK w \in Tenants : w = t
        BY <1>2
    <2>4. /\ \A m \in Tasks \ {k} : TurnScan(m)'
          /\ \A u \in Tenants : DropDue(u)' <=> DropDue(u)
          /\ \A u \in Tenants : u # t => ~AuditDue(u)
          /\ \A u \in Tenants : ~AuditDue(u)'
          /\ AuditDue(w) <=> change
        BY <1>1, <1>2, <1>8, <2>1, Alone
    <2>5. TurnScan(k)'
        BY <1>3, <2>1, <2>3 DEF TurnScan, In
    <2> HIDE DEF change, h, e, t
    <2>6. Tells(changed'[w], h, Changes(h))
        <3>1. CASE change
            <4>1. Tells(changed[t], h, Changes(h) \ {Len(h)})
                BY <2>2, <2>4, <3>1 DEF TurnTenant, Audited, Steps, h
            <4>2. e = <<h[Len(h) - 1].score, h[Len(h)].score>>
                BY <2>3, <3>1 DEF e
            <4>3. IsFiniteSet(Changes(h)) /\ Changes(h) \subseteq 2..Len(h) /\ Len(h) \in Nat
                <5>1. PICK r \in Snapshot : TRUE
                    BY <1>2, <2>3, <3>1
                <5> QED
                    BY <1>2, <5>1, ChangesAfter, LenProperties
            <4>4. Len(h) \in Changes(h)
                BY <2>3, <3>1, <4>3 DEF Changes
            <4>5. Tells(Append(changed[t], e), h, Changes(h))
                BY <1>5, <3>1, <4>1, <4>2, <4>3, <4>4, TellsMore
            <4> QED
                BY <1>5, <3>1, <4>5
        <3>2. CASE ~change
            BY <1>5, <2>2, <2>4, <3>2 DEF TurnTenant, Audited, Steps, h
        <3> QED
            BY <3>1, <3>2
    <2>7. TurnTenant(w)'
        <3>1. Fired(w, "posture_drop")' = Fired(w, "posture_drop") /\ history'[w] = h
            BY <1>3 DEF Fired, h
        <3>2. Drops(w)' = Drops(w) /\ Steps(w)' = Changes(h)
            BY <3>1 DEF Drops, Steps, h
        <3>3. Audited(w, IF AuditDue(w) THEN Steps(w) \ {Len(history[w])} ELSE Steps(w))'
            BY <2>4, <2>6, <3>1, <3>2 DEF Audited
        <3>4. Fired(w, "posture_drop")' + (IF DropDue(w)' THEN 1 ELSE 0) = Cardinality(Drops(w)')
            BY <2>2, <2>4, <3>1, <3>2 DEF TurnTenant
        <3> QED
            BY <3>3, <3>4 DEF TurnTenant
    <2>8. ASSUME NEW u \in Tenants, u # t PROVE TurnTenant(u)'
        <3>1. TurnTenant(u) /\ history'[u] = history[u] /\ changed'[u] = changed[u]
            BY <1>3, <1>5, <1>8, <2>8 DEF PostureInv, StoryInv
        <3> QED
            BY <1>4, <2>4, <2>8, <3>1, TenantAfter
    <2>9. HistoryHasNoRepeats' /\ SloJudgesOwnScan'
        BY <1>3, <2>2 DEF SloJudgesOwnScan, HistoryHasNoRepeats
    <2> QED
        BY <2>4, <2>5, <2>7, <2>8, <2>9
<1>9. StoryInv'
    BY <1>3, <1>8 DEF StoryInv
<1>10. AlertsStayInside'
    BY <1>3 DEF PostureInv, AlertsStayInside
<1> QED
    BY <1>6, <1>7, <1>9, <1>10 DEF PostureInv

\* A drop is alerted.
LEMMA AlertDropStep == ASSUME NEW k \in Tasks PROVE PostureInv /\ AlertDrop(k) => PostureInv'
<1> SUFFICES ASSUME PostureInv, AlertDrop(k) PROVE PostureInv'
    OBVIOUS
<1> DEFINE t == task[k].tenant
           s == task[k].score
           drop == IsDrop(task[k].prev, s)
<1>0. "drop" \in Scanned /\ "slo" \in Scanned /\ In(k, "drop") /\ Move(k, "slo") /\ task[k].at \in Scanned
    BY DEF Scanned, AlertDrop, In
<1>1. Moves(k, "drop", "slo", t) /\ Keeps(k)
    BY <1>0, ScanMoves
<1>2. t \in Tenants /\ s \in Nat /\ ~Rests(k)
    BY <1>0, ScannedFacts DEF PostureInv
<1>3. /\ UNCHANGED <<turns, airGapped, paused, TicketTables>>
      /\ UNCHANGED <<turns, history, changed, slo, cache, governance, airGapped>> /\ UNCHANGED airGapped
    BY DEF AlertDrop, TicketTables, fixed
<1>4. /\ Silent({"remediation_resolved"}) /\ Silent({"slo_breach"})
      /\ \A u \in Tenants : Fired(u, "posture_drop")' = Fired(u, "posture_drop") + IF u = t /\ drop THEN 1 ELSE 0
      /\ notices' \in [Tenants -> Notices] /\ AlertsStayInside'
    <2>1. CASE drop
        <3>1. Fire(t, "posture_drop") /\ "posture_drop" \in Kinds
            BY <2>1 DEF AlertDrop, Kinds
        <3>2. /\ {"remediation_resolved"} \in SUBSET (Kinds \ {"posture_drop"})
              /\ {"slo_breach"} \in SUBSET (Kinds \ {"posture_drop"})
            BY DEF Kinds
        <3>3. Silent({"remediation_resolved"}) /\ Silent({"slo_breach"})
            BY <1>2, <1>3, <3>1, <3>2, FireSilent DEF PostureInv
        <3> HIDE DEF drop, t
        <3> QED
            BY <1>2, <1>3, <2>1, <3>1, <3>3, FireFacts DEF PostureInv, Fired, Counted
    <2>2. CASE ~drop
        <3>1. UNCHANGED <<notices, outside>>
            BY <2>2 DEF AlertDrop, NoAlert
        <3>2. \A u \in Tenants : Fired(u, "posture_drop") \in Nat
            BY FiredNat DEF PostureInv, Counted
        <3>3. \A u \in Tenants : Fired(u, "posture_drop")' = Fired(u, "posture_drop")
            BY <3>1 DEF Fired
        <3> HIDE DEF drop, t
        <3>4. \A u \in Tenants : Fired(u, "posture_drop")' = Fired(u, "posture_drop") + IF u = t /\ drop THEN 1 ELSE 0
            BY <2>2, <3>2, <3>3
        <3>5. Silent({"remediation_resolved"}) /\ Silent({"slo_breach"})
            BY <3>1 DEF Silent
        <3>6. notices' \in [Tenants -> Notices] /\ AlertsStayInside'
            BY <1>3, <3>1 DEF PostureInv, Types, AlertsStayInside
        <3> QED
            BY <3>4, <3>5, <3>6
    <2> QED
        BY <2>1, <2>2
<1>5. Types' /\ OneAwake' /\ RealInv' /\ ResolveInv'
    <2>1. /\ history' \in [Tenants -> Seq(Snapshot)] /\ changed' \in [Tenants -> Seq(Scores \X Scores)]
          /\ governance' \in [Tenants -> Nat] /\ slo' \in [Tenants -> Seq(SloRow)]
          /\ cache' \in [tenant : Tenants \cup {"none"}, score : Nat]
        BY <1>3 DEF PostureInv, Types, PostureTypeOK
    <2> QED
        BY <1>0, <1>1, <1>3, <1>4, <2>1, ScanSide
<1>6. BreachInv'
    BY <1>1, <1>3, <1>4, BreachAfter DEF PostureInv
<1>7. ASSUME turns PROVE /\ \A m \in Tasks : TurnScan(m)'
                         /\ \A u \in Tenants : TurnTenant(u)'
                         /\ HistoryHasNoRepeats' /\ SloJudgesOwnScan'
    <2>1. /\ task'[k].at = "slo" /\ task'[k].tenant = t /\ task[k].at = "drop"
          /\ task'[k].prev = task[k].prev /\ task'[k].score = s
        BY <1>1 DEF Moves, Keeps
    <2>2. TurnScan(k) /\ HistoryHasNoRepeats /\ SloJudgesOwnScan
        BY <1>2, <1>7 DEF PostureInv, StoryInv
    <2>3. /\ \A m \in Tasks \ {k} : TurnScan(m)'
          /\ \A u \in Tenants : (AuditDue(u)' <=> AuditDue(u)) /\ ~DropDue(u)'
          /\ \A u \in Tenants : DropDue(u) <=> u = t /\ drop
        BY <1>1, <1>2, <1>7, <2>1, Alone
    <2>4. TurnScan(k)'
        BY <1>3, <2>1, <2>2 DEF TurnScan, In
    <2>5. ASSUME NEW u \in Tenants PROVE TurnTenant(u)'
        <3> HIDE DEF drop, t
        <3>1. TurnTenant(u) /\ history'[u] = history[u] /\ changed'[u] = changed[u]
            BY <1>3, <1>7, <2>5 DEF PostureInv, StoryInv
        <3>2. Drops(u)' = Drops(u) /\ Steps(u)' = Steps(u)
            BY <3>1 DEF Drops, Steps
        <3>3. Fired(u, "posture_drop")' + (IF DropDue(u)' THEN 1 ELSE 0) = Cardinality(Drops(u)')
            <4>1. Fired(u, "posture_drop")' = Fired(u, "posture_drop") + IF DropDue(u) THEN 1 ELSE 0
                BY <1>4, <2>3
            <4>2. Fired(u, "posture_drop") + (IF DropDue(u) THEN 1 ELSE 0) = Cardinality(Drops(u))
                BY <3>1 DEF TurnTenant
            <4>3. Fired(u, "posture_drop") \in Nat
                BY FiredNat DEF PostureInv, Counted
            <4> QED
                BY <2>3, <3>2, <4>1, <4>2, <4>3
        <3>4. Audited(u, IF AuditDue(u) THEN Steps(u) \ {Len(history[u])} ELSE Steps(u))'
            BY <2>3, <3>1, <3>2 DEF TurnTenant, Audited
        <3> QED
            BY <3>3, <3>4 DEF TurnTenant
    <2>6. HistoryHasNoRepeats' /\ SloJudgesOwnScan'
        BY <1>3, <2>2 DEF SloJudgesOwnScan, HistoryHasNoRepeats
    <2> QED
        BY <2>3, <2>4, <2>5, <2>6
<1>8. StoryInv'
    BY <1>3, <1>7 DEF StoryInv
<1> QED
    BY <1>4, <1>5, <1>6, <1>8 DEF PostureInv

-----------------------------------------------------------------------------
(* The SLO check. *)

\* A verdict appended to those before it.
LEMMA FailingAfter ==
    ASSUME NEW q \in Seq(SloRow), NEW r \in SloRow
    PROVE  /\ IsFiniteSet(FailingOf(q)) /\ Cardinality(FailingOf(q)) \in Nat
           /\ Cardinality(FailingOf(Append(q, r))) = Cardinality(FailingOf(q)) + IF r.failing THEN 1 ELSE 0
<1> DEFINE g == Append(q, r)
           n == Len(q)
           F == FailingOf(q)
           G == FailingOf(g)
<1>1. /\ n \in Nat /\ DOMAIN g = 1..(n + 1) /\ DOMAIN q = 1..n /\ g[n + 1] = r
      /\ \A i \in 1..n : g[i] = q[i]
    BY AppendFacts
<1>2. F = {i \in 1..n : q[i].failing} /\ G = {i \in 1..(n + 1) : g[i].failing}
    BY <1>1 DEF FailingOf
<1> HIDE DEF g, n, F, G
<1>3. F \subseteq 1..n /\ n + 1 \notin F
    BY <1>1, <1>2
<1>4. IsFiniteSet(F)
    <2>1. IsFiniteSet(1..n)
        BY <1>1, FS_Interval
    <2> QED
        BY <1>3, <2>1, FS_Subset
<1>5. ASSUME NEW i \in 1..n PROVE i \in G <=> i \in F
    <2>1. i \in 1..(n + 1)
        BY <1>1
    <2> QED
        BY <1>1, <1>2, <2>1
<1>6. n + 1 \in G <=> r.failing
    BY <1>1, <1>2
<1>7. G \subseteq (1..n) \cup {n + 1}
    BY <1>1, <1>2
<1>8. G = IF r.failing THEN F \cup {n + 1} ELSE F
    <2>1. ASSUME NEW i PROVE i \in G <=> i \in F \/ (i = n + 1 /\ r.failing)
        BY <1>3, <1>5, <1>6, <1>7
    <2> QED
        BY <2>1
<1>9. Cardinality(F) \in Nat /\ Cardinality(F \cup {n + 1}) = Cardinality(F) + 1
    BY <1>3, <1>4, FS_AddElement, FS_CardinalityType
<1>10. Cardinality(G) = Cardinality(F) + IF r.failing THEN 1 ELSE 0
    BY <1>8, <1>9
<1> QED
    BY <1>4, <1>9, <1>10 DEF F, G, g

\* The tasks are five.
LEMMA FewTasks == ASSUME NEW u PROVE IsFiniteSet(Breaching(u)) /\ Cardinality(Breaching(u)) \in Nat
<1>1. IsFiniteSet(Tasks)
    <2> DEFINE A == {"startup"} \cup {"scheduler"}
               B == A \cup {"schedule"}
               C == B \cup {"request"}
    <2>1. IsFiniteSet(A)
        BY FS_Singleton, FS_AddElement
    <2>2. IsFiniteSet(B)
        BY <2>1, FS_AddElement
    <2>3. IsFiniteSet(C)
        BY <2>2, FS_AddElement
    <2>4. IsFiniteSet(C \cup {"webhook"})
        BY <2>3, FS_AddElement
    <2>5. Tasks = C \cup {"webhook"}
        BY DEF Tasks
    <2> QED
        BY <2>4, <2>5
<1>2. Breaching(u) \subseteq Tasks
    BY DEF Breaching
<1> QED
    BY <1>1, <1>2, FS_Subset, FS_CardinalityType

\* A breach becomes due from the task that found it.
LEMMA CheckSloStep == ASSUME NEW k \in Tasks PROVE PostureInv /\ CheckSlo(k) => PostureInv'
<1> SUFFICES ASSUME PostureInv, CheckSlo(k) PROVE PostureInv'
    OBVIOUS
<1> DEFINE t == task[k].tenant
           s == task[k].score
           failing == cache.score < Floor
           row == [score |-> cache.score, failing |-> failing, scan |-> s]
           p == IF failing THEN "breach" ELSE "governance"
<1>0. "slo" \in Scanned /\ p \in Scanned /\ In(k, "slo") /\ Move(k, p) /\ task[k].at \in Scanned
    BY DEF Scanned, CheckSlo, In
<1>1. Moves(k, "slo", p, t) /\ Keeps(k)
    BY <1>0, ScanMoves
<1>2. t \in Tenants /\ s \in Nat /\ ~Rests(k)
    BY <1>0, ScannedFacts DEF PostureInv
<1>3. /\ UNCHANGED <<turns, airGapped, paused, TicketTables>>
      /\ UNCHANGED <<turns, history, changed, cache, governance, notices, outside, airGapped>>
    BY DEF CheckSlo, TicketTables, fixed
<1>4. Silent({"remediation_resolved"}) /\ Silent({"posture_drop"}) /\ Silent({"slo_breach"})
    BY <1>3 DEF Silent
<1>5. row \in SloRow /\ failing \in BOOLEAN /\ row.failing = failing /\ row.score = cache.score /\ row.scan = s
    <2>1. cache.score \in Nat
        BY DEF PostureInv, Types
    <2> QED
        BY <1>2, <2>1 DEF SloRow
<1>6. slo' = [slo EXCEPT ![t] = Append(slo[t], row)] /\ slo \in [Tenants -> Seq(SloRow)]
    BY DEF CheckSlo, PostureInv, Types
<1> HIDE DEF row, failing
<1>7. /\ slo' \in [Tenants -> Seq(SloRow)] /\ slo[t] \in Seq(SloRow)
      /\ slo'[t] = Append(slo[t], row) /\ \A u \in Tenants : u # t => slo'[u] = slo[u]
    <2>1. Append(slo[t], row) \in Seq(SloRow)
        BY <1>2, <1>5, <1>6, AppendFacts
    <2> QED
        BY <1>2, <1>6, <2>1
<1>8. Types' /\ OneAwake' /\ RealInv' /\ ResolveInv'
    <2>1. /\ history' \in [Tenants -> Seq(Snapshot)] /\ changed' \in [Tenants -> Seq(Scores \X Scores)]
          /\ governance' \in [Tenants -> Nat] /\ notices' \in [Tenants -> Notices]
          /\ cache' \in [tenant : Tenants \cup {"none"}, score : Nat]
        BY <1>3 DEF PostureInv, Types, PostureTypeOK
    <2> HIDE DEF p
    <2> QED
        BY <1>0, <1>1, <1>3, <1>4, <1>7, <2>1, ScanSide
<1>9. BreachInv'
    <2> SUFFICES ASSUME NEW u \in Tenants
                 PROVE  Cardinality(Failing(u)') = Fired(u, "slo_breach")' + Cardinality(Breaching(u)')
        BY DEF BreachInv
    <2>1. Cardinality(Failing(u)) = Fired(u, "slo_breach") + Cardinality(Breaching(u))
        BY DEF PostureInv, BreachInv
    <2>2. Fired(u, "slo_breach")' = Fired(u, "slo_breach") /\ Fired(u, "slo_breach") \in Nat
        <3>1. Fired(u, "slo_breach") \in Nat
            BY FiredNat DEF PostureInv, Counted
        <3> QED
            BY <1>3, <3>1 DEF Fired
    <2>3. IsFiniteSet(Breaching(u)) /\ Cardinality(Breaching(u)) \in Nat /\ k \notin Breaching(u)
        BY <1>0, FewTasks DEF Breaching, In
    <2>4. CASE u = t
        <3>1. Cardinality(Failing(u)') = Cardinality(Failing(u)) + IF failing THEN 1 ELSE 0
            BY <1>5, <1>7, <2>4, FailingAfter DEF Failing
        <3>2. Breaching(u)' = IF failing THEN Breaching(u) \cup {k} ELSE Breaching(u)
            <4>1. ASSUME NEW m \in Tasks PROVE m \in Breaching(u)' <=> m \in Breaching(u) \/ (failing /\ m = k)
                BY <1>1, <2>3, <2>4 DEF Breaching, In, Moves
            <4> QED
                BY <4>1 DEF Breaching
        <3>3. Cardinality(Breaching(u) \cup {k}) = Cardinality(Breaching(u)) + 1
            BY <2>3, FS_AddElement
        <3> QED
            BY <2>1, <2>2, <2>3, <3>1, <3>2, <3>3
    <2>5. CASE u # t
        <3>1. Failing(u)' = Failing(u)
            BY <1>7, <2>5 DEF Failing
        <3>2. ASSUME NEW m \in Tasks PROVE m \in Breaching(u)' <=> m \in Breaching(u)
            BY <1>1, <2>3, <2>5 DEF Breaching, In, Moves
        <3>3. Breaching(u)' = Breaching(u)
            BY <3>2 DEF Breaching
        <3> QED
            BY <2>1, <2>2, <3>1, <3>3
    <2> QED
        BY <2>4, <2>5
<1>10. ASSUME turns PROVE /\ \A m \in Tasks : TurnScan(m)'
                          /\ \A u \in Tenants : TurnTenant(u)'
                          /\ HistoryHasNoRepeats' /\ SloJudgesOwnScan'
    <2>1. task'[k].at = p /\ p \in {"breach", "governance"} /\ task[k].at = "slo"
        BY <1>1 DEF Moves
    <2>2. TurnScan(k) /\ HistoryHasNoRepeats /\ SloJudgesOwnScan
        BY <1>10 DEF PostureInv, StoryInv
    <2>3. cache.score = s
        BY <2>1, <2>2 DEF TurnScan
    <2> HIDE DEF p
    <2>4. /\ \A m \in Tasks \ {k} : TurnScan(m)'
          /\ \A u \in Tenants : (AuditDue(u)' <=> AuditDue(u)) /\ (DropDue(u)' <=> DropDue(u))
        BY <1>1, <1>2, <1>10, <2>1, Alone
    <2>5. TurnScan(k)'
        BY <2>1 DEF TurnScan, In
    <2>6. \A u \in Tenants : TurnTenant(u)'
        BY <1>3, <1>4, <1>10, <2>4, TenantAfter DEF PostureInv, StoryInv
    <2>7. HistoryHasNoRepeats'
        BY <1>3, <2>2 DEF HistoryHasNoRepeats
    <2>8. SloJudgesOwnScan'
        <3> SUFFICES ASSUME NEW u \in Tenants, NEW i \in DOMAIN slo'[u] PROVE slo'[u][i].score = slo'[u][i].scan
            BY DEF SloJudgesOwnScan
        <3>1. CASE u # t
            BY <1>7, <1>10, <2>2, <3>1 DEF SloJudgesOwnScan
        <3>2. CASE u = t
            <4>1. /\ DOMAIN slo'[u] = 1..(Len(slo[u]) + 1) /\ DOMAIN slo[u] = 1..Len(slo[u]) /\ Len(slo[u]) \in Nat
                  /\ slo'[u][Len(slo[u]) + 1] = row /\ \A j \in 1..Len(slo[u]) : slo'[u][j] = slo[u][j]
                BY <1>5, <1>7, <3>2, AppendFacts
            <4>2. CASE i \in DOMAIN slo[u]
                BY <1>10, <2>2, <4>1, <4>2 DEF SloJudgesOwnScan
            <4>3. CASE i = Len(slo[u]) + 1
                BY <1>5, <2>3, <4>1, <4>3
            <4> QED
                BY <4>1, <4>2, <4>3
        <3> QED
            BY <3>1, <3>2
    <2> QED
        BY <2>4, <2>5, <2>6, <2>7, <2>8
<1>11. StoryInv'
    BY <1>3, <1>10 DEF StoryInv
<1>12. AlertsStayInside'
    BY <1>3 DEF PostureInv, AlertsStayInside
<1> QED
    BY <1>8, <1>9, <1>11, <1>12 DEF PostureInv

\* The task that found the breach alerts it.
LEMMA AlertBreachStep == ASSUME NEW k \in Tasks PROVE PostureInv /\ AlertBreach(k) => PostureInv'
<1> SUFFICES ASSUME PostureInv, AlertBreach(k) PROVE PostureInv'
    OBVIOUS
<1> DEFINE t == task[k].tenant
<1>0. /\ "breach" \in Scanned /\ "governance" \in Scanned /\ In(k, "breach") /\ Move(k, "governance")
      /\ task[k].at \in Scanned
    BY DEF Scanned, AlertBreach, In
<1>1. Moves(k, "breach", "governance", t) /\ Keeps(k)
    BY <1>0, ScanMoves
<1>2. t \in Tenants /\ ~Rests(k)
    BY <1>0, ScannedFacts DEF PostureInv
<1>3. /\ UNCHANGED <<turns, airGapped, paused, TicketTables>> /\ UNCHANGED <<turns, ScanTables>>
      /\ UNCHANGED governance /\ UNCHANGED airGapped /\ UNCHANGED slo
    BY DEF AlertBreach, TicketTables, ScanTables, fixed
<1>4. Fire(t, "slo_breach") /\ "slo_breach" \in Kinds
    BY DEF AlertBreach, Kinds
<1>5. Silent({"remediation_resolved"}) /\ Silent({"posture_drop"})
    <2>1. /\ {"remediation_resolved"} \in SUBSET (Kinds \ {"slo_breach"})
          /\ {"posture_drop"} \in SUBSET (Kinds \ {"slo_breach"})
        BY DEF Kinds
    <2> QED
        BY <1>2, <1>3, <1>4, <2>1, FireSilent DEF PostureInv
<1>6. /\ notices' \in [Tenants -> Notices] /\ AlertsStayInside'
      /\ \A u \in Tenants : Fired(u, "slo_breach")' = Fired(u, "slo_breach") + IF u = t THEN 1 ELSE 0
    <2> HIDE DEF t
    <2> QED
        BY <1>2, <1>3, <1>4, FireFacts DEF PostureInv, Fired, Counted
<1>7. Types' /\ OneAwake' /\ RealInv' /\ ResolveInv'
    <2>1. /\ history' \in [Tenants -> Seq(Snapshot)] /\ changed' \in [Tenants -> Seq(Scores \X Scores)]
          /\ governance' \in [Tenants -> Nat] /\ slo' \in [Tenants -> Seq(SloRow)]
          /\ cache' \in [tenant : Tenants \cup {"none"}, score : Nat]
        BY <1>3 DEF PostureInv, Types, PostureTypeOK, ScanTables
    <2> QED
        BY <1>0, <1>1, <1>3, <1>5, <1>6, <2>1, ScanSide
<1>8. StoryInv'
    <2>1. TurnScan(k)'
        BY <1>1 DEF TurnScan, In, Moves
    <2> QED
        BY <1>1, <1>3, <1>5, <2>1, StoryAfter DEF PostureInv
<1>9. BreachInv'
    <2> SUFFICES ASSUME NEW u \in Tenants
                 PROVE  Cardinality(Failing(u)') = Fired(u, "slo_breach")' + Cardinality(Breaching(u)')
        BY DEF BreachInv
    <2>1. Cardinality(Failing(u)) = Fired(u, "slo_breach") + Cardinality(Breaching(u))
        BY DEF PostureInv, BreachInv
    <2>2. Fired(u, "slo_breach") \in Nat /\ Fired(u, "slo_breach")' = Fired(u, "slo_breach") + IF u = t THEN 1 ELSE 0
        BY <1>6, FiredNat DEF PostureInv, Counted
    <2>3. IsFiniteSet(Breaching(u)) /\ Cardinality(Breaching(u)) \in Nat /\ (k \in Breaching(u) <=> u = t)
        BY <1>0, FewTasks DEF Breaching, In
    <2>4. Failing(u)' = Failing(u)
        BY <1>3 DEF Failing
    <2>5. ASSUME NEW m \in Tasks PROVE m \in Breaching(u)' <=> m \in Breaching(u) /\ m # k
        BY <1>1 DEF Breaching, In, Moves
    <2>6. Breaching(u)' = Breaching(u) \ {k}
        BY <2>5 DEF Breaching
    <2>7. Cardinality(Breaching(u) \ {k}) = IF u = t THEN Cardinality(Breaching(u)) - 1 ELSE Cardinality(Breaching(u))
        <3> HIDE DEF t
        <3>1. CASE u = t
            BY <2>3, <3>1, FS_RemoveElement
        <3>2. CASE u # t
            <4>1. Breaching(u) \ {k} = Breaching(u)
                BY <2>3, <3>2
            <4> QED
                BY <3>2, <4>1
        <3> QED
            BY <3>1, <3>2
    <2> HIDE DEF t
    <2> QED
        BY <2>1, <2>2, <2>3, <2>4, <2>6, <2>7
<1> QED
    BY <1>6, <1>7, <1>8, <1>9 DEF PostureInv

LEMMA RecordGovernanceStep == ASSUME NEW k \in Tasks PROVE PostureInv /\ RecordGovernance(k) => PostureInv'
<1> SUFFICES ASSUME PostureInv, RecordGovernance(k) PROVE PostureInv'
    OBVIOUS
<1> DEFINE t == task[k].tenant
<1>0. /\ "critical" \in Scanned /\ "governance" \in Scanned /\ In(k, "governance") /\ Move(k, "critical")
      /\ task[k].at \in Scanned
    BY DEF Scanned, RecordGovernance, In
<1>1. Moves(k, "governance", "critical", t) /\ Keeps(k)
    BY <1>0, ScanMoves
<1>2. t \in Tenants /\ ~Rests(k)
    BY <1>0, ScannedFacts DEF PostureInv
<1>3. /\ UNCHANGED <<turns, airGapped, paused, TicketTables>> /\ UNCHANGED <<turns, ScanTables>>
      /\ UNCHANGED <<notices, outside, airGapped>> /\ UNCHANGED slo
    BY DEF RecordGovernance, TicketTables, ScanTables, fixed
<1>4. Silent({"remediation_resolved"}) /\ Silent({"posture_drop"}) /\ Silent({"slo_breach"})
    BY <1>3 DEF Silent
<1>5. governance' \in [Tenants -> Nat]
    BY <1>2 DEF RecordGovernance, PostureInv, Types, PostureTypeOK
<1>6. Types' /\ OneAwake' /\ RealInv' /\ ResolveInv'
    <2>1. /\ history' \in [Tenants -> Seq(Snapshot)] /\ changed' \in [Tenants -> Seq(Scores \X Scores)]
          /\ notices' \in [Tenants -> Notices] /\ slo' \in [Tenants -> Seq(SloRow)]
          /\ cache' \in [tenant : Tenants \cup {"none"}, score : Nat]
        BY <1>3 DEF PostureInv, Types, PostureTypeOK, ScanTables
    <2> QED
        BY <1>0, <1>1, <1>3, <1>4, <1>5, <2>1, ScanSide
<1>7. BreachInv'
    BY <1>1, <1>3, <1>4, BreachAfter DEF PostureInv
<1>8. StoryInv'
    <2>1. TurnScan(k)'
        BY <1>1 DEF TurnScan, In, Moves
    <2> QED
        BY <1>1, <1>3, <1>4, <2>1, StoryAfter DEF PostureInv
<1>9. AlertsStayInside'
    BY <1>3 DEF PostureInv, AlertsStayInside
<1> QED
    BY <1>6, <1>7, <1>8, <1>9 DEF PostureInv

-----------------------------------------------------------------------------
(* Tickets. *)

\* They leave the scans alone.
LEMMA ScansSide ==
    ASSUME PostureInv, NEW k \in Tasks, NEW from, NEW p, NEW t, Moves(k, from, p, t),
           UNCHANGED <<turns, airGapped, paused, ScanTables, governance>>,
           Silent({"posture_drop"}), Silent({"slo_breach"}),
           from \notin Scanned, p \notin Scanned, Rests(k) => Turn(k)
    PROVE  OneAwake' /\ BreachInv' /\ StoryInv'
<1>1. /\ task'[k].at = p /\ UNCHANGED <<turns, ScanTables>> /\ UNCHANGED slo /\ from \notin {"audit", "drop"}
      /\ p \notin {"audit", "drop"} /\ from # "breach" /\ p # "breach"
    BY DEF Moves, ScanTables, Scanned
<1>2. TurnScan(k)'
    BY <1>1 DEF TurnScan, In, Scanned
<1>3. OneAwake'
    BY AwakeAfter DEF PostureInv
<1>4. BreachInv'
    BY <1>1, BreachAfter DEF PostureInv
<1>5. StoryInv'
    BY <1>1, <1>2, StoryAfter DEF PostureInv
<1> QED
    BY <1>3, <1>4, <1>5

LEMMA TypesAfter ==
    ASSUME PostureInv, TasksTyped', UNCHANGED <<turns, airGapped, paused, ScanTables, governance>>,
           ticket' \in [Tenants -> TicketStatuses], remote' \in [Tenants -> TicketStatuses],
           resolutions' \in [Tenants -> Nat], notices' \in [Tenants -> Notices]
    PROVE  Types'
BY DEF PostureInv, Types, PostureTypeOK, ScanTables

\* A ticket is opened at the integration: it was not there, so it is not stored.
LEMMA OpensTicket ==
    ASSUME PostureInv, NEW t \in Tenants, remote[t] = "none",
           Wakes("request", [Asleep EXCEPT !.at = "ticket", !.tenant = t]),
           remote' = [remote EXCEPT ![t] = "open"], Leaves({"ticket"}),
           UNCHANGED <<fixed, paused, cache, history, slo, governance, notices, ticket, changed, resolutions>>
    PROVE  PostureInv'
<1> DEFINE s == [Asleep EXCEPT !.at = "ticket", !.tenant = t]
<1>1. s \in TaskType /\ s.at = "ticket" /\ s.tenant = t
    <2>1. "ticket" \in Places
        BY DEF Places, OnTicket
    <2> QED
        BY <2>1, AsleepFor
<1>2. Wakes("request", s)
    OBVIOUS
<1> HIDE DEF s
<1>3. Moves("request", Home("request"), "ticket", t) /\ Turn("request") /\ "request" \in Tasks
    BY <1>1, <1>2, WakesFacts DEF PostureInv, Tasks
<1>4. /\ UNCHANGED <<turns, airGapped, paused, ScanTables, governance>> /\ UNCHANGED ticket
      /\ UNCHANGED <<turns, ticket, resolutions>> /\ UNCHANGED notices
    BY DEF fixed, ScanTables
<1>5. Silent({"remediation_resolved"}) /\ Silent({"posture_drop"}) /\ Silent({"slo_breach"})
    BY <1>4 DEF Silent
<1>6. Home("request") \notin Scanned /\ "ticket" \notin Scanned /\ Home("request") # "resolved"
    BY DEF Home, Scanned
<1>7. OneAwake' /\ BreachInv' /\ StoryInv'
    BY <1>3, <1>4, <1>5, <1>6, ScansSide
<1>8. remote' \in [Tenants -> TicketStatuses] /\ remote'[t] # "none"
      /\ \A u \in Tenants : remote[u] # "none" => remote'[u] # "none"
    BY DEF PostureInv, Types, PostureTypeOK, TicketStatuses
<1>9. Types'
    <2>1. TasksTyped'
        BY <1>3, <1>6, TasksAfter DEF PostureInv
    <2>2. ticket' \in [Tenants -> TicketStatuses] /\ resolutions' \in [Tenants -> Nat] /\ notices' \in [Tenants -> Notices]
        BY <1>4 DEF PostureInv, Types, PostureTypeOK
    <2> QED
        BY <1>4, <1>8, <2>1, <2>2, TypesAfter
<1>10. RealInv'
    BY <1>3, <1>4, <1>8, RealAfter DEF PostureInv
<1>11. TurnTicket("request")'
    <2>1. ticket[t] = "none"
        BY DEF PostureInv, RealInv, TicketIsReal
    <2> QED
        BY <1>3, <1>4, <2>1 DEF TurnTicket, In, Moves
<1>12. ResolveInv'
    BY <1>3, <1>4, <1>5, <1>6, <1>11, ResolveAfter DEF PostureInv
<1>13. AlertsStayInside'
    BY <1>4 DEF PostureInv, AlertsStayInside, Leaves
<1> QED
    BY <1>7, <1>9, <1>10, <1>12, <1>13 DEF PostureInv

LEMMA RemediateStep ==
    ASSUME NEW t \in Tenants PROVE PostureInv /\ (Remediate(t) \/ RemediatePath(t)) => PostureInv'
BY OpensTicket DEF Remediate, RemediatePath

\* The stored ticket was none, or (interleaving) one the integration has.
LEMMA RecordTicketStep == PostureInv /\ RecordTicket => PostureInv'
<1> SUFFICES ASSUME PostureInv, RecordTicket PROVE PostureInv'
    OBVIOUS
<1> DEFINE t == task["request"].tenant
<1>1. "request" \in Tasks /\ In("request", "ticket") /\ t \in Tenants /\ ~Rests("request")
    BY DEF RecordTicket, Tasks, PostureInv, Types, TasksTyped, In, ForTenant, OnTicket, Rests
<1>2. Asleep \in TaskType /\ Asleep.at = "asleep" /\ task' = [task EXCEPT !["request"] = Asleep]
    BY AsleepType DEF RecordTicket
<1>3. Moves("request", "ticket", "asleep", Asleep.tenant)
    BY <1>1, <1>2, BecomesFacts DEF PostureInv
<1>4. /\ UNCHANGED <<turns, airGapped, paused, ScanTables, governance>>
      /\ UNCHANGED <<turns, resolutions, remote, notices, outside, airGapped>>
      /\ ticket' = [ticket EXCEPT ![t] = "open"]
    BY DEF RecordTicket, fixed, ScanTables
<1>5. Silent({"posture_drop"}) /\ Silent({"slo_breach"})
    BY <1>4 DEF Silent
<1>6. OneAwake' /\ BreachInv' /\ StoryInv'
    <2>1. "ticket" \notin Scanned /\ "asleep" \notin Scanned
        BY DEF Scanned
    <2> QED
        BY <1>1, <1>3, <1>4, <1>5, <2>1, ScansSide
<1>7. ticket' \in [Tenants -> TicketStatuses] /\ \A u \in Tenants : u # t => ticket'[u] = ticket[u]
    BY <1>4 DEF PostureInv, Types, PostureTypeOK, TicketStatuses
<1>8. Types'
    <2>1. TasksTyped'
        <3>1. "asleep" \notin ForTenant /\ "asleep" \notin Scanned /\ "asleep" \notin {"ask", "save"}
            BY DEF ForTenant, Scanned, OnTicket
        <3> QED
            BY <1>1, <1>3, <3>1, TasksAfter DEF PostureInv
    <2>2. remote' \in [Tenants -> TicketStatuses] /\ resolutions' \in [Tenants -> Nat] /\ notices' \in [Tenants -> Notices]
        BY <1>4 DEF PostureInv, Types, PostureTypeOK
    <2> QED
        BY <1>4, <1>7, <2>1, <2>2, TypesAfter
<1>9. RealInv'
    <2>1. remote[t] # "none"
        BY <1>1 DEF PostureInv, RealInv, In
    <2>2. TicketIsReal'
        BY <1>4, <1>7, <2>1 DEF PostureInv, RealInv, TicketIsReal
    <2>3. \A m \in Tasks : task'[m].at \in {"ticket", "ask", "save"} => remote'[task'[m].tenant] # "none"
        BY <1>3, <1>4 DEF PostureInv, RealInv, Moves
    <2> QED
        BY <2>2, <2>3 DEF RealInv
<1>10. ResolveInv'
    <2> SUFFICES ASSUME turns
                 PROVE  /\ \A m \in Tasks : TurnTicket(m)'
                        /\ \A u \in Tenants :
                              Fired(u, "remediation_resolved")' + (IF Resolving(u)' THEN 1 ELSE 0) = resolutions'[u]
        BY <1>4 DEF ResolveInv
    <2>1. \A m \in Tasks \ {"request"} : TurnTicket(m)'
        BY <1>1, <1>3, <1>4, Alone
    <2>2. TurnTicket("request")'
        BY <1>3 DEF TurnTicket, In, Moves
    <2>3. \A u \in Tenants : (Resolving(u)' <=> Resolving(u)) /\ Fired(u, "remediation_resolved")' = Fired(u, "remediation_resolved")
        <3>1. \A u \in Tenants : Resolving(u)' <=> Resolving(u)
            BY <1>3 DEF Resolving, In, Moves
        <3> QED
            BY <1>4, <3>1 DEF Fired
    <2> QED
        BY <1>4, <2>1, <2>2, <2>3 DEF PostureInv, ResolveInv
<1>11. AlertsStayInside'
    BY <1>4 DEF PostureInv, AlertsStayInside
<1> QED
    BY <1>6, <1>8, <1>9, <1>10, <1>11 DEF PostureInv

\* The integration moves a ticket: no task has moved.
LEMMA TicketMovesStep ==
    ASSUME NEW t \in Tenants, NEW s \in Terminal \cup {"open"} PROVE PostureInv /\ TicketMoves(t, s) => PostureInv'
<1> SUFFICES ASSUME PostureInv, TicketMoves(t, s) PROVE PostureInv'
    OBVIOUS
<1>1. /\ UNCHANGED <<turns, airGapped, paused, cache, history, slo, governance, notices, ticket, changed>>
      /\ UNCHANGED <<resolutions, outside, task>> /\ remote' = [remote EXCEPT ![t] = s]
    BY DEF TicketMoves, fixed, postureTables
<1>2. remote' \in [Tenants -> TicketStatuses] /\ \A u \in Tenants : remote[u] # "none" => remote'[u] # "none"
    BY <1>1 DEF PostureInv, Types, PostureTypeOK, TicketStatuses, Terminal
<1>3. TasksTyped' /\ OneAwake'
    BY <1>1 DEF PostureInv, Types, TasksTyped, OneAwake, Rests
<1>4. Types'
    BY <1>1, <1>2, <1>3 DEF PostureInv, Types, PostureTypeOK
<1>5. BreachInv'
    BY <1>1 DEF PostureInv, BreachInv, Failing, Breaching, In, Fired
<1>6. RealInv'
    <2>1. TicketIsReal'
        BY <1>1, <1>2 DEF PostureInv, RealInv, TicketIsReal
    <2>2. \A k \in Tasks : task[k].at \in {"ticket", "ask", "save"} => task[k].tenant \in Tenants
        BY DEF PostureInv, Types, TasksTyped, ForTenant, OnTicket
    <2>3. \A k \in Tasks : task[k].at \in {"ticket", "ask", "save"} => remote'[task[k].tenant] # "none"
        BY <1>2, <2>2 DEF PostureInv, RealInv
    <2> QED
        BY <1>1, <2>1, <2>3 DEF RealInv
<1>7. ResolveInv'
    BY <1>1 DEF PostureInv, ResolveInv, TurnTicket, Resolving, Unsettled, In, Fired
<1>8. StoryInv'
    BY <1>1 DEF PostureInv, StoryInv, TurnTenant, TurnScan, LastOf, Skipped, In, Steps, AuditDue, DropDue, Drops, Audited,
                Fired, HistoryHasNoRepeats, SloJudgesOwnScan, IsChange, IsDrop
<1>9. AlertsStayInside'
    BY <1>1 DEF PostureInv, AlertsStayInside
<1> QED
    BY <1>3, <1>4, <1>5, <1>6, <1>7, <1>8, <1>9 DEF PostureInv

\* A step towards a ticket that stores nothing yet.
LEMMA TicketQuiet ==
    ASSUME PostureInv, NEW k \in Tasks, NEW from, NEW p, NEW t \in Tenants, Moves(k, from, p, t),
           UNCHANGED <<turns, airGapped, paused, Tables>>,
           from \notin Scanned, from # "resolved", p \in {"ask", "save"}, Rests(k) => Turn(k),
           remote[t] # "none", task'[k].status \in TicketStatuses, turns => TurnTicket(k)'
    PROVE  PostureInv'
<1>1. /\ UNCHANGED <<turns, airGapped, paused, ScanTables, governance>> /\ UNCHANGED <<ticket, remote>>
      /\ UNCHANGED <<turns, ticket, resolutions>> /\ UNCHANGED <<notices, outside, airGapped>>
    BY DEF Tables, TicketTables
<1>2. Silent({"remediation_resolved"}) /\ Silent({"posture_drop"}) /\ Silent({"slo_breach"})
    BY <1>1 DEF Silent
<1>3. p \notin Scanned /\ p # "resolved"
    BY DEF Scanned
<1>4. OneAwake' /\ BreachInv' /\ StoryInv'
    BY <1>1, <1>2, <1>3, ScansSide
<1>5. RealInv'
    BY <1>1, RealAfter DEF PostureInv
<1>6. ResolveInv'
    BY <1>1, <1>2, <1>3, ResolveAfter DEF PostureInv
<1>7. Types'
    <2>1. TasksTyped'
        BY <1>3, TasksAfter DEF PostureInv
    <2>2. /\ ticket' \in [Tenants -> TicketStatuses] /\ remote' \in [Tenants -> TicketStatuses]
          /\ resolutions' \in [Tenants -> Nat] /\ notices' \in [Tenants -> Notices]
        BY <1>1 DEF PostureInv, Types, PostureTypeOK
    <2> QED
        BY <1>1, <2>1, <2>2, TypesAfter
<1>8. AlertsStayInside'
    BY <1>1 DEF PostureInv, AlertsStayInside
<1> QED
    BY <1>4, <1>5, <1>6, <1>7, <1>8 DEF PostureInv

\* An event of the integration finds a stored ticket with another status.
LEMMA WebhookStep ==
    ASSUME NEW t \in Tenants, NEW s \in Terminal \cup {"open"}, NEW same \in BOOLEAN
    PROVE  PostureInv /\ Webhook(t, s, same) => PostureInv'
<1> SUFFICES ASSUME PostureInv, Webhook(t, s, same) PROVE PostureInv'
    OBVIOUS
<1>1. PICK u \in Addressed(t, s, same) :
          Wakes("webhook", [Asleep EXCEPT !.at = "save", !.tenant = u, !.status = s])
    BY DEF Webhook
<1>2. PICK r : r = Saving(u, s)
    OBVIOUS
<1>3. u \in Tenants /\ ticket[u] \notin {"none", s} /\ s \in TicketStatuses
    BY DEF Addressed, Terminal, TicketStatuses
<1>4. Wakes("webhook", r) /\ "webhook" \in Tasks /\ Types
    BY <1>1, <1>2 DEF Tasks, PostureInv, Saving
<1>5. r \in TaskType /\ r.at = "save" /\ r.tenant = u /\ r.status = s
    BY <1>2, <1>3, AsleepSave
<1>6. Moves("webhook", Home("webhook"), "save", u) /\ Turn("webhook") /\ task'["webhook"] = r
    <2>1. Moves("webhook", Home("webhook"), r.at, r.tenant) /\ Turn("webhook") /\ task'["webhook"] = r
        BY <1>4, <1>5, WakesFacts
    <2> QED
        BY <1>5, <2>1
<1>7. UNCHANGED <<turns, airGapped, paused, Tables>> /\ UNCHANGED ticket
    BY DEF Webhook, Tables, ScanTables, TicketTables, fixed, postureTables
<1>8. Home("webhook") \notin Scanned /\ Home("webhook") # "resolved"
    BY DEF Home, Scanned
<1>9. remote[u] # "none"
    BY <1>3 DEF PostureInv, RealInv, TicketIsReal
<1>10. TurnTicket("webhook")'
    BY <1>3, <1>5, <1>6, <1>7 DEF TurnTicket, In
<1>11. task'["webhook"].status \in TicketStatuses
    BY <1>3, <1>5, <1>6
<1> QED
    BY <1>3, <1>4, <1>6, <1>7, <1>8, <1>9, <1>10, <1>11, TicketQuiet

\* The next tenant's ticket is listed, and asked about unless it is settled.
LEMMA ListTicketsStep == ASSUME NEW k \in Tasks PROVE PostureInv /\ ListTickets(k) => PostureInv'
<1> SUFFICES ASSUME PostureInv, ListTickets(k) PROVE PostureInv'
    OBVIOUS
<1> DEFINE old == task[k]
           todo == old.todo
<1>1. old \in TaskType /\ todo \in Seq(Tenants) /\ In(k, "tickets") /\ ~Rests(k)
    BY DEF PostureInv, Types, TasksTyped, TaskType, ListTickets, In, Rests
<1>2. UNCHANGED <<turns, airGapped, paused, Tables>> /\ UNCHANGED <<turns, airGapped, Tables>> /\ UNCHANGED ticket
    BY DEF ListTickets, Tables, ScanTables, TicketTables, fixed, postureTables
<1>3. paused' \subseteq Tenants
    BY <1>2 DEF PostureInv, Types, PostureTypeOK
<1>4. /\ "asleep" \notin Scanned \cup OnTicket /\ "asleep" \notin ForTenant /\ "tickets" \notin Scanned
      /\ "tickets" \notin Scanned \cup OnTicket /\ "tickets" \notin ForTenant /\ "ask" \in Places /\ "tickets" \in Places
    BY DEF Scanned, OnTicket, ForTenant, Places
<1>5. CASE todo = << >>
    <2>1. Asleep \in TaskType /\ Asleep.at = "asleep" /\ task' = [task EXCEPT ![k] = Asleep]
        BY <1>5, AsleepType DEF ListTickets
    <2>2. Moves(k, "tickets", "asleep", Asleep.tenant)
        BY <1>1, <2>1, BecomesFacts DEF PostureInv
    <2> QED
        BY <1>1, <1>2, <1>3, <1>4, <2>2, QuietStep
<1>6. CASE todo # << >>
    <2> DEFINE u == Head(todo)
               st == ticket[u]
               p == IF Unsettled(u) THEN "ask" ELSE "tickets"
               r == [old EXCEPT !.todo = Tail(todo), !.tenant = u, !.status = st, !.at = p]
    <2>1. Tail(todo) \in Seq(Tenants) /\ u \in Tenants
        BY <1>1, <1>6
    <2>2. st \in TicketStatuses /\ p \in Places
        BY <1>4, <2>1 DEF PostureInv, Types, PostureTypeOK
    <2>3. task' = [task EXCEPT ![k] = r]
        BY <1>1, <1>6 DEF ListTickets, PostureInv, Types, TasksTyped
    <2>4. (p = "ask" => Unsettled(u)) /\ p \in {"ask", "tickets"}
        OBVIOUS
    <2> HIDE DEF u, st, p
    <2>5. r \in TaskType /\ r.at = p /\ r.tenant = u /\ r.status = st
        BY <1>1, <2>1, <2>2 DEF TaskType
    <2> HIDE DEF r
    <2>6. Moves(k, "tickets", p, u) /\ task'[k] = r
        BY <1>1, <2>3, <2>5, BecomesFacts DEF PostureInv
    <2>7. CASE p = "tickets"
        BY <1>1, <1>2, <1>3, <1>4, <2>6, <2>7, QuietStep
    <2>8. CASE p = "ask"
        <3>1. Unsettled(u) /\ ticket[u] # "none"
            BY <2>4, <2>8 DEF Unsettled
        <3>2. remote[u] # "none"
            BY <2>1, <3>1 DEF PostureInv, RealInv, TicketIsReal
        <3>3. TurnTicket(k)'
            <4>1. task'[k].at = "ask" /\ task'[k].tenant = u /\ task'[k].status = ticket[u] /\ ticket' = ticket
                BY <1>2, <2>5, <2>6, <2>8 DEF st
            <4> QED
                BY <3>1, <4>1 DEF TurnTicket, In, Unsettled
        <3>4. task'[k].status \in TicketStatuses
            BY <2>2, <2>5, <2>6
        <3> QED
            BY <1>1, <1>2, <1>4, <2>1, <2>6, <2>8, <3>2, <3>3, <3>4, TicketQuiet
    <2> QED
        BY <2>4, <2>7, <2>8
<1> QED
    BY <1>5, <1>6

\* A task at a ticket.
LEMMA TicketFacts ==
    ASSUME Types, NEW k \in Tasks, task[k].at \in OnTicket
    PROVE  task[k] \in TaskType /\ task[k].tenant \in Tenants /\ ~Rests(k)
BY DEF Types, TasksTyped, ForTenant, Rests, OnTicket

\* The integration answers with another status, or nothing is to be done.
LEMMA AskStatusStep == ASSUME NEW k \in Tasks PROVE PostureInv /\ AskStatus(k) => PostureInv'
<1> SUFFICES ASSUME PostureInv, AskStatus(k) PROVE PostureInv'
    OBVIOUS
<1> DEFINE t == task[k].tenant
           st == remote[t]
<1>1. In(k, "ask") /\ task[k].at \in OnTicket /\ task[k].at = "ask"
    BY DEF AskStatus, In, OnTicket
<1>2. task[k] \in TaskType /\ t \in Tenants /\ ~Rests(k)
    BY <1>1, TicketFacts DEF PostureInv
<1>3. UNCHANGED <<turns, airGapped, paused, Tables>> /\ UNCHANGED <<turns, airGapped, Tables>> /\ UNCHANGED ticket
    BY DEF AskStatus, Tables, ScanTables, TicketTables, fixed, postureTables
<1>4. paused' \subseteq Tenants
    BY <1>3 DEF PostureInv, Types, PostureTypeOK
<1>5. /\ "tickets" \notin Scanned \cup OnTicket /\ "tickets" \notin ForTenant /\ "tickets" \in Places
      /\ "save" \in Places /\ "ask" \notin Scanned
    BY DEF Scanned, OnTicket, ForTenant, Places
<1>6. CASE Move(k, "tickets")
    <2>1. Moves(k, "ask", "tickets", t)
        BY <1>1, <1>5, <1>6, MoveFacts DEF PostureInv
    <2> QED
        BY <1>2, <1>3, <1>4, <1>5, <2>1, QuietStep
<1>7. CASE st # task[k].status /\ task' = [task EXCEPT ![k].at = "save", ![k].status = st]
    <2>1. st \in TicketStatuses /\ st # "none"
        BY <1>1, <1>2 DEF PostureInv, Types, PostureTypeOK, RealInv
    <2> DEFINE r == [task[k] EXCEPT !.at = "save", !.status = st]
    <2>2. task' = [task EXCEPT ![k] = r]
        BY <1>7 DEF PostureInv, Types, TasksTyped
    <2>3. r \in TaskType /\ r.at = "save" /\ r.tenant = t /\ r.status = st
        <3> HIDE DEF st
        <3> QED
            BY <1>2, <1>5, <2>1 DEF TaskType
    <2> HIDE DEF r
    <2>4. Moves(k, "ask", "save", t) /\ task'[k] = r
        <3>1. Types
            BY DEF PostureInv
        <3>2. Moves(k, "ask", r.at, r.tenant) /\ task'[k] = r
            BY <1>1, <2>2, <2>3, <3>1, BecomesFacts
        <3> QED
            BY <2>3, <3>2
    <2>5. turns => TurnTicket(k)'
        <3> SUFFICES ASSUME turns PROVE TurnTicket(k)'
            OBVIOUS
        <3>1. ticket[t] = task[k].status /\ Unsettled(t)
            BY <1>1 DEF PostureInv, ResolveInv, TurnTicket, In
        <3>2. task'[k].at = "save" /\ task'[k].tenant = t /\ task'[k].status = st /\ ticket' = ticket
            BY <1>3, <2>3, <2>4
        <3> QED
            BY <1>7, <3>1, <3>2 DEF TurnTicket, In, Unsettled
    <2>6. task'[k].status \in TicketStatuses
        BY <2>1, <2>3, <2>4
    <2> QED
        BY <1>2, <1>3, <1>5, <2>1, <2>4, <2>5, <2>6, TicketQuiet
<1> QED
    BY <1>6, <1>7 DEF AskStatus

\* The new status is stored; taking turns it is a new one.
LEMMA SaveStatusStep == ASSUME NEW k \in Tasks PROVE PostureInv /\ SaveStatus(k) => PostureInv'
<1> SUFFICES ASSUME PostureInv, SaveStatus(k) PROVE PostureInv'
    OBVIOUS
<1> DEFINE t == task[k].tenant
           s == task[k].status
           p == IF s = "resolved" THEN "resolved" ELSE "tickets"
           more == IF s = "resolved" /\ ticket[t] # s THEN 1 ELSE 0
<1>1. In(k, "save") /\ task[k].at \in OnTicket /\ task[k].at = "save" /\ p \in Places /\ Move(k, p)
    BY DEF SaveStatus, In, OnTicket, Places
<1>2. t \in Tenants /\ ~Rests(k) /\ s \in TicketStatuses /\ remote[t] # "none"
    <2>1. t \in Tenants /\ ~Rests(k)
        BY <1>1, TicketFacts DEF PostureInv
    <2> QED
        BY <1>1, <2>1 DEF PostureInv, Types, TasksTyped, RealInv
<1>3. Moves(k, "save", p, t) /\ Keeps(k)
    BY <1>1, MoveFacts DEF PostureInv
<1>4. /\ UNCHANGED <<turns, airGapped, paused, ScanTables, governance>>
      /\ UNCHANGED <<turns, remote, notices, outside, airGapped>>
      /\ ticket' = [ticket EXCEPT ![t] = s]
    BY DEF SaveStatus, fixed, ScanTables
<1>5. /\ resolutions' \in [Tenants -> Nat]
      /\ \A u \in Tenants : resolutions'[u] = resolutions[u] + IF u = t THEN more ELSE 0
    <2>1. resolutions' = [resolutions EXCEPT ![t] = IF s = "resolved" /\ ticket[t] # s THEN @ + 1 ELSE @]
        BY DEF SaveStatus
    <2>2. resolutions \in [Tenants -> Nat]
        BY DEF PostureInv, Types
    <2> HIDE DEF t, s
    <2> QED
        BY <1>2, <2>1, <2>2
<1>6. Silent({"posture_drop"}) /\ Silent({"slo_breach"})
    BY <1>4 DEF Silent
<1>7. /\ "save" \notin Scanned /\ p \notin Scanned /\ p \in {"resolved", "tickets"}
      /\ p \in ForTenant => t \in Tenants
    BY <1>2 DEF Scanned
<1> HIDE DEF p
<1>8. OneAwake' /\ BreachInv' /\ StoryInv'
    BY <1>2, <1>3, <1>4, <1>6, <1>7, ScansSide
<1>9. ticket' \in [Tenants -> TicketStatuses] /\ \A u \in Tenants : u # t => ticket'[u] = ticket[u]
    BY <1>2, <1>4 DEF PostureInv, Types, PostureTypeOK
<1>10. Types'
    <2>1. TasksTyped'
        <3>1. p \notin {"ask", "save"}
            BY <1>7
        <3> QED
            BY <1>3, <1>7, <3>1, TasksAfter DEF PostureInv
    <2>2. remote' \in [Tenants -> TicketStatuses] /\ notices' \in [Tenants -> Notices]
        BY <1>4 DEF PostureInv, Types, PostureTypeOK
    <2> QED
        BY <1>4, <1>5, <1>9, <2>1, <2>2, TypesAfter
<1>11. RealInv'
    <2>1. TicketIsReal'
        BY <1>2, <1>4, <1>9 DEF PostureInv, RealInv, TicketIsReal
    <2>2. \A m \in Tasks : task'[m].at \in {"ticket", "ask", "save"} => remote'[task'[m].tenant] # "none"
        BY <1>3, <1>4, <1>7 DEF PostureInv, RealInv, Moves
    <2> QED
        BY <2>1, <2>2 DEF RealInv
<1>12. ResolveInv'
    <2> SUFFICES ASSUME turns
                 PROVE  /\ \A m \in Tasks : TurnTicket(m)'
                        /\ \A u \in Tenants :
                              Fired(u, "remediation_resolved")' + (IF Resolving(u)' THEN 1 ELSE 0) = resolutions'[u]
        BY <1>4 DEF ResolveInv
    <2>1. /\ \A m \in Tasks \ {k} : TurnTicket(m)'
          /\ \A u \in Tenants : ~Resolving(u) /\ (Resolving(u)' <=> p = "resolved" /\ t = u)
        BY <1>2, <1>3, Alone
    <2>2. TurnTicket(k)'
        BY <1>3, <1>7 DEF TurnTicket, In, Moves
    <2>3. ticket[t] # s
        BY <1>1 DEF PostureInv, ResolveInv, TurnTicket, In
    <2>4. more = IF p = "resolved" THEN 1 ELSE 0
        BY <2>3 DEF p
    <2>5. ASSUME NEW u \in Tenants
          PROVE  Fired(u, "remediation_resolved")' + (IF Resolving(u)' THEN 1 ELSE 0) = resolutions'[u]
        <3>1. Fired(u, "remediation_resolved")' = Fired(u, "remediation_resolved")
            BY <1>4 DEF Fired
        <3>2. Fired(u, "remediation_resolved") + 0 = resolutions[u]
            BY <2>1 DEF PostureInv, ResolveInv
        <3>3. Fired(u, "remediation_resolved") \in Nat
            BY FiredNat DEF PostureInv, Counted
        <3> HIDE DEF more, t
        <3> QED
            BY <1>5, <2>1, <2>4, <3>1, <3>2, <3>3
    <2> QED
        BY <2>1, <2>2, <2>5
<1>13. AlertsStayInside'
    BY <1>4 DEF PostureInv, AlertsStayInside
<1> QED
    BY <1>8, <1>10, <1>11, <1>12, <1>13 DEF PostureInv

\* The resolution that was stored is alerted.
LEMMA AlertResolvedStep == ASSUME NEW k \in Tasks PROVE PostureInv /\ AlertResolved(k) => PostureInv'
<1> SUFFICES ASSUME PostureInv, AlertResolved(k) PROVE PostureInv'
    OBVIOUS
<1> DEFINE t == task[k].tenant
<1>1. In(k, "resolved") /\ task[k].at \in OnTicket /\ task[k].at = "resolved" /\ "tickets" \in Places /\ Move(k, "tickets")
    BY DEF AlertResolved, In, OnTicket, Places
<1>2. t \in Tenants /\ ~Rests(k)
    BY <1>1, TicketFacts DEF PostureInv
<1>3. Moves(k, "resolved", "tickets", t)
    BY <1>1, MoveFacts DEF PostureInv
<1>4. /\ UNCHANGED <<turns, airGapped, paused, ScanTables, governance>> /\ UNCHANGED <<ticket, remote, resolutions, turns>>
      /\ UNCHANGED airGapped /\ UNCHANGED ticket
    BY DEF AlertResolved, fixed, ScanTables
<1>5. Fire(t, "remediation_resolved") /\ "remediation_resolved" \in Kinds
    BY DEF AlertResolved, Kinds
<1>6. Silent({"posture_drop"}) /\ Silent({"slo_breach"})
    <2>1. /\ {"slo_breach"} \in SUBSET (Kinds \ {"remediation_resolved"})
          /\ {"posture_drop"} \in SUBSET (Kinds \ {"remediation_resolved"})
        BY DEF Kinds
    <2> QED
        BY <1>2, <1>4, <1>5, <2>1, FireSilent DEF PostureInv
<1>7. /\ notices' \in [Tenants -> Notices] /\ AlertsStayInside'
      /\ \A u \in Tenants :
            Fired(u, "remediation_resolved")' = Fired(u, "remediation_resolved") + IF u = t THEN 1 ELSE 0
    <2> HIDE DEF t
    <2> QED
        BY <1>2, <1>4, <1>5, FireFacts DEF PostureInv, Fired, Counted
<1>8. "resolved" \notin Scanned /\ "tickets" \notin Scanned /\ "tickets" \notin ForTenant
    BY DEF Scanned, ForTenant, OnTicket
<1>9. OneAwake' /\ BreachInv' /\ StoryInv'
    BY <1>2, <1>3, <1>4, <1>6, <1>8, ScansSide
<1>10. Types'
    <2>1. TasksTyped'
        BY <1>3, <1>8, TasksAfter DEF PostureInv
    <2>2. /\ ticket' \in [Tenants -> TicketStatuses] /\ remote' \in [Tenants -> TicketStatuses]
          /\ resolutions' \in [Tenants -> Nat]
        BY <1>4 DEF PostureInv, Types, PostureTypeOK
    <2> QED
        BY <1>4, <1>7, <2>1, <2>2, TypesAfter
<1>11. RealInv'
    BY <1>3, <1>4, RealAfter DEF PostureInv
<1>12. ResolveInv'
    <2> SUFFICES ASSUME turns
                 PROVE  /\ \A m \in Tasks : TurnTicket(m)'
                        /\ \A u \in Tenants :
                              Fired(u, "remediation_resolved")' + (IF Resolving(u)' THEN 1 ELSE 0) = resolutions'[u]
        BY <1>4 DEF ResolveInv
    <2>1. /\ \A m \in Tasks \ {k} : TurnTicket(m)'
          /\ \A u \in Tenants : (Resolving(u) <=> t = u) /\ ~Resolving(u)'
        BY <1>2, <1>3, Alone
    <2>2. TurnTicket(k)'
        BY <1>3 DEF TurnTicket, In, Moves
    <2>3. ASSUME NEW u \in Tenants
          PROVE  Fired(u, "remediation_resolved")' + (IF Resolving(u)' THEN 1 ELSE 0) = resolutions'[u]
        <3>1. Fired(u, "remediation_resolved") + (IF Resolving(u) THEN 1 ELSE 0) = resolutions[u]
            BY DEF PostureInv, ResolveInv
        <3>2. Fired(u, "remediation_resolved") \in Nat
            BY FiredNat DEF PostureInv, Counted
        <3> HIDE DEF t
        <3> QED
            BY <1>4, <1>7, <2>1, <3>1, <3>2
    <2> QED
        BY <2>1, <2>2, <2>3
<1> QED
    BY <1>7, <1>9, <1>10, <1>11, <1>12 DEF PostureInv

-----------------------------------------------------------------------------
(* The theorems. *)

LEMMA PostureStarts == PostureInit => PostureInv
<1> SUFFICES ASSUME PostureInit PROVE PostureInv
    OBVIOUS
<1> DEFINE new == [Asleep EXCEPT !.at = "new"]
<1>1. new \in TaskType /\ new.at = "new" /\ Asleep \in TaskType /\ Asleep.at = "asleep"
    <2>1. "new" \in Places
        BY DEF Places
    <2> QED
        BY <2>1, AsleepType DEF TaskType
<1> HIDE DEF new
<1>2. task = [k \in Tasks |-> IF k = "startup" THEN new ELSE Asleep]
    BY DEF PostureInit, new
<1>3. task \in [Tasks -> TaskType] /\ \A k \in Tasks : task[k].at \in {"asleep", "new"}
    BY <1>1, <1>2
<1>4. TasksTyped
    BY <1>3 DEF TasksTyped, ForTenant, Scanned, OnTicket
<1>5. notices \in [Tenants -> Notices] /\ \A t \in Tenants, q \in Counted : Fired(t, q) = 0
    <2>1. [fired |-> [kind \in Kinds |-> 0], newest |-> "none"] \in Notices
        BY DEF Notices
    <2> QED
        BY <2>1 DEF PostureInit, Fired, Counted, Kinds
<1>6. Types
    <2>1. PostureTypeOK
        BY PostureAssumption DEF PostureInit, PostureTypeOK, TicketStatuses
    <2>2. turns \in BOOLEAN /\ airGapped \in BOOLEAN /\ cache \in [tenant : Tenants \cup {"none"}, score : Nat]
        BY PostureAssumption DEF PostureInit, NoScore
    <2>3. slo \in [Tenants -> Seq(SloRow)] /\ resolutions \in [Tenants -> Nat]
        BY DEF PostureInit
    <2> QED
        BY <1>4, <1>5, <2>1, <2>2, <2>3 DEF Types
<1>7. OneAwake
    BY <1>3 DEF OneAwake, Rests
<1>8. BreachInv
    <2> SUFFICES ASSUME NEW t \in Tenants
                 PROVE  Cardinality(Failing(t)) = Fired(t, "slo_breach") + Cardinality(Breaching(t))
        BY DEF BreachInv
    <2>1. Failing(t) = {}
        BY DEF PostureInit, Failing, FailingOf
    <2>2. Breaching(t) = {}
        BY <1>3 DEF Breaching, In
    <2>3. Fired(t, "slo_breach") = 0
        BY <1>5 DEF Counted
    <2> QED
        BY <2>1, <2>2, <2>3, FS_EmptySet
<1>9. RealInv
    BY <1>3 DEF PostureInit, RealInv, TicketIsReal
<1>10. ResolveInv
    <2>1. \A k \in Tasks : TurnTicket(k)
        BY <1>3 DEF TurnTicket, In
    <2>2. \A t \in Tenants : ~Resolving(t) /\ resolutions[t] = 0 /\ Fired(t, "remediation_resolved") = 0
        BY <1>3, <1>5 DEF Resolving, In, PostureInit, Counted
    <2> QED
        BY <2>1, <2>2 DEF ResolveInv
<1>11. StoryInv
    <2>1. \A k \in Tasks : TurnScan(k)
        BY <1>3 DEF TurnScan, In
    <2>2. ASSUME NEW t \in Tenants PROVE TurnTenant(t)
        <3>1. ~AuditDue(t) /\ ~DropDue(t) /\ Fired(t, "posture_drop") = 0
            BY <1>3, <1>5 DEF AuditDue, DropDue, In, Counted
        <3>2. history[t] = << >> /\ changed[t] = << >>
            BY DEF PostureInit
        <3>3. Drops(t) = {} /\ Steps(t) = {}
            BY <3>2 DEF Drops, DropsOf, Steps, Changes
        <3>4. Audited(t, {})
            BY <3>2, FS_EmptySet DEF Audited, Tells
        <3> QED
            BY <3>1, <3>3, <3>4, FS_EmptySet DEF TurnTenant
    <2>3. HistoryHasNoRepeats /\ SloJudgesOwnScan
        BY DEF PostureInit, HistoryHasNoRepeats, SloJudgesOwnScan
    <2> QED
        BY <2>1, <2>2, <2>3 DEF StoryInv
<1>12. AlertsStayInside
    BY DEF PostureInit, AlertsStayInside
<1> QED
    BY <1>6, <1>7, <1>8, <1>9, <1>10, <1>11, <1>12 DEF PostureInv

LEMMA PostureStutters == PostureInv /\ UNCHANGED postureVars => PostureInv'
<1> SUFFICES ASSUME PostureInv, UNCHANGED postureVars PROVE PostureInv'
    OBVIOUS
<1>1. /\ UNCHANGED <<turns, airGapped, paused, cache, history, slo, governance, notices, ticket, changed>>
      /\ UNCHANGED <<resolutions, outside, task, remote>>
    BY DEF postureVars, fixed, postureTables
<1>2. Types' /\ OneAwake'
    BY <1>1 DEF PostureInv, Types, PostureTypeOK, TasksTyped, OneAwake, Rests
<1>3. BreachInv' /\ RealInv'
    BY <1>1 DEF PostureInv, BreachInv, Failing, Breaching, In, Fired, RealInv, TicketIsReal
<1>4. ResolveInv'
    BY <1>1 DEF PostureInv, ResolveInv, TurnTicket, Resolving, Unsettled, In, Fired
<1>5. StoryInv'
    BY <1>1 DEF PostureInv, StoryInv, TurnTenant, TurnScan, LastOf, Skipped, In, Steps, AuditDue, DropDue, Drops, Audited,
                Fired, HistoryHasNoRepeats, SloJudgesOwnScan, IsChange, IsDrop
<1>6. AlertsStayInside'
    BY <1>1 DEF PostureInv, AlertsStayInside
<1> QED
    BY <1>2, <1>3, <1>4, <1>5, <1>6 DEF PostureInv

LEMMA PostureSteps == PostureInv /\ [PostureNext]_postureVars => PostureInv'
<1> SUFFICES ASSUME PostureInv, PostureNext PROVE PostureInv'
    BY PostureStutters
<1>1. CASE SchedulerTicks \/ SchedulerNext \/ StartupScan(Default) \/ \E t \in Own : ScheduleTicks(t)
    BY <1>1, SchedulerTicksStep, SchedulerNextStep, StartupScanStep, ScheduleTicksStep
<1>2. CASE DeliverEvidence \/ ReportTest \/ RecordTicket
    BY <1>2, DeliverEvidenceStep, ReportTestStep, RecordTicketStep
<1>3. CASE \E t \in Tenants : AdminRequest(t)
    BY <1>3, TriggerScanStep, PutSettingsStep, TestAlertStep, RemediateStep, SyncRemediationsStep DEF AdminRequest
<1>4. CASE \E k \in Tasks : AfterScanStep(k)
    BY <1>4, ScanTargetsStep, WriteCacheStep, ComparePostureStep, InsertPostureStep, AuditChangeStep, AlertDropStep,
       CheckSloStep, AlertBreachStep, RecordGovernanceStep, AlertFindingsStep DEF AfterScanStep
<1>5. CASE \E k \in Tasks : TicketStep(k)
    BY <1>5, ListTicketsStep, AskStatusStep, SaveStatusStep, AlertResolvedStep DEF TicketStep
<1>6. CASE \E t \in Tenants, s \in Terminal \cup {"open"} : TicketMoves(t, s) \/ \E same \in BOOLEAN : Webhook(t, s, same)
    BY <1>6, TicketMovesStep, WebhookStep
<1> QED
    BY <1>1, <1>2, <1>3, <1>4, <1>5, <1>6 DEF PostureNext

\* The invariant, of every behaviour.
LEMMA PostureInvHolds == PostureSpec => []PostureInv
<1> QED
    BY PostureStarts, PostureSteps, PTL DEF PostureSpec

\* At rest nothing is due.
LEMMA AtRest ==
    ASSUME PostureInv, turns, Resting, NEW t \in Tenants
    PROVE  ~AuditDue(t) /\ ~DropDue(t) /\ ~Resolving(t)
BY DEF Resting, AuditDue, DropDue, Resolving, In

LEMMA InvTellsPosture == PostureInv => PostureIsTold
<1> SUFFICES ASSUME PostureInv PROVE PostureIsTold
    OBVIOUS
<1>1. PostureTypeOK
    BY DEF PostureInv, Types
<1>2. HistoryHasNoRepeats /\ SloJudgesOwnScan
    BY DEF PostureInv, StoryInv, HistoryHasNoRepeats, SloJudgesOwnScan
<1>3. ASSUME turns, Resting, NEW t \in Tenants PROVE Tells(changed[t], history[t], Changes(history[t]))
    BY <1>3, AtRest DEF PostureInv, StoryInv, TurnTenant, Audited, Steps
<1>4. HistoryIsAudited
    BY <1>3 DEF HistoryIsAudited, Tells
<1>5. ASSUME turns, Resting, NEW t \in Tenants
      PROVE  Fired(t, "posture_drop")
                = Cardinality({n \in 2..Len(history[t]) : history[t][n - 1].score >= history[t][n].score + Drop})
    <2>1. Fired(t, "posture_drop") + 0 = Cardinality(DropsOf(history[t]))
        BY <1>5, AtRest DEF PostureInv, StoryInv, TurnTenant, Drops
    <2>2. Fired(t, "posture_drop") \in Nat
        BY FiredNat DEF PostureInv, Counted
    <2> QED
        BY <2>1, <2>2 DEF DropsOf
<1>6. DropsAreAlerted
    BY <1>5 DEF DropsAreAlerted
<1>7. BreachesAreAlerted
    BY DEF PostureInv, BreachInv, BreachesAreAlerted, Failing, FailingOf, Breaching
<1> QED
    BY <1>1, <1>2, <1>4, <1>6, <1>7 DEF PostureIsTold

\* The five records of a scan tell one story (recompute_and_snapshot,
\* record_posture, check_and_alert, fire): for any tenants that share the
\* posture cache, each breach of the SLO is alerted once however the tasks
\* interleave; and where they take turns the history holds no repeats, the
\* audit log tells its changes of score in order and the alerts its drops, and each verdict judges the
\* scan it follows.
THEOREM PostureIsToldHolds == PostureSpec => []PostureIsTold
<1> QED
    BY PostureInvHolds, InvTellsPosture, PTL

LEMMA InvKeepsTickets == PostureInv => TicketsAreTrue
<1> SUFFICES ASSUME PostureInv PROVE TicketsAreTrue
    OBVIOUS
<1>1. ASSUME turns, Resting, NEW t \in Tenants PROVE Fired(t, "remediation_resolved") = resolutions[t]
    <2>1. Fired(t, "remediation_resolved") + 0 = resolutions[t]
        BY <1>1, AtRest DEF PostureInv, ResolveInv
    <2>2. Fired(t, "remediation_resolved") \in Nat
        BY FiredNat DEF PostureInv, Counted
    <2> QED
        BY <2>1, <2>2
<1>2. ResolutionAlertedOnce
    BY <1>1 DEF ResolutionAlertedOnce
<1> QED
    BY <1>2 DEF PostureInv, RealInv, TicketsAreTrue

\* What the gateway says of its tickets is so (remediate, sync_ticket_status,
\* update_ticket, fire): a stored ticket is one the integration has, whichever
\* task stored it last; each resolution is alerted once where tasks take turns;
\* and an air-gapped gateway delivers no alert and no evidence.
THEOREM TicketsAreTrueHolds == PostureSpec => []TicketsAreTrue
<1> QED
    BY PostureInvHolds, InvKeepsTickets, PTL

\* A stored ticket changes only where a status or a new ticket is stored.
LEMMA TicketWriters ==
    ASSUME PostureInv, [PostureNext]_postureVars
    PROVE  UNCHANGED ticket \/ RecordTicket \/ \E k \in Tasks : SaveStatus(k)
<1> SUFFICES ASSUME PostureNext, ~RecordTicket, \A k \in Tasks : ~SaveStatus(k) PROVE UNCHANGED ticket
    BY DEF postureVars, postureTables
<1>1. CASE SchedulerTicks \/ SchedulerNext \/ StartupScan(Default) \/ \E t \in Own : ScheduleTicks(t)
    BY <1>1 DEF SchedulerTicks, SchedulerNext, StartupScan, ScheduleTicks, postureTables
<1>2. CASE DeliverEvidence \/ ReportTest
    BY <1>2 DEF DeliverEvidence, ReportTest, postureTables
<1>3. CASE \E t \in Tenants : AdminRequest(t)
    BY <1>3 DEF AdminRequest, TriggerScan, PutSettings, TestAlert, Remediate, RemediatePath, SyncRemediations, postureTables
<1>4. CASE \E k \in Tasks : AfterScanStep(k)
    BY <1>4 DEF AfterScanStep, ScanTargets, WriteCache, ComparePosture, InsertPosture, AuditChange, AlertDrop, CheckSlo,
                AlertBreach, RecordGovernance, AlertFindings, postureTables
<1>5. CASE \E k \in Tasks : TicketStep(k)
    BY <1>5 DEF TicketStep, ListTickets, AskStatus, AlertResolved, postureTables
<1>6. CASE \E t \in Tenants, s \in Terminal \cup {"open"} : TicketMoves(t, s) \/ \E same \in BOOLEAN : Webhook(t, s, same)
    BY <1>6 DEF TicketMoves, Webhook, postureTables
<1> QED
    BY <1>1, <1>2, <1>3, <1>4, <1>5, <1>6 DEF PostureNext

LEMMA TerminalStep == PostureInv /\ [PostureNext]_postureVars => TerminalIsFinal
<1> SUFFICES ASSUME PostureInv, [PostureNext]_postureVars, turns, NEW t \in Tenants, ticket[t] \in Terminal
             PROVE  ticket'[t] = ticket[t] \/ In("webhook", "save")
    BY DEF TerminalIsFinal
<1>1. CASE UNCHANGED ticket
    BY <1>1
<1>2. CASE RecordTicket
    <2>1. In("request", "ticket") /\ "request" \in Tasks /\ ticket' = [ticket EXCEPT ![task["request"].tenant] = "open"]
        BY <1>2 DEF RecordTicket, Tasks
    <2>2. ticket[task["request"].tenant] = "none" /\ ticket \in [Tenants -> TicketStatuses]
        BY <2>1 DEF PostureInv, ResolveInv, TurnTicket, Types, PostureTypeOK
    <2>3. task["request"].tenant # t
        BY <2>2 DEF Terminal
    <2> QED
        BY <2>1, <2>2, <2>3
<1>3. ASSUME NEW k \in Tasks, SaveStatus(k) PROVE ticket'[t] = ticket[t] \/ In("webhook", "save")
    <2>1. In(k, "save") /\ ticket' = [ticket EXCEPT ![task[k].tenant] = task[k].status]
        BY <1>3 DEF SaveStatus
    <2>2. CASE k = "webhook"
        BY <2>1, <2>2
    <2>3. CASE k # "webhook"
        <3>1. Unsettled(task[k].tenant) /\ ticket \in [Tenants -> TicketStatuses]
            BY <2>1, <2>3 DEF PostureInv, ResolveInv, TurnTicket, Types, PostureTypeOK
        <3>2. task[k].tenant # t
            BY <3>1 DEF Unsettled
        <3> QED
            BY <2>1, <3>1, <3>2
    <2> QED
        BY <2>2, <2>3
<1> QED
    BY <1>1, <1>2, <1>3, TicketWriters

\* Taking turns, a ticket that is resolved or closed stays so, unless a webhook
\* says otherwise (sync_ticket_status asks about unsettled tickets only, and
\* remediate opens a ticket only where none is).
THEOREM TerminalIsFinalHolds == PostureSpec => [][TerminalIsFinal]_postureVars
<1> QED
    BY PostureInvHolds, TerminalStep, PTL DEF PostureSpec

=============================================================================
