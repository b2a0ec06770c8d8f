---------------------------- MODULE RateLimiter ----------------------------
(***************************************************************************)
(* The per-client token buckets (ratelimit.rs).  A bucket refills lazily,  *)
(* at the next check of its key; a table that has grown large is pruned at *)
(* a check.  A thread reads the clock and checks later: the two steps of   *)
(* another thread may come in between.                                     *)
(*                                                                         *)
(* Tokens are counted in units: a request costs Cost, and a class gains    *)
(* Rate of them a tick.  The metrics counter is left out.                  *)
(***************************************************************************)
EXTENDS Integers, FiniteSets, FiniteSetsExt

CONSTANTS
    Threads,        \* requests in flight
    Incoming,       \* what may come: a path, and the addresses in the headers and of the peer
    Cost,           \* units a request takes
    Burst,          \* class -> units a bucket holds
    Rate,           \* class -> units a tick adds
    MaxKeys,        \* keys in the table before it is pruned
    TrustForwarded, \* whether X-Forwarded-For names the client
    MaxClock        \* bound: ticks

Classes == {"api", "login"}

ASSUME LimiterAssumption ==
    /\ Cost \in Nat \ {0} /\ MaxKeys \in Nat /\ MaxClock \in Nat /\ TrustForwarded \in BOOLEAN
    /\ \A c \in Classes : Burst[c] \in Nat /\ Burst[c] >= Cost /\ Rate[c] \in Nat \ {0}

VARIABLES
    clock,          \* the time
    buckets,        \* key -> tokens and the time of the last check
    flight,         \* thread -> the key and the time it read, or idle
    granted,        \* history: key -> the requests let through, by the time they came
    seen,           \* history: key -> its bucket after the last check, never pruned
    gift,           \* history: key -> units it got beyond its rate
    overtaken,      \* history: a request was checked before one that had read the clock earlier
    denial          \* history: the last request refused, and whether it came out of order

limiterVars == <<clock, buckets, flight, granted, seen, gift, overtaken, denial>>
history == <<granted, seen, gift, overtaken, denial>>

Idle == << >>

\* classify: signing in has a bucket of its own; health checks have none.
classify(path) == IF path \in {"login", "oidc"} THEN "login" ELSE "api"

\* The first hop of X-Forwarded-For, then X-Real-IP, then the peer, then one key
\* for all that have none.
client_ip(req) ==
    IF TrustForwarded /\ req.forwarded # "none" THEN req.forwarded
    ELSE IF TrustForwarded /\ req.real # "none" THEN req.real
    ELSE IF req.peer # "none" THEN req.peer ELSE "unknown"

KeyOf(req) == <<classify(req.path), client_ip(req)>>
Keys == {KeyOf(req) : req \in Incoming}

Smaller(a, b) == IF a < b THEN a ELSE b
Refilled(c, tokens, elapsed) == Smaller(tokens + elapsed * Rate[c], Burst[c])

LimiterInit ==
    /\ clock = 0 /\ buckets = << >> /\ flight = [t \in Threads |-> Idle]
    /\ granted = [k \in Keys |-> [n \in 0..MaxClock |-> 0]]
    /\ seen = << >> /\ gift = [k \in Keys |-> 0] /\ overtaken = FALSE /\ denial = Idle

\* rate_limit_layer: the class, the client and the time of a request.
Arrive(t) ==
    /\ flight[t] = Idle
    /\ \E req \in Incoming : flight' = [flight EXCEPT ![t] = [key |-> KeyOf(req), now |-> clock]]
    /\ UNCHANGED <<clock, buckets, history>>

\* duration_since: never negative.
Elapsed(now, last) == IF now > last THEN now - last ELSE 0

\* Mutant: buckets are forgotten when they are half full.
MutKept(k, now) == IF Cardinality(DOMAIN buckets) <= MaxKeys THEN DOMAIN buckets
    ELSE {j \in DOMAIN buckets : 2 * Elapsed(now, buckets[j].last) * Rate[k[1]] < Burst[k[1]]}

\* The keys a check of k keeps: past the ceiling, the ones that were checked more
\* recently than k's own class takes to fill up.
Kept(k, now) == IF Cardinality(DOMAIN buckets) <= MaxKeys THEN DOMAIN buckets
    ELSE {j \in DOMAIN buckets : Elapsed(now, buckets[j].last) * Rate[k[1]] < Burst[k[1]]}

BucketAfter(b, full, allowed, now) == [tokens |-> IF allowed THEN full - Cost ELSE full, last |-> now]

\* What a check of k at `now' that finds `full' gives the key beyond its rate: a
\* bucket that was forgotten before it was full comes back full, and one whose
\* time is set back is refilled for the same stretch again.
Gift(k, full, now) ==
    IF k \notin DOMAIN seen THEN 0
    ELSE full - Refilled(k[1], seen[k].tokens, Elapsed(now, seen[k].last)) + Elapsed(seen[k].last, now) * Rate[k[1]]

\* check_at, and what the layer does with its answer.
Check(t) ==
    /\ flight[t] # Idle
    /\ LET k == flight[t].key
           now == flight[t].now
           kept == Kept(k, now)
           b == IF k \in kept THEN buckets[k] ELSE [tokens |-> Burst[k[1]], last |-> now]
           full == Refilled(k[1], b.tokens, Elapsed(now, b.last))
           allowed == full >= Cost
       IN  /\ buckets' = [j \in kept \cup {k} |-> IF j = k THEN BucketAfter(b, full, allowed, now) ELSE buckets[j]]
           /\ granted' = [granted EXCEPT ![k][now] = IF allowed THEN @ + 1 ELSE @]
           /\ seen' = [j \in DOMAIN seen \cup {k} |-> IF j = k THEN buckets'[k] ELSE seen[j]]
           /\ gift' = [gift EXCEPT ![k] = @ + Gift(k, full, now)]
           /\ overtaken' = (overtaken \/ \E u \in Threads : flight[u] # Idle /\ flight[u].now < now)
           /\ denial' = IF allowed THEN denial ELSE [key |-> k, now |-> now, late |-> now < b.last]
    /\ flight' = [flight EXCEPT ![t] = Idle]
    /\ UNCHANGED clock

Tick ==
    /\ clock < MaxClock /\ clock' = clock + 1
    /\ UNCHANGED <<buckets, flight, history>>

LimiterNext == Tick \/ \E t \in Threads : Arrive(t) \/ Check(t)
LimiterSpec == LimiterInit /\ [][LimiterNext]_limiterVars

-----------------------------------------------------------------------------
\* The requests of a key let through between two times.
Passed(k, a, b) == MapThenSumSet(LAMBDA n : granted[k][n], a..b)
Budget(k, a, b) == Burst[k[1]] + (b - a) * Rate[k[1]]

\* In no stretch of time does a client get more requests through than a burst and
\* the steady rate allow, but for what it was given: buckets refill only when they
\* are looked at, threads check in another order than they read the clock, and a
\* full table forgets the buckets that were idle for as long as the class being
\* checked takes to fill up (check_at).
WithinBudget ==
    \A k \in Keys : \A a \in 0..clock, b \in 0..clock :
        a <= b => Passed(k, a, b) * Cost <= Budget(k, a, b) + gift[k]

\* Without threads that overtake each other a key is given something only if its
\* class fills up slower than the other one: a full table forgets nothing else
\* before it is full.
OnlySlowBucketsAreForgotten ==
    ~overtaken => \A k \in Keys : gift[k] > 0 => \E c \in Classes : Burst[c] * Rate[k[1]] < Burst[k[1]] * Rate[c]

\* And a request is only refused when letting it through would have passed that
\* bound, unless a request that read the clock later was checked before it: the
\* limiter is otherwise never harsher than its configuration.
DenialIsEarned ==
    denial # Idle /\ ~denial.late => \E a \in 0..denial.now :
        (Passed(denial.key, a, denial.now) + 1) * Cost > Budget(denial.key, a, denial.now)

\* The limiter is neither lax nor harsh, but for what a full table forgets and what
\* threads that overtake each other are given or refused.
BudgetIsExact == WithinBudget /\ OnlySlowBucketsAreForgotten /\ DenialIsEarned
=============================================================================
