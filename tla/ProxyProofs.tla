---------------------------- MODULE ProxyProofs ----------------------------
(***************************************************************************)
(* Proofs about ProxyPipeline, for any finite set of concurrent requests,  *)
(* either response path, scanning on or off, and streams of any length,    *)
(* and first about Resilience, the breaker and the retry loops inside it,  *)
(* for any threshold, cooldown and number of retries.                      *)
(***************************************************************************)
EXTENDS ProxyPipeline, FiniteSetTheorems, TLAPS

-----------------------------------------------------------------------------
(* The breaker and the calls by themselves. *)

USE ResilienceAssumption

\* The breaker's two outcomes keep its part of the type invariant.
LEMMA BreakerType ==
    ASSUME ResilienceTypeOK, RecordFailure \/ RecordSuccess \/ Admitted
    PROVE  /\ circuit' \in {"Closed", "Open", "HalfOpen"}
           /\ failures' \in 0..Threshold
           /\ left' \in 0..Cooldown /\ cooling' \in 0..Cooldown
BY DEF ResilienceTypeOK, RecordFailure, RecordSuccess, Admitted

LEMMA TypeInductive ==
    ASSUME ResilienceTypeOK, [ResilienceNext]_resilienceVars
    PROVE  ResilienceTypeOK'
<1>1. ASSUME NEW r \in Calls, Allow(r) PROVE ResilienceTypeOK'
    BY <1>1, BreakerType DEF Allow, ResilienceTypeOK
<1>2. ASSUME NEW r \in Calls, Answer(r) PROVE ResilienceTypeOK'
    BY <1>2, BreakerType DEF Answer, ResilienceTypeOK, Reaches, Finish
<1>3. ASSUME NEW r \in Calls, ServerError(r) PROVE ResilienceTypeOK'
    BY <1>3, BreakerType DEF ServerError, ResilienceTypeOK, Reaches, Finish
<1>4. ASSUME NEW r \in Calls, NEW error \in Errors, TransportError(r, error)
      PROVE  ResilienceTypeOK'
    <2>1. reached' \in [Calls -> Nat]
        BY <1>4 DEF TransportError, ResilienceTypeOK, Reaches
    <2>2. CASE MayRetry(r, error) /\ UNCHANGED breakerVars
                 /\ attempt' = [attempt EXCEPT ![r] = @ + 1]
                 /\ call' = [call EXCEPT ![r] = "backoff"]
        <3>1. attempt[r] < MaxRetries
            BY <2>2 DEF MayRetry
        <3>2. attempt' \in [Calls -> 0..MaxRetries]
            BY <2>2, <3>1 DEF ResilienceTypeOK
        <3> QED
            BY <1>4, <2>1, <2>2, <3>2 DEF TransportError, ResilienceTypeOK, breakerVars
    <2>3. CASE RecordFailure /\ Finish(r) /\ UNCHANGED attempt
        BY <1>4, <2>1, <2>3, BreakerType DEF TransportError, ResilienceTypeOK, Finish
    <2> QED
        BY <1>4, <2>2, <2>3 DEF TransportError
<1>5. ASSUME NEW r \in Calls, Retry(r) \/ Abandon(r) PROVE ResilienceTypeOK'
    BY <1>5 DEF Retry, Abandon, Finish, ResilienceTypeOK, breakerVars
<1>6. CASE Tick
    BY <1>6 DEF Tick, ResilienceTypeOK, callVars
<1>7. CASE UpstreamChanges
    BY <1>7 DEF UpstreamChanges, ResilienceTypeOK, callVars, breakerVars
<1>8. CASE UNCHANGED resilienceVars
    BY <1>8 DEF ResilienceTypeOK, resilienceVars, callVars, breakerVars
<1> QED
    BY <1>1, <1>2, <1>3, <1>4, <1>5, <1>6, <1>7, <1>8 DEF ResilienceNext, Outcome

\* The breaker's state is well typed and no call is retried more than
\* max_retries times.
THEOREM ResilienceTypeCorrect == ResilienceSpec => []ResilienceTypeOK
<1>1. ResilienceInit => ResilienceTypeOK
    BY DEF ResilienceInit, ResilienceTypeOK
<1> QED
    BY <1>1, TypeInductive, PTL DEF ResilienceSpec

LEMMA TrippedInductive ==
    ASSUME ResilienceTypeOK, TrippedWhenDown, [ResilienceNext]_resilienceVars
    PROVE  TrippedWhenDown'
<1>1. CASE RecordFailure
    BY <1>1 DEF RecordFailure, Trips, TrippedWhenDown, ResilienceTypeOK
<1>2. CASE RecordSuccess
    BY <1>2 DEF RecordSuccess, TrippedWhenDown
<1>3. CASE Admits /\ Admitted
    BY <1>3 DEF Admits, Admitted, TrippedWhenDown, ResilienceTypeOK
<1>4. CASE Tick
    BY <1>4 DEF Tick, TrippedWhenDown, ResilienceTypeOK
<1>5. CASE UNCHANGED breakerVars
    BY <1>5 DEF breakerVars, TrippedWhenDown
<1> QED
    BY <1>1, <1>2, <1>3, <1>4, <1>5 DEF ResilienceNext, Outcome, Allow, Answer,
       ServerError, TransportError, Retry, Abandon, UpstreamChanges, resilienceVars

\* Whatever the order in which concurrent calls report, a threshold of failures
\* in a row leaves the circuit tripped, and only an open circuit cools down.
THEOREM TrippedWhenDownHolds == ResilienceSpec => []TrippedWhenDown
<1>1. ResilienceInit => TrippedWhenDown
    BY DEF ResilienceInit, TrippedWhenDown
<1> QED
    BY <1>1, TrippedInductive, ResilienceTypeCorrect, PTL DEF ResilienceSpec

LEMMA TriedInductive ==
    ASSUME ResilienceTypeOK, TriedAtMostOnce, [ResilienceNext]_resilienceVars
    PROVE  TriedAtMostOnce'
<1> SUFFICES ASSUME ~RetryOnTimeout
             PROVE  \A q \in Calls : reached'[q] <= (IF call'[q] = "idle" THEN 1 ELSE 0)
    BY DEF TriedAtMostOnce
<1> USE DEF TriedAtMostOnce
<1>1. ASSUME NEW r \in Calls, Allow(r)
      PROVE  \A q \in Calls : reached'[q] <= (IF call'[q] = "idle" THEN 1 ELSE 0)
    BY <1>1 DEF Allow, ResilienceTypeOK
<1>2. ASSUME NEW r \in Calls, Answer(r) \/ ServerError(r)
      PROVE  \A q \in Calls : reached'[q] <= (IF call'[q] = "idle" THEN 1 ELSE 0)
    BY <1>2 DEF Answer, ServerError, Reaches, Finish, ResilienceTypeOK
<1>3. ASSUME NEW r \in Calls, NEW error \in Errors, TransportError(r, error)
      PROVE  \A q \in Calls : reached'[q] <= (IF call'[q] = "idle" THEN 1 ELSE 0)
    <2>1. call[r] = "sending" /\ reached[r] <= 0
        BY <1>3 DEF TransportError, ResilienceTypeOK
    <2>2. CASE MayRetry(r, error) /\ call' = [call EXCEPT ![r] = "backoff"]
        <3>1. error = "connect"
            BY <2>2 DEF MayRetry, Retryable
        <3>2. reached' = reached
            BY <1>3, <3>1 DEF TransportError
        <3> QED
            BY <2>1, <2>2, <3>2 DEF ResilienceTypeOK
    <2>3. CASE Finish(r)
        <3>1. reached' = reached \/ reached' = [reached EXCEPT ![r] = @ + 1]
            BY <1>3 DEF TransportError, Reaches
        <3> QED
            BY <2>1, <2>3, <3>1 DEF Finish, ResilienceTypeOK
    <2> QED
        BY <1>3, <2>2, <2>3 DEF TransportError
<1>4. ASSUME NEW r \in Calls, Retry(r) \/ Abandon(r)
      PROVE  \A q \in Calls : reached'[q] <= (IF call'[q] = "idle" THEN 1 ELSE 0)
    BY <1>4 DEF Retry, Abandon, Finish, ResilienceTypeOK
<1>5. CASE UNCHANGED callVars
    BY <1>5 DEF callVars
<1> QED
    BY <1>1, <1>2, <1>3, <1>4, <1>5 DEF ResilienceNext, Outcome, Tick,
       UpstreamChanges, resilienceVars

\* Unless retry_on_timeout is set, no call reaches the upstream twice, for any
\* number of retries.
THEOREM NeverDuplicatedHolds == ResilienceSpec => []NeverDuplicated
<1>1. ResilienceInit => TriedAtMostOnce
    <2> SUFFICES ASSUME ResilienceInit, NEW r \in Calls
                 PROVE  reached[r] <= (IF call[r] = "idle" THEN 1 ELSE 0)
        BY DEF TriedAtMostOnce
    <2>1. reached[r] = 0
        BY DEF ResilienceInit
    <2> QED
        BY <2>1
<1>2. ResilienceTypeOK /\ TriedAtMostOnce => NeverDuplicated
    <2> SUFFICES ASSUME ResilienceTypeOK, TriedAtMostOnce, ~RetryOnTimeout, NEW r \in Calls
                 PROVE  reached[r] <= 1
        BY DEF NeverDuplicated
    <2> QED
        BY DEF TriedAtMostOnce, ResilienceTypeOK
<1> QED
    BY <1>1, <1>2, TriedInductive, ResilienceTypeCorrect, PTL DEF ResilienceSpec

-----------------------------------------------------------------------------
(* Requests. *)

Stages == {"new", "policy", "monitor", "handler", "breaker", "upstream",
           "buffer", "stream", "ended", "cut", "done"}
Verdicts == [policy : {"none", "allow", "deny"}, monitor : {"none", "pass", "block"},
             crypto : {"none", "allow", "flag", "block"}]
Kinds == {"PolicyViolation", "ThreatBlocked", "CryptoPolicyEnforced", "RequestProcessed"}
Answers == {"waiting", "error", "refused", "unavailable", "bad gateway", "complete",
            "truncated", "gone"}
ChunkCounts == [seen : Nat, forwarded : Nat, hashed : Nat]

\* The types of a request's own state.
RequestTypes ==
    /\ stage \in [Calls -> Stages]
    /\ verdict \in [Calls -> Verdicts]
    /\ audit \in [Calls -> SUBSET Kinds]
    /\ client \in [Calls -> Answers]
    /\ body \in [Calls -> {"none", "clean", "threat"}]
    /\ chunks \in [Calls -> ChunkCounts]
    /\ leaked \in [Calls -> BOOLEAN]
    /\ session \in [Calls -> Calls]

-----------------------------------------------------------------------------
(* The breaker and the calls inside the pipeline. *)

\* A request may be admitted and then never sent (BuildFails).
AdmittedInVain == Admits /\ Admitted /\ UNCHANGED <<callVars, upstream>>

\* Every step of the pipeline is, for the breaker and the retry loops, a step of
\* Resilience, or invisible, or an admission in vain.
LEMMA BreakerSteps ==
    ASSUME [PipelineNext]_pipelineVars
    PROVE  [ResilienceNext]_resilienceVars \/ AdmittedInVain
<1>1. ASSUME NEW r \in Calls, Serve(r)
      PROVE  [ResilienceNext]_resilienceVars \/ AdmittedInVain
    <2>1. \/ UNCHANGED resilienceVars \/ AdmittedInVain
          \/ Allow(r) \/ Outcome(r) \/ Retry(r)
        BY <1>1 DEF Serve, Identity, Policy, Monitor, Enforce, FastFail, Send, BuildFails,
              Answered, Failed, Retried, Buffered, Chunk, StreamEnds, StreamDone,
              AdmittedInVain, Outcome
    <2> QED
        BY <2>1 DEF ResilienceNext
<1>2. ASSUME NEW r \in Calls, ClientGone(r) PROVE [ResilienceNext]_resilienceVars
    BY <1>2 DEF ClientGone, ResilienceNext
<1>3. CASE (Tick \/ UpstreamChanges) /\ UNCHANGED requestVars
    BY <1>3 DEF ResilienceNext
<1>4. CASE UNCHANGED pipelineVars
    BY <1>4 DEF pipelineVars
<1> QED
    BY <1>1, <1>2, <1>3, <1>4 DEF PipelineNext

\* The invariants of Resilience that carry over.
BreakerInv == ResilienceTypeOK /\ TrippedWhenDown /\ TriedAtMostOnce

LEMMA BreakerInductive ==
    ASSUME BreakerInv, [PipelineNext]_pipelineVars
    PROVE  BreakerInv'
<1>1. CASE [ResilienceNext]_resilienceVars
    BY <1>1, TypeInductive, TrippedInductive, TriedInductive DEF BreakerInv
<1>2. CASE AdmittedInVain
    <2>1. ResilienceTypeOK'
        BY <1>2, BreakerType DEF AdmittedInVain, BreakerInv, ResilienceTypeOK, callVars
    <2>2. TrippedWhenDown'
        BY <1>2, ResilienceAssumption
           DEF AdmittedInVain, Admits, Admitted, BreakerInv, TrippedWhenDown, ResilienceTypeOK
    <2>3. TriedAtMostOnce'
        BY <1>2 DEF AdmittedInVain, BreakerInv, TriedAtMostOnce, callVars
    <2> QED
        BY <2>1, <2>2, <2>3 DEF BreakerInv
<1> QED
    BY <1>1, <1>2, BreakerSteps

LEMMA BreakerInitially == PipelineInit => BreakerInv
<1> SUFFICES ASSUME ResilienceInit PROVE BreakerInv
    BY DEF PipelineInit
<1>1. ResilienceTypeOK /\ TrippedWhenDown
    BY ResilienceAssumption DEF ResilienceInit, ResilienceTypeOK, TrippedWhenDown
<1>2. TriedAtMostOnce
    <2>1. \A r \in Calls : reached[r] = 0
        BY DEF ResilienceInit
    <2> SUFFICES ASSUME NEW r \in Calls
                 PROVE  reached[r] <= (IF call[r] = "idle" THEN 1 ELSE 0)
        BY DEF TriedAtMostOnce
    <2> QED
        BY <2>1
<1> QED
    BY <1>1, <1>2 DEF BreakerInv

LEMMA BreakerInvHolds == PipelineSpec => []BreakerInv
BY BreakerInitially, BreakerInductive, PTL DEF PipelineSpec

\* Inside the proxy, where requests are admitted and then not sent, dropped by
\* their clients at any await and retried, sustained failure still trips the
\* circuit and no completion reaches the provider twice.
THEOREM ResilienceInPipeline == PipelineSpec => [](TrippedWhenDown /\ NeverDuplicated)
<1>1. BreakerInv => TrippedWhenDown /\ NeverDuplicated
    <2> SUFFICES ASSUME BreakerInv, ~RetryOnTimeout, NEW r \in Calls
                 PROVE  reached[r] <= 1
        BY DEF BreakerInv, NeverDuplicated
    <2> QED
        BY DEF BreakerInv, TriedAtMostOnce, ResilienceTypeOK
<1> QED
    BY <1>1, BreakerInvHolds, PTL
-----------------------------------------------------------------------------
(* The requests. *)

\* What one step of request r leaves alone: the other requests.
Others(r) ==
    \A q \in Calls : q # r =>
        /\ stage'[q] = stage[q] /\ verdict'[q] = verdict[q] /\ audit'[q] = audit[q]
        /\ client'[q] = client[q] /\ body'[q] = body[q] /\ chunks'[q] = chunks[q]
        /\ leaked'[q] = leaked[q] /\ session'[q] = session[q]

\* What a verdict changes.
LEMMA DecideVerdict ==
    ASSUME RequestTypes, NEW r \in Calls,
           NEW layer \in {"policy", "monitor", "crypto"}, NEW v, Decide(r, layer, v),
           \/ layer = "policy" /\ v \in {"allow", "deny"}
           \/ layer = "monitor" /\ v \in {"pass", "block"}
           \/ layer = "crypto" /\ v \in {"allow", "flag", "block"}
    PROVE  /\ verdict' \in [Calls -> Verdicts]
           /\ \A q \in Calls : q # r => verdict'[q] = verdict[q]
           /\ verdict'[r].policy = IF layer = "policy" THEN v ELSE verdict[r].policy
           /\ verdict'[r].monitor = IF layer = "monitor" THEN v ELSE verdict[r].monitor
           /\ verdict'[r].crypto = IF layer = "crypto" THEN v ELSE verdict[r].crypto
<1>1. verdict \in [Calls -> Verdicts] /\ verdict[r] \in Verdicts
    BY DEF RequestTypes
<1>2. verdict' = [verdict EXCEPT ![r] = [verdict[r] EXCEPT ![layer] = v]]
    BY <1>1 DEF Decide
<1>3. [verdict[r] EXCEPT ![layer] = v] \in Verdicts
    BY <1>1 DEF Verdicts
<1>4. verdict'[r] = [verdict[r] EXCEPT ![layer] = v]
    BY <1>1, <1>2
<1>5. /\ verdict'[r].policy = IF layer = "policy" THEN v ELSE verdict[r].policy
      /\ verdict'[r].monitor = IF layer = "monitor" THEN v ELSE verdict[r].monitor
      /\ verdict'[r].crypto = IF layer = "crypto" THEN v ELSE verdict[r].crypto
    BY <1>1, <1>4 DEF Verdicts
<1> QED
    BY <1>1, <1>2, <1>3, <1>5

\* What an audit event changes.
LEMMA LogEventAudit ==
    ASSUME RequestTypes, NEW r \in Calls, NEW kind \in Kinds, LogEvent(r, kind)
    PROVE  /\ audit' \in [Calls -> SUBSET Kinds]
           /\ \A q \in Calls : q # r => audit'[q] = audit[q]
           /\ audit'[r] = audit[r] \cup {kind}
BY DEF RequestTypes, LogEvent

LEMMA RequestTypesStep ==
    ASSUME RequestTypes, NEW r \in Calls, Serve(r) \/ ClientGone(r),
           DOMAIN sessions \subseteq Calls
    PROVE  RequestTypes' /\ Others(r)
<1> USE DEF Others, Goto, Reply, responseVars, trafficVars
<1>1. CASE Identity(r)
    BY <1>1 DEF Identity, Stages, RequestTypes
<1>2. CASE Policy(r)
    <2>1. verdict' \in [Calls -> Verdicts] /\ \A q \in Calls : q # r => verdict'[q] = verdict[q]
        <3>1. verdict' = verdict \/ \E v \in {"allow", "deny"} : Decide(r, "policy", v)
            BY <1>2 DEF Policy
        <3> QED
            BY <3>1, DecideVerdict DEF RequestTypes
    <2>2. audit' \in [Calls -> SUBSET Kinds] /\ \A q \in Calls : q # r => audit'[q] = audit[q]
        <3>1. audit' = audit \/ \E kind \in Kinds : LogEvent(r, kind)
            BY <1>2 DEF Policy, Denied, Kinds
        <3> QED
            BY <3>1, LogEventAudit DEF RequestTypes
    <2>3. /\ stage' \in [Calls -> Stages] /\ client' \in [Calls -> Answers]
          /\ \A q \in Calls : q # r => stage'[q] = stage[q] /\ client'[q] = client[q]
        BY <1>2, ZenonT(40) DEF Policy, Denied, Stages, Answers, RequestTypes
    <2>4. UNCHANGED <<responseVars, session>>
        BY <1>2 DEF Policy
    <2> QED
        BY <2>1, <2>2, <2>3, <2>4 DEF RequestTypes
<1>3. CASE Monitor(r)
    <2>1. verdict' \in [Calls -> Verdicts] /\ \A q \in Calls : q # r => verdict'[q] = verdict[q]
        <3>1. verdict' = verdict \/ \E v \in {"pass", "block"} : Decide(r, "monitor", v)
            BY <1>3 DEF Monitor
        <3> QED
            BY <3>1, DecideVerdict DEF RequestTypes
    <2>2. audit' \in [Calls -> SUBSET Kinds] /\ \A q \in Calls : q # r => audit'[q] = audit[q]
        <3>1. audit' = audit \/ \E kind \in Kinds : LogEvent(r, kind)
            BY <1>3 DEF Monitor, Denied, Kinds
        <3> QED
            BY <3>1, LogEventAudit DEF RequestTypes
    <2>3. /\ stage' \in [Calls -> Stages] /\ client' \in [Calls -> Answers]
          /\ \A q \in Calls : q # r => stage'[q] = stage[q] /\ client'[q] = client[q]
        BY <1>3 DEF Monitor, Denied, Stages, Answers, RequestTypes
    <2>4. UNCHANGED <<responseVars, session>>
        BY <1>3 DEF Monitor
    <2> QED
        BY <2>1, <2>2, <2>3, <2>4 DEF RequestTypes
<1>4. CASE Enforce(r)
    <2>1. verdict' \in [Calls -> Verdicts] /\ \A q \in Calls : q # r => verdict'[q] = verdict[q]
        <3>1. verdict' = verdict \/ \E v \in {"allow", "flag", "block"} : Decide(r, "crypto", v)
            BY <1>4 DEF Enforce
        <3> QED
            BY <3>1, DecideVerdict DEF RequestTypes
    <2>2. audit' \in [Calls -> SUBSET Kinds] /\ \A q \in Calls : q # r => audit'[q] = audit[q]
        <3>1. audit' = audit \/ \E kind \in Kinds : LogEvent(r, kind)
            BY <1>4 DEF Enforce, Denied, Kinds
        <3> QED
            BY <3>1, LogEventAudit DEF RequestTypes
    <2>3. /\ stage' \in [Calls -> Stages] /\ client' \in [Calls -> Answers]
          /\ \A q \in Calls : q # r => stage'[q] = stage[q] /\ client'[q] = client[q]
        BY <1>4 DEF Enforce, Denied, Stages, Answers, RequestTypes
    <2>4. UNCHANGED <<responseVars, session>>
        BY <1>4 DEF Enforce
    <2> QED
        BY <2>1, <2>2, <2>3, <2>4 DEF RequestTypes
<1>5. CASE FastFail(r) \/ Send(r) \/ BuildFails(r) \/ StreamEnds(r)
    BY <1>5 DEF FastFail, Send, BuildFails, StreamEnds, Stages, Answers, RequestTypes
<1>6. CASE Answered(r) \/ Failed(r)
    <2>1. CASE Answered(r)
        BY <2>1 DEF Answered, Stages, Answers, RequestTypes
    <2>2. CASE Failed(r)
        <3>1. /\ (stage' = stage /\ client' = client) \/ Reply(r, "bad gateway")
              /\ UNCHANGED <<verdict, audit, responseVars, trafficVars>>
            BY <2>2 DEF Failed
        <3>2. CASE stage' = stage /\ client' = client
            BY <3>1, <3>2 DEF RequestTypes
        <3>3. CASE Reply(r, "bad gateway")
            BY <3>1, <3>3 DEF Stages, Answers, RequestTypes
        <3> QED
            BY <3>1, <3>2, <3>3
    <2> QED
        BY <1>6, <2>1, <2>2
<1>7. CASE Retried(r)
    BY <1>7 DEF Retried, requestVars, RequestTypes
<1>8. CASE Buffered(r)
    <2>1. audit' \in [Calls -> SUBSET Kinds] /\ \A q \in Calls : q # r => audit'[q] = audit[q]
        <3>1. audit' = audit \/ LogEvent(r, "RequestProcessed")
            BY <1>8 DEF Buffered
        <3> QED
            BY <3>1, LogEventAudit DEF RequestTypes, Kinds
    <2>2. \/ UNCHANGED <<body, leaked>>
          \/ \E b \in {"clean", "threat"}, l \in BOOLEAN :
                body' = [body EXCEPT ![r] = b] /\ leaked' = [leaked EXCEPT ![r] = l]
        BY <1>8 DEF Buffered
    <2>3. /\ body' \in [Calls -> {"none", "clean", "threat"}] /\ leaked' \in [Calls -> BOOLEAN]
          /\ \A q \in Calls : q # r => body'[q] = body[q] /\ leaked'[q] = leaked[q]
        BY <2>2 DEF RequestTypes
    <2>4. /\ stage' \in [Calls -> Stages] /\ client' \in [Calls -> Answers]
          /\ \A q \in Calls : q # r => stage'[q] = stage[q] /\ client'[q] = client[q]
        <3>1. /\ stage' = [stage EXCEPT ![r] = "done"]
              /\ \E a \in {"bad gateway", "complete"} : client' = [client EXCEPT ![r] = a]
            BY <1>8 DEF Buffered
        <3> QED
            BY <3>1 DEF Stages, Answers, RequestTypes
    <2>5. UNCHANGED <<verdict, chunks, session>>
        BY <1>8 DEF Buffered
    <2> QED
        BY <2>1, <2>3, <2>4, <2>5 DEF RequestTypes
<1>9. CASE Chunk(r)
    BY <1>9 DEF Chunk, TakeChunk, ChunkCounts, Stages, RequestTypes
<1>10. CASE StreamDone(r)
    BY <1>10, LogEventAudit DEF StreamDone, StreamReply, Stages, Answers, Kinds, RequestTypes
<1>11. CASE ClientGone(r)
    BY <1>11 DEF ClientGone, Stages, Answers, RequestTypes
<1> QED
    BY <1>1, <1>2, <1>3, <1>4, <1>5, <1>6, <1>7, <1>8, <1>9, <1>10, <1>11 DEF Serve

-----------------------------------------------------------------------------
(* The life of one request. *)

Refusals == {"PolicyViolation", "ThreatBlocked", "CryptoPolicyEnforced"}
Unsent == {"new", "policy", "monitor", "handler", "breaker"}

\* The layers run in their order: what a request has passed tells where it is,
\* and it reaches the provider only behind all of them.
InOrder(r) ==
    /\ call[r] # "idle" => stage[r] = "upstream"
    /\ stage[r] \in Unsent => reached[r] = 0
    /\ stage[r] \in {"new", "policy"} => verdict[r].policy = "none"
    /\ stage[r] \in {"new", "policy", "monitor"} => verdict[r].monitor = "none"
    /\ stage[r] \notin {"new", "policy", "done"} => verdict[r].policy = "allow"
    /\ stage[r] \notin {"new", "policy", "monitor", "done"} => verdict[r].monitor = "pass"
    /\ stage[r] \notin {"new", "policy", "monitor", "handler", "done"} =>
          verdict[r].crypto \in {"allow", "flag"}
    /\ reached[r] > 0 =>
          verdict[r].policy = "allow" /\ verdict[r].monitor = "pass"
            /\ verdict[r].crypto \in {"allow", "flag"}

\* An answer has been audited, a request that is not new has its session.
Recorded(r) ==
    /\ stage[r] = "done" <=> client[r] # "waiting"
    /\ stage[r] # "new" => session[r] \in DOMAIN sessions
    /\ client[r] \in {"complete", "truncated"} => "RequestProcessed" \in audit[r]
    /\ client[r] = "refused" => audit[r] \cap Refusals # {}

\* With scanning on, nothing of a threat is out while a request is being served,
\* and a stream in which one was found is at the cut or has ended in an error.
Withheld(r) ==
    /\ chunks[r].forwarded <= chunks[r].seen
    /\ stage[r] \in Unsent \cup {"upstream", "buffer"} => chunks[r].seen = 0
    /\ stage[r] \notin {"cut", "done"} => (Scan => body[r] = "none")
    /\ stage[r] # "done" => (Scan => ~leaked[r])
    /\ stage[r] = "done" /\ chunks[r].seen > 0 =>
          (Scan => ~leaked[r] /\ (client[r] = "complete" => body[r] # "threat"))

\* A step of one request leaves the calls of the others alone.
LEMMA CallsApart ==
    ASSUME ResilienceTypeOK, NEW r \in Calls, Serve(r) \/ ClientGone(r)
    PROVE  \A q \in Calls : q # r => reached'[q] = reached[q] /\ call'[q] = call[q]
<1>1. \/ UNCHANGED resilienceVars \/ UNCHANGED callVars
      \/ Allow(r) \/ Outcome(r) \/ Retry(r) \/ Abandon(r)
    BY DEF Serve, ClientGone, Identity, Policy, Monitor, Enforce, FastFail, Send, BuildFails,
          Answered, Failed, Retried, Buffered, Chunk, StreamEnds, StreamDone, Outcome
<1>2. CASE UNCHANGED resilienceVars \/ UNCHANGED callVars
    BY <1>2 DEF resilienceVars, callVars
<1>3. CASE Allow(r) \/ Outcome(r)
    BY <1>3 DEF Allow, Outcome, Answer, ServerError, TransportError, Finish, Reaches, ResilienceTypeOK
<1>4. CASE Retry(r) \/ Abandon(r)
    BY <1>4 DEF Retry, Abandon, Finish, ResilienceTypeOK
<1> QED
    BY <1>1, <1>2, <1>3, <1>4

LEMMA InOrderStep ==
    ASSUME RequestTypes, ResilienceTypeOK, NEW r \in Calls, Serve(r) \/ ClientGone(r), InOrder(r)
    PROVE  InOrder(r)'
<1> USE DEF Goto, Reply, Unsent
<1>1. CASE Identity(r)
    BY <1>1 DEF Identity, InOrder, RequestTypes, resilienceVars, callVars
<1>2. CASE Policy(r)
    <2>1. reached' = reached /\ call' = call
        BY <1>2 DEF Policy, resilienceVars, callVars
    <2>2. CASE stage'[r] = "done" /\ UNCHANGED verdict
        BY <1>2, <2>1, <2>2 DEF Policy, InOrder
    <2>3. CASE stage'[r] = "done" /\ Decide(r, "policy", "deny")
        BY <1>2, <2>1, <2>3, DecideVerdict DEF Policy, InOrder
    <2>4. CASE stage'[r] = "monitor" /\ Decide(r, "policy", "allow")
        BY <1>2, <2>1, <2>4, DecideVerdict DEF Policy, InOrder
    <2> QED
        BY <1>2, <2>2, <2>3, <2>4 DEF Policy, Denied, RequestTypes
<1>3. CASE Monitor(r)
    <2>1. reached' = reached /\ call' = call
        BY <1>3 DEF Monitor, resilienceVars, callVars
    <2>2. CASE stage'[r] = "done" /\ Decide(r, "monitor", "block")
        BY <1>3, <2>1, <2>2, DecideVerdict DEF Monitor, InOrder
    <2>3. CASE stage'[r] = "handler" /\ Decide(r, "monitor", "pass")
        BY <1>3, <2>1, <2>3, DecideVerdict DEF Monitor, InOrder
    <2> QED
        BY <1>3, <2>2, <2>3 DEF Monitor, RequestTypes
<1>4. CASE Enforce(r)
    <2>1. reached' = reached /\ call' = call
        BY <1>4 DEF Enforce, resilienceVars, callVars
    <2>2. CASE stage'[r] = "done" /\ UNCHANGED verdict
        BY <1>4, <2>1, <2>2 DEF Enforce, InOrder
    <2>3. CASE stage'[r] = "done" /\ Decide(r, "crypto", "block")
        BY <1>4, <2>1, <2>3, DecideVerdict DEF Enforce, InOrder
    <2>4. CASE stage'[r] = "breaker" /\ Decide(r, "crypto", "flag")
        BY <1>4, <2>1, <2>4, DecideVerdict DEF Enforce, InOrder
    <2>5. CASE stage'[r] = "breaker" /\ Decide(r, "crypto", "allow")
        BY <1>4, <2>1, <2>5, DecideVerdict DEF Enforce, InOrder
    <2> QED
        BY <1>4, <2>2, <2>3, <2>4, <2>5 DEF Enforce, RequestTypes
<1>5. CASE FastFail(r)
    BY <1>5 DEF FastFail, InOrder, RequestTypes, resilienceVars, callVars
<1>6. CASE Send(r)
    <2>1. call'[r] = "sending" /\ reached'[r] = 0 /\ stage'[r] = "upstream" /\ verdict' = verdict
        BY <1>6 DEF Send, Allow, RequestTypes, ResilienceTypeOK
    <2> QED
        BY <1>6, <2>1 DEF Send, InOrder
<1>7. CASE BuildFails(r)
    BY <1>7 DEF BuildFails, InOrder, RequestTypes, callVars
<1>8. CASE Answered(r) \/ Failed(r) \/ Retried(r)
    <2>1. stage[r] = "upstream" /\ verdict' = verdict
        BY <1>8 DEF Answered, Failed, Retried, requestVars
    <2>2. \/ stage'[r] = "upstream"
          \/ stage'[r] \in {"stream", "buffer", "done"} /\ call'[r] = "idle"
        <3>1. CASE Answered(r)
            <4>1. Answer(r) \/ ServerError(r)
                BY <3>1 DEF Answered
            <4>2. call'[r] = "idle"
                BY <4>1 DEF Answer, ServerError, Finish, ResilienceTypeOK
            <4>3. stage'[r] \in {"stream", "buffer"}
                BY <3>1 DEF Answered, RequestTypes
            <4> QED
                BY <4>2, <4>3
        <3>2. CASE Failed(r)
            BY <3>2, <2>1 DEF Failed, RequestTypes
        <3>3. CASE Retried(r)
            BY <3>3, <2>1 DEF Retried, requestVars
        <3> QED
            BY <1>8, <3>1, <3>2, <3>3
    <2> QED
        BY <2>1, <2>2 DEF InOrder
<1>9. CASE Buffered(r) \/ Chunk(r) \/ StreamEnds(r) \/ StreamDone(r)
    <2>1. /\ stage[r] \in {"buffer", "stream", "ended", "cut"}
          /\ stage'[r] \in {"done", "stream", "ended", "cut"}
          /\ verdict' = verdict /\ reached' = reached /\ call' = call
        BY <1>9 DEF Buffered, Chunk, StreamEnds, StreamDone, StreamReply, RequestTypes,
              resilienceVars, callVars
    <2> QED
        BY <2>1 DEF InOrder
<1>10. CASE ClientGone(r)
    <2>1. stage'[r] = "done" /\ verdict' = verdict
        BY <1>10 DEF ClientGone, RequestTypes
    <2>2. call'[r] = "idle" /\ reached' = reached
        BY <1>10 DEF ClientGone, Abandon, Finish, ResilienceTypeOK, resilienceVars, callVars
    <2> QED
        BY <2>1, <2>2 DEF InOrder
<1> QED
    BY <1>1, <1>2, <1>3, <1>4, <1>5, <1>6, <1>7, <1>8, <1>9, <1>10 DEF Serve

LEMMA RecordedStep ==
    ASSUME RequestTypes, NEW r \in Calls, Serve(r) \/ ClientGone(r), Recorded(r)
    PROVE  Recorded(r)'
<1> USE DEF Goto, Reply, Recorded
<1>1. CASE Identity(r)
    <2>1. PICK id \in DOMAIN sessions \cup {r} :
             session' = [session EXCEPT ![r] = id] /\ sessions' = WithSession(id)
        BY <1>1 DEF Identity
    <2>2. id \in DOMAIN sessions'
        BY <2>1 DEF WithSession
    <2>3. session'[r] = id /\ stage'[r] = "policy" /\ client' = client /\ audit' = audit
        BY <1>1, <2>1 DEF Identity, RequestTypes
    <2> QED
        BY <1>1, <2>2, <2>3 DEF Identity
<1>2. ASSUME ~Identity(r) PROVE stage[r] # "new" /\ session' = session /\ DOMAIN sessions' = DOMAIN sessions
    BY <1>2 DEF Serve, ClientGone, Policy, Monitor, Enforce, FastFail, Send, BuildFails,
          Answered, Failed, Retried, Buffered, Chunk, StreamEnds, StreamDone, trafficVars, requestVars
<1>3. CASE Policy(r) \/ Monitor(r) \/ Enforce(r)
    <2>1. \/ stage'[r] \notin {"new", "done"} /\ client' = client /\ audit' = audit /\ stage[r] # "done"
          \/ stage'[r] \notin {"new", "done"} /\ client' = client /\ stage[r] # "done"
               /\ LogEvent(r, "CryptoPolicyEnforced")
          \/ stage'[r] = "done" /\ client'[r] = "error" /\ audit' = audit
          \/ stage'[r] = "done" /\ client'[r] = "refused" /\ \E kind \in Refusals : LogEvent(r, kind)
        BY <1>3 DEF Policy, Denied, Monitor, Enforce, Refusals, RequestTypes
    <2>2. \A kind \in Kinds : LogEvent(r, kind) => audit'[r] = audit[r] \cup {kind}
        BY LogEventAudit
    <2>3. ~Identity(r)
        BY <1>3 DEF Policy, Monitor, Enforce, Identity
    <2> QED
        BY <1>2, <2>1, <2>2, <2>3 DEF Refusals, Kinds
<1>4. CASE FastFail(r) \/ Send(r) \/ BuildFails(r) \/ Answered(r) \/ Failed(r) \/ Retried(r)
             \/ Chunk(r) \/ StreamEnds(r) \/ ClientGone(r)
    <2>1. /\ audit' = audit
          /\ \/ stage'[r] \notin {"new", "done"} /\ client' = client /\ stage[r] # "done"
             \/ stage'[r] = "done" /\ client'[r] \in {"unavailable", "error", "bad gateway", "gone"}
        <3>1. CASE FastFail(r) \/ Send(r) \/ BuildFails(r)
            BY <3>1 DEF FastFail, Send, BuildFails, RequestTypes, requestVars
        <3>2. CASE Answered(r)
            BY <3>2 DEF Answered, RequestTypes, requestVars
        <3>3. CASE Failed(r) \/ Retried(r)
            BY <3>3 DEF Failed, Retried, RequestTypes, requestVars
        <3>4. CASE Chunk(r) \/ StreamEnds(r)
            BY <3>4 DEF Chunk, StreamEnds, RequestTypes, requestVars
        <3>5. CASE ClientGone(r)
            BY <3>5 DEF ClientGone, RequestTypes, requestVars
        <3> QED
            BY <1>4, <3>1, <3>2, <3>3, <3>4, <3>5
    <2>2. ~Identity(r)
        BY <1>4 DEF FastFail, Send, BuildFails, Answered, Failed, Retried, Chunk, StreamEnds,
              ClientGone, Identity
    <2>3. stage[r] # "new" /\ session' = session /\ DOMAIN sessions' = DOMAIN sessions
        BY <1>2, <2>2
    <2>4. CASE stage'[r] \notin {"new", "done"} /\ client' = client /\ stage[r] # "done"
        BY <2>1, <2>3, <2>4
    <2>5. CASE stage'[r] = "done" /\ client'[r] \in {"unavailable", "error", "bad gateway", "gone"}
        BY <2>3, <2>5
    <2> QED
        BY <2>1, <2>4, <2>5
<1>5. CASE Buffered(r) \/ StreamDone(r)
    <2>1. /\ stage'[r] = "done"
          /\ \/ client'[r] = "bad gateway" /\ audit' = audit
             \/ client'[r] \in {"complete", "truncated"} /\ LogEvent(r, "RequestProcessed")
        BY <1>5 DEF Buffered, StreamDone, StreamReply, RequestTypes
    <2>2. LogEvent(r, "RequestProcessed") => "RequestProcessed" \in audit'[r]
        BY LogEventAudit DEF Kinds
    <2>3. ~Identity(r)
        BY <1>5 DEF Buffered, StreamDone, Identity
    <2> QED
        BY <1>2, <2>1, <2>2, <2>3
<1> QED
    BY <1>1, <1>3, <1>4, <1>5 DEF Serve

LEMMA WithheldStep ==
    ASSUME RequestTypes, NEW r \in Calls, Serve(r) \/ ClientGone(r), Withheld(r)
    PROVE  Withheld(r)'
<1> USE PipelineAssumption DEF Goto, Reply, Withheld, Unsent
<1>1. CASE Identity(r) \/ Policy(r) \/ Monitor(r) \/ Enforce(r) \/ FastFail(r) \/ Send(r)
             \/ BuildFails(r) \/ Answered(r) \/ Failed(r) \/ Retried(r) \/ StreamEnds(r) \/ ClientGone(r)
    <2>1. body' = body /\ chunks' = chunks /\ leaked' = leaked
        BY <1>1 DEF Identity, Policy, Monitor, Enforce, FastFail, Send, BuildFails, Answered,
              Failed, Retried, StreamEnds, ClientGone, responseVars, requestVars
    <2>2. /\ stage[r] # "done"
          /\ \/ stage[r] \in Unsent \cup {"upstream"}
             \/ stage[r] = "stream" /\ stage'[r] = "ended"
             \/ stage'[r] = "done" /\ client'[r] = "gone"
        <3>1. CASE Identity(r) \/ Policy(r) \/ Monitor(r) \/ Enforce(r) \/ FastFail(r)
            BY <3>1 DEF Identity, Policy, Monitor, Enforce, FastFail
        <3>2. CASE Send(r) \/ BuildFails(r) \/ Answered(r) \/ Failed(r) \/ Retried(r)
            BY <3>2 DEF Send, BuildFails, Answered, Failed, Retried
        <3>3. CASE StreamEnds(r)
            BY <3>3 DEF StreamEnds, RequestTypes
        <3>4. CASE ClientGone(r)
            BY <3>4 DEF ClientGone, RequestTypes
        <3> QED
            BY <1>1, <3>1, <3>2, <3>3, <3>4
    <2>3. stage[r] \in Unsent \cup {"upstream"} =>
             stage'[r] \in Unsent \cup {"upstream", "buffer", "stream", "done"}
        BY <1>1 DEF Identity, Policy, Denied, Monitor, Enforce, FastFail, Send, BuildFails, Answered,
              Failed, Retried, StreamEnds, ClientGone, RequestTypes, requestVars
    <2>4. chunks[r].seen \in Nat
        BY DEF RequestTypes, ChunkCounts
    <2> QED
        BY <2>1, <2>2, <2>3, <2>4
<1>2. CASE Buffered(r)
    <2>1. stage'[r] = "done" /\ chunks' = chunks /\ chunks[r].seen = 0
        BY <1>2 DEF Buffered, RequestTypes
    <2> QED
        BY <2>1
<1>3. CASE Chunk(r)
    <2>1. PICK threat \in BOOLEAN :
             /\ TakeChunk(r, threat)
             /\ body' = [body EXCEPT ![r] = IF threat THEN "threat" ELSE @]
             /\ leaked' = [leaked EXCEPT ![r] =
                   @ \/ (threat /\ chunks'[r].forwarded > chunks[r].forwarded)]
             /\ stage' = [stage EXCEPT ![r] = IF Scan /\ threat THEN "cut" ELSE "stream"]
        BY <1>3 DEF Chunk
    <2>2. /\ chunks[r].seen \in Nat /\ chunks[r].forwarded \in Nat
          /\ chunks'[r].seen = chunks[r].seen + 1
          /\ chunks'[r].forwarded = IF Scan /\ threat THEN chunks[r].forwarded ELSE chunks[r].forwarded + 1
        BY <2>1 DEF TakeChunk, RequestTypes, ChunkCounts
    <2>3. Scan => ~leaked'[r]
        BY <1>3, <2>1, <2>2 DEF Chunk, RequestTypes
    <2>4. Scan /\ ~threat => body'[r] = "none"
        BY <1>3, <2>1 DEF Chunk, RequestTypes
    <2>5. stage'[r] = (IF Scan /\ threat THEN "cut" ELSE "stream")
        BY <2>1 DEF RequestTypes
    <2> QED
        BY <2>2, <2>3, <2>4, <2>5
<1>4. CASE StreamDone(r)
    <2>1. /\ stage'[r] = "done" /\ body' = body /\ chunks' = chunks /\ leaked' = leaked
          /\ stage[r] \in {"ended", "cut"}
          /\ client'[r] = IF stage[r] = "cut" THEN "truncated" ELSE "complete"
        BY <1>4 DEF StreamDone, StreamReply, RequestTypes, responseVars
    <2> QED
        BY <2>1
<1> QED
    BY <1>1, <1>2, <1>3, <1>4 DEF Serve
-----------------------------------------------------------------------------
(* The books: what sessions and flows count. *)

Allowed(id) == {r \in Calls : session[r] = id /\ verdict[r].policy = "allow"}
Scanned == {r \in Calls : verdict[r].monitor # "none"}
Blocked == {r \in Calls : verdict[r].monitor = "block"}

\* Requests without a verdict are in none of the counts, so every count goes up
\* with the request that is counted and with no other.
Counted ==
    /\ DOMAIN sessions \subseteq Calls
    /\ \A id \in DOMAIN sessions : sessions[id] = Cardinality(Allowed(id))
    /\ flows \in Nat
    /\ flows <= Cardinality(Scanned)
    /\ flows >= Cardinality(Blocked)

LEMMA CountsFinite ==
    /\ \A id : IsFiniteSet(Allowed(id)) /\ Cardinality(Allowed(id)) \in Nat
    /\ IsFiniteSet(Scanned) /\ Cardinality(Scanned) \in Nat
    /\ IsFiniteSet(Blocked) /\ Cardinality(Blocked) \in Nat
    /\ Cardinality(Scanned) <= Cardinality(Calls) /\ Cardinality(Calls) \in Nat
<1>1. (\A id : Allowed(id) \subseteq Calls) /\ Scanned \subseteq Calls /\ Blocked \subseteq Calls
    BY DEF Allowed, Scanned, Blocked
<1>2. \A S : S \subseteq Calls =>
         IsFiniteSet(S) /\ Cardinality(S) \in Nat /\ Cardinality(S) <= Cardinality(Calls)
    BY PipelineAssumption, FS_Subset, FS_CardinalityType
<1>3. Cardinality(Calls) \in Nat
    BY PipelineAssumption, FS_CardinalityType
<1> QED
    BY <1>1, <1>2, <1>3

\* Two states that agree on sessions and on the verdicts of policy and monitor
\* agree on the counts.
LEMMA CountsAgree ==
    ASSUME Counted, sessions' = sessions, flows' = flows,
           \A q \in Calls : /\ session'[q] = session[q]
                            /\ verdict'[q].monitor = verdict[q].monitor
                            /\ verdict'[q].policy = "allow" <=> verdict[q].policy = "allow"
    PROVE  Counted'
<1>1. \A id : Allowed(id)' = Allowed(id)
    BY DEF Allowed
<1>2. Scanned' = Scanned /\ Blocked' = Blocked
    BY DEF Scanned, Blocked
<1> QED
    BY <1>1, <1>2 DEF Counted

LEMMA CountedStep ==
    ASSUME RequestTypes, Counted, NEW r \in Calls, Serve(r) \/ ClientGone(r), Others(r),
           \A q \in Calls : InOrder(q) /\ Recorded(q)
    PROVE  Counted'
<1>1. CASE Identity(r)
    <2>1. PICK id \in DOMAIN sessions \cup {r} :
             session' = [session EXCEPT ![r] = id] /\ sessions' = WithSession(id)
        BY <1>1 DEF Identity
    <2>2. verdict' = verdict /\ flows' = flows /\ verdict[r].policy = "none"
        BY <1>1 DEF Identity, InOrder
    <2>3. Scanned' = Scanned /\ Blocked' = Blocked
        BY <2>2 DEF Scanned, Blocked
    <2>4. \A i : Allowed(i)' = Allowed(i)
        BY <2>1, <2>2 DEF Allowed, RequestTypes
    <2>5. /\ DOMAIN sessions' = DOMAIN sessions \cup {id}
          /\ \A i \in DOMAIN sessions' : sessions'[i] = IF i \in DOMAIN sessions THEN sessions[i] ELSE 0
        BY <2>1 DEF WithSession
    <2>6. \A i : i \notin DOMAIN sessions => Allowed(i) = {}
        BY DEF Allowed, Recorded, InOrder
    <2>7. Cardinality({}) = 0
        BY FS_EmptySet
    <2>8. \A i \in DOMAIN sessions' : sessions'[i] = Cardinality(Allowed(i)')
        BY <2>4, <2>5, <2>6, <2>7 DEF Counted
    <2> QED
        BY <2>2, <2>3, <2>5, <2>8 DEF Counted
<1>2. CASE Policy(r)
    <2>1. verdict[r].policy = "none" /\ session[r] \in DOMAIN sessions /\ session' = session /\ flows' = flows
        BY <1>2 DEF Policy, InOrder, Recorded
    <2>2. CASE sessions' = sessions /\ (verdict' = verdict \/ Decide(r, "policy", "deny"))
        <3>1. \A q \in Calls : /\ session'[q] = session[q]
                               /\ verdict'[q].monitor = verdict[q].monitor
                               /\ verdict'[q].policy = "allow" <=> verdict[q].policy = "allow"
            BY <2>1, <2>2, DecideVerdict
        <3> QED
            BY <2>1, <2>2, <3>1, CountsAgree
    <2>3. CASE /\ Decide(r, "policy", "allow")
               /\ sessions' = [sessions EXCEPT ![session[r]] = @ + 1]
        <3>1. /\ verdict'[r].policy = "allow" /\ verdict'[r].monitor = verdict[r].monitor
              /\ \A q \in Calls : q # r => verdict'[q] = verdict[q]
            BY <2>3, DecideVerdict
        <3>2. Scanned' = Scanned /\ Blocked' = Blocked
            BY <3>1 DEF Scanned, Blocked
        <3>3. PICK id \in DOMAIN sessions : id = session[r]
            BY <2>1
        <3>4. /\ \A i : i # id => Allowed(i)' = Allowed(i)
              /\ Allowed(id)' = Allowed(id) \cup {r} /\ r \notin Allowed(id)
            BY <2>1, <3>1, <3>3 DEF Allowed
        <3>5. Cardinality(Allowed(id) \cup {r}) = Cardinality(Allowed(id)) + 1
            BY <3>4, CountsFinite, FS_AddElement
        <3>6. /\ DOMAIN sessions' = DOMAIN sessions
              /\ \A i \in DOMAIN sessions :
                    sessions'[i] = IF i = id THEN sessions[i] + 1 ELSE sessions[i]
            BY <2>3, <3>3
        <3> QED
            BY <2>1, <3>2, <3>4, <3>5, <3>6 DEF Counted
    <2> QED
        BY <1>2, <2>2, <2>3 DEF Policy
<1>3. CASE Monitor(r)
    <2>1. verdict[r].monitor = "none" /\ session' = session /\ sessions' = sessions
        BY <1>3 DEF Monitor, InOrder
    <2>2. \/ Decide(r, "monitor", "block") /\ flows' = flows + 1
          \/ Decide(r, "monitor", "pass") /\ flows' \in {flows, flows + 1}
        BY <1>3 DEF Monitor
    <2>3. /\ verdict'[r].monitor \in {"pass", "block"} /\ verdict'[r].policy = verdict[r].policy
          /\ \A q \in Calls : q # r => verdict'[q] = verdict[q]
          /\ Decide(r, "monitor", "block") => verdict'[r].monitor = "block"
          /\ Decide(r, "monitor", "pass") => verdict'[r].monitor = "pass"
        BY <2>2, DecideVerdict
    <2>4. \A i : Allowed(i)' = Allowed(i)
        BY <2>1, <2>3 DEF Allowed
    <2>5. Scanned' = Scanned \cup {r} /\ r \notin Scanned
        BY <2>1, <2>3 DEF Scanned
    <2>6. /\ r \notin Blocked
          /\ verdict'[r].monitor = "block" => Blocked' = Blocked \cup {r}
          /\ verdict'[r].monitor = "pass" => Blocked' = Blocked
        BY <2>1, <2>3 DEF Blocked
    <2>7. /\ Cardinality(Scanned \cup {r}) = Cardinality(Scanned) + 1
          /\ Cardinality(Blocked \cup {r}) = Cardinality(Blocked) + 1
        BY <2>5, <2>6, CountsFinite, FS_AddElement
    <2>8. /\ flows' \in Nat /\ flows' <= Cardinality(Scanned')
          /\ flows' >= Cardinality(Blocked')
        <3>1. /\ flows \in Nat /\ flows <= Cardinality(Scanned) /\ flows >= Cardinality(Blocked)
              /\ Cardinality(Scanned) \in Nat /\ Cardinality(Blocked) \in Nat
            BY CountsFinite DEF Counted
        <3>2. CASE Decide(r, "monitor", "block") /\ flows' = flows + 1
            <4>1. Cardinality(Scanned') = Cardinality(Scanned) + 1 /\ Cardinality(Blocked') = Cardinality(Blocked) + 1
                BY <2>3, <2>5, <2>6, <2>7, <3>2
            <4> QED
                BY <3>1, <3>2, <4>1
        <3>3. CASE Decide(r, "monitor", "pass") /\ flows' \in {flows, flows + 1}
            <4>1. Cardinality(Scanned') = Cardinality(Scanned) + 1 /\ Cardinality(Blocked') = Cardinality(Blocked)
                BY <2>3, <2>5, <2>6, <2>7, <3>3
            <4> QED
                BY <3>1, <3>3, <4>1
        <3> QED
            BY <2>2, <3>2, <3>3
    <2> QED
        BY <2>1, <2>4, <2>8 DEF Counted
<1>4. CASE Enforce(r)
    <2>1. session' = session /\ sessions' = sessions /\ flows' = flows
        BY <1>4 DEF Enforce, trafficVars
    <2>2. verdict' = verdict \/ \E v \in {"allow", "flag", "block"} : Decide(r, "crypto", v)
        BY <1>4 DEF Enforce
    <2>3. \A q \in Calls : /\ session'[q] = session[q]
                           /\ verdict'[q].monitor = verdict[q].monitor
                           /\ verdict'[q].policy = "allow" <=> verdict[q].policy = "allow"
        BY <2>1, <2>2, DecideVerdict
    <2> QED
        BY <2>1, <2>3, CountsAgree
<1>5. CASE ~(Identity(r) \/ Policy(r) \/ Monitor(r) \/ Enforce(r))
    <2>1. verdict' = verdict /\ session' = session /\ sessions' = sessions /\ flows' = flows
        BY <1>5 DEF Serve, ClientGone, FastFail, Send, BuildFails, Answered, Failed, Retried,
              Buffered, Chunk, StreamEnds, StreamDone, trafficVars, requestVars
    <2> QED
        BY <2>1, CountsAgree
<1> QED
    BY <1>1, <1>2, <1>3, <1>4, <1>5

-----------------------------------------------------------------------------
(* The pipeline's invariant. *)

PipelineInv ==
    /\ BreakerInv
    /\ RequestTypes
    /\ Counted
    /\ \A r \in Calls : InOrder(r) /\ Recorded(r) /\ Withheld(r)

LEMMA PipelineInitially == PipelineInit => PipelineInv
<1> SUFFICES ASSUME PipelineInit PROVE PipelineInv
    OBVIOUS
<1>1. BreakerInv
    BY BreakerInitially
<1>2. RequestTypes
    BY DEF PipelineInit, RequestTypes, Stages, Verdicts, NoVerdict, Answers, ChunkCounts, NoChunks
<1>3. Counted
    <2>1. Scanned = {} /\ Blocked = {}
        BY DEF PipelineInit, NoVerdict, Scanned, Blocked
    <2>2. Cardinality({}) = 0
        BY FS_EmptySet
    <2>3. DOMAIN sessions = {} /\ flows = 0
        BY DEF PipelineInit
    <2> QED
        BY <2>1, <2>2, <2>3 DEF Counted
<1>4. ASSUME NEW r \in Calls PROVE InOrder(r) /\ Recorded(r) /\ Withheld(r)
    BY DEF PipelineInit, ResilienceInit, NoVerdict, NoChunks, InOrder, Recorded, Withheld, Unsent
<1> QED
    BY <1>1, <1>2, <1>3, <1>4 DEF PipelineInv

LEMMA PipelineInductive ==
    ASSUME PipelineInv, [PipelineNext]_pipelineVars
    PROVE  PipelineInv'
<1>1. BreakerInv'
    BY BreakerInductive DEF PipelineInv
<1>2. ASSUME NEW r \in Calls, Serve(r) \/ ClientGone(r) PROVE PipelineInv'
    <2>1. RequestTypes' /\ Others(r)
        BY <1>2, RequestTypesStep DEF PipelineInv, Counted
    <2>2. Counted'
        BY <1>2, <2>1, CountedStep DEF PipelineInv
    <2>3. InOrder(r)' /\ Recorded(r)' /\ Withheld(r)'
        BY <1>2, InOrderStep, RecordedStep, WithheldStep DEF PipelineInv, BreakerInv
    <2>4. \A q \in Calls : q # r => reached'[q] = reached[q] /\ call'[q] = call[q]
        BY <1>2, CallsApart DEF PipelineInv, BreakerInv
    <2>5. DOMAIN sessions \subseteq DOMAIN sessions'
        <3>1. CASE Identity(r)
            BY <3>1 DEF Identity, WithSession
        <3>2. CASE ~Identity(r)
            BY <1>2, <3>2 DEF Serve, ClientGone, Policy, Monitor, Enforce, FastFail, Send, BuildFails,
                  Answered, Failed, Retried, Buffered, Chunk, StreamEnds, StreamDone, trafficVars, requestVars
        <3> QED
            BY <3>1, <3>2
    <2>6. ASSUME NEW q \in Calls, q # r PROVE InOrder(q)' /\ Recorded(q)' /\ Withheld(q)'
        <3>1. InOrder(q) /\ Recorded(q) /\ Withheld(q)
            BY DEF PipelineInv
        <3>2. InOrder(q)'
            BY <2>1, <2>4, <2>6, <3>1 DEF InOrder, Others
        <3>3. Recorded(q)'
            BY <2>1, <2>5, <2>6, <3>1 DEF Recorded, Others
        <3>4. Withheld(q)'
            BY <2>1, <2>6, <3>1 DEF Withheld, Others
        <3> QED
            BY <3>2, <3>3, <3>4
    <2> QED
        BY <1>1, <2>1, <2>2, <2>3, <2>6 DEF PipelineInv
<1>3. CASE UNCHANGED requestVars /\ UNCHANGED callVars
    <2>1. Counted'
        BY <1>3, CountsAgree DEF PipelineInv, requestVars, trafficVars
    <2>2. RequestTypes'
        BY <1>3 DEF PipelineInv, RequestTypes, requestVars, responseVars, trafficVars
    <2>3. ASSUME NEW q \in Calls PROVE InOrder(q)' /\ Recorded(q)' /\ Withheld(q)'
        BY <1>3 DEF PipelineInv, InOrder, Recorded, Withheld, requestVars, responseVars,
              trafficVars, callVars
    <2> QED
        BY <1>1, <2>1, <2>2, <2>3 DEF PipelineInv
<1>4. CASE (Tick \/ UpstreamChanges) /\ UNCHANGED requestVars
    BY <1>3, <1>4 DEF Tick, UpstreamChanges
<1>5. CASE UNCHANGED pipelineVars
    BY <1>3, <1>5 DEF pipelineVars, resilienceVars
<1> QED
    BY <1>2, <1>4, <1>5 DEF PipelineNext

LEMMA PipelineInvHolds == PipelineSpec => []PipelineInv
BY PipelineInitially, PipelineInductive, PTL DEF PipelineSpec

\* For any number of concurrent requests: what policy_layer, monitor_layer or the
\* crypto policy of proxy_handler refuse never reaches the provider.
THEOREM ForwardedIsApprovedHolds == PipelineSpec => []ForwardedIsApproved
<1>1. PipelineInv => ForwardedIsApproved
    BY DEF PipelineInv, InOrder, ForwardedIsApproved
<1> QED
    BY <1>1, PipelineInvHolds, PTL

\* stream_response, for streams of any length: with responses scanned, the chunk
\* that completes a threat is never forwarded and a stream that was cut off does
\* not end cleanly.
THEOREM ThreatIsWithheldHolds == PipelineSpec => []ThreatIsWithheld
<1>1. PipelineInv => ThreatIsWithheld
    <2> SUFFICES ASSUME PipelineInv, Scan, NEW r \in Calls, chunks[r].seen > 0
                 PROVE  ~leaked[r] /\ (client[r] = "complete" => body[r] # "threat")
        BY DEF ThreatIsWithheld
    <2> QED
        BY DEF PipelineInv, Withheld, Recorded
<1> QED
    BY <1>1, PipelineInvHolds, PTL

\* Whatever requests interleave and whichever clients go away: a request's state
\* is consistent over its layers, request_count of a session and the flows table
\* count each request once, and every answer was audited before.
THEOREM BooksAreKeptHolds == PipelineSpec => []BooksAreKept
<1>1. PipelineInv => PipelineTypeOK
    BY CountsFinite DEF PipelineInv, BreakerInv, PipelineTypeOK, RequestTypes, Stages, InOrder,
          Recorded, Withheld, Counted
<1>2. PipelineInv => TrafficCounted
    BY DEF PipelineInv, TrafficCounted, Counted, Allowed, Scanned, Blocked
<1>3. PipelineInv => AnswerIsAudited
    BY DEF PipelineInv, Recorded, AnswerIsAudited, Refusals
<1> QED
    BY <1>1, <1>2, <1>3, PipelineInvHolds, PTL DEF BooksAreKept
=============================================================================
