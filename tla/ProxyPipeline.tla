--------------------------- MODULE ProxyPipeline ---------------------------
(***************************************************************************)
(* One provider's data path (qw-gateway): requests that run concurrently   *)
(* through identity, policy and monitor layers (middleware/), the crypto   *)
(* enforcement, circuit breaker and upstream call of proxy_handler         *)
(* (router.rs), and the buffered or the streamed response path             *)
(* (proxy_stream.rs).  The breaker and the retries are those of            *)
(* Resilience; here every call is made for one request, once.              *)
(*                                                                         *)
(* Abstractions: what policy engine, monitor and crypto policy decide is   *)
(* an input; a body is what its scan would say of it; an audit event is    *)
(* its kind; the session created for request r is named r; there is one    *)
(* agent, so one row of the flows table.  Metrics are left out.            *)
(***************************************************************************)
EXTENDS Resilience, FiniteSets

CONSTANTS
    Stream,     \* monitor.stream_responses
    Scan,       \* monitor.scan_responses
    MaxChunks   \* bound: chunks of a streamed response

ASSUME PipelineAssumption ==
    Stream \in BOOLEAN /\ Scan \in BOOLEAN /\ MaxChunks \in Nat \ {0} /\ IsFiniteSet(Calls)

VARIABLES
    stage,      \* the layer a request is at
    verdict,    \* what policy, monitor and crypto policy said of it
    audit,      \* the kinds of event logged for it
    client,     \* what its client has got
    body,       \* scan verdict of its response: "clean", "threat" or "none"
    chunks,     \* streamed response: chunks seen, forwarded and hashed
    leaked,     \* auxiliary: a threat went to the client in a response
    session,    \* the session each request belongs to
    sessions,   \* state.sessions: the request_count of every session
    flows       \* requests of the agent's row in the flows table

responseVars == <<body, chunks, leaked>>
trafficVars == <<session, sessions, flows>>
requestVars == <<stage, verdict, audit, client, responseVars, trafficVars>>
pipelineVars == <<resilienceVars, requestVars>>

NoVerdict == [policy |-> "none", monitor |-> "none", crypto |-> "none"]
NoChunks == [seen |-> 0, forwarded |-> 0, hashed |-> 0]

PipelineInit ==
    /\ ResilienceInit
    /\ stage = [r \in Calls |-> "new"]
    /\ verdict = [r \in Calls |-> NoVerdict]
    /\ audit = [r \in Calls |-> {}]
    /\ client = [r \in Calls |-> "waiting"]
    /\ body = [r \in Calls |-> "none"]
    /\ chunks = [r \in Calls |-> NoChunks]
    /\ leaked = [r \in Calls |-> FALSE]
    /\ session = [r \in Calls |-> r]
    /\ sessions = << >>
    /\ flows = 0

-----------------------------------------------------------------------------
(* Moves of one request. *)

Goto(r, s) == stage' = [stage EXCEPT ![r] = s] /\ UNCHANGED client
Reply(r, answer) ==
    /\ stage' = [stage EXCEPT ![r] = "done"]
    /\ client' = [client EXCEPT ![r] = answer]
LogEvent(r, kind) == audit' = [audit EXCEPT ![r] = @ \cup {kind}]
Decide(r, layer, v) == verdict' = [verdict EXCEPT ![r][layer] = v]

-----------------------------------------------------------------------------
(* The layers in front of the handler. *)

\* Mutant: the session is inserted without looking for it first.
MutWithSession(id) ==
    [i \in DOMAIN sessions \cup {id} |-> IF i = id THEN 0 ELSE sessions[i]]

\* state.sessions once id is in it.
WithSession(id) ==
    [i \in DOMAIN sessions \cup {id} |-> IF i \in DOMAIN sessions THEN sessions[i] ELSE 0]

\* identity_layer: a request names a session that exists or gets a new one.
Identity(r) ==
    /\ stage[r] = "new"
    /\ \E id \in DOMAIN sessions \cup {r} :
          /\ session' = [session EXCEPT ![r] = id]
          /\ sessions' = WithSession(id)
    /\ Goto(r, "policy")
    /\ UNCHANGED <<resilienceVars, verdict, audit, responseVars, flows>>

\* A denial is logged and answered.
Denied(r) == LogEvent(r, "PolicyViolation") /\ Reply(r, "refused")

\* policy_layer: the body is read, the policy evaluated, and an allowed request
\* counted in its session.
Policy(r) ==
    /\ stage[r] = "policy"
    /\ \/ /\ Reply(r, "error")
          /\ UNCHANGED <<verdict, audit, sessions>>
       \/ /\ Decide(r, "policy", "deny")
          /\ Denied(r)
          /\ UNCHANGED sessions
       \/ /\ Decide(r, "policy", "allow")
          /\ sessions' = [sessions EXCEPT ![session[r]] = @ + 1]
          /\ Goto(r, "monitor")
          /\ UNCHANGED audit
    /\ UNCHANGED <<resilienceVars, responseVars, session, flows>>

\* Mutant: a threat is logged and the request goes on.
MutMonitor(r) ==
    /\ stage[r] = "monitor"
    /\ \/ /\ Decide(r, "monitor", "block")
          /\ flows' = flows + 1
          /\ LogEvent(r, "ThreatBlocked")
          /\ Goto(r, "handler")
       \/ /\ Decide(r, "monitor", "pass")
          /\ flows' \in {flows, flows + 1}
          /\ Goto(r, "handler")
          /\ UNCHANGED audit
    /\ UNCHANGED <<resilienceVars, responseVars, session, sessions>>

\* monitor_layer: a request that parses is scanned and recorded as a flow; a
\* blocking threat is logged and answered; what does not parse passes.
Monitor(r) ==
    /\ stage[r] = "monitor"
    /\ \/ /\ Decide(r, "monitor", "block")
          /\ flows' = flows + 1
          /\ LogEvent(r, "ThreatBlocked")
          /\ Reply(r, "refused")
       \/ /\ Decide(r, "monitor", "pass")
          /\ flows' \in {flows, flows + 1}
          /\ Goto(r, "handler")
          /\ UNCHANGED audit
    /\ UNCHANGED <<resilienceVars, responseVars, session, sessions>>

-----------------------------------------------------------------------------
(* proxy_handler. *)

\* The provider is resolved and crypto_policy::evaluate consulted.
Enforce(r) ==
    /\ stage[r] = "handler"
    /\ \/ /\ Reply(r, "error")
          /\ UNCHANGED <<verdict, audit>>
       \/ /\ Decide(r, "crypto", "block")
          /\ LogEvent(r, "CryptoPolicyEnforced")
          /\ Reply(r, "refused")
       \/ /\ Decide(r, "crypto", "flag")
          /\ LogEvent(r, "CryptoPolicyEnforced")
          /\ Goto(r, "breaker")
       \/ /\ Decide(r, "crypto", "allow")
          /\ Goto(r, "breaker")
          /\ UNCHANGED audit
    /\ UNCHANGED <<resilienceVars, responseVars, trafficVars>>

\* Mutant: an open circuit holds the request instead of failing it.
MutFastFail(r) ==
    /\ stage[r] = "breaker"
    /\ ~Admits
    /\ UNCHANGED pipelineVars

\* breaker.allow(): 503 while the circuit is open.
FastFail(r) ==
    /\ stage[r] = "breaker"
    /\ ~Admits
    /\ Reply(r, "unavailable")
    /\ UNCHANGED <<resilienceVars, verdict, audit, responseVars, trafficVars>>

Send(r) ==
    /\ stage[r] = "breaker"
    /\ Allow(r)
    /\ Goto(r, "upstream")
    /\ UNCHANGED <<verdict, audit, responseVars, trafficVars>>

\* The request is admitted and then cannot be built: the breaker hears no more
\* of it.
BuildFails(r) ==
    /\ stage[r] = "breaker"
    /\ Admits
    /\ Admitted
    /\ Reply(r, "error")
    /\ UNCHANGED <<callVars, upstream, verdict, audit, responseVars, trafficVars>>

\* An answer goes on to the response path, a 4xx or 5xx one too; only a success
\* is streamed.
Answered(r) ==
    /\ stage[r] = "upstream"
    /\ \/ Answer(r) /\ \E success \in BOOLEAN :
                Goto(r, IF Stream /\ success THEN "stream" ELSE "buffer")
       \/ ServerError(r) /\ Goto(r, "buffer")
    /\ UNCHANGED <<verdict, audit, responseVars, trafficVars>>

\* A transport error is retried inside send_with_retry or ends the request.
Failed(r) ==
    /\ stage[r] = "upstream"
    /\ \E error \in Errors : TransportError(r, error)
    /\ \/ call'[r] = "backoff" /\ UNCHANGED <<stage, client>>
       \/ call'[r] = "idle" /\ Reply(r, "bad gateway")
    /\ UNCHANGED <<verdict, audit, responseVars, trafficVars>>

Retried(r) ==
    /\ stage[r] = "upstream"
    /\ Retry(r)
    /\ UNCHANGED requestVars

\* The buffered path: the body is read whole, scanned, audited and forwarded.
\* What the scan finds is counted; it does not stop the response.
Buffered(r) ==
    /\ stage[r] = "buffer"
    /\ \/ /\ Reply(r, "bad gateway")
          /\ UNCHANGED <<audit, body, leaked>>
       \/ \E b \in {"clean", "threat"} :
             /\ body' = [body EXCEPT ![r] = b]
             /\ LogEvent(r, "RequestProcessed")
             /\ leaked' = [leaked EXCEPT ![r] = b = "threat"]
             /\ Reply(r, "complete")
    /\ UNCHANGED <<resilienceVars, verdict, chunks, trafficVars>>

-----------------------------------------------------------------------------
(* stream_response. *)

\* Mutant: the chunk is forwarded before it is scanned.
MutCutsLate(r, threat) ==
    chunks' = [chunks EXCEPT ![r] =
                  [seen |-> @.seen + 1, forwarded |-> @.forwarded + 1,
                   hashed |-> @.seen + 1]]

\* A chunk that arrives is accumulated (only if responses are scanned) and
\* forwarded unless the text so far is to be cut off.
TakeChunk(r, threat) ==
    chunks' = [chunks EXCEPT ![r] =
                  [seen |-> @.seen + 1,
                   forwarded |-> IF Scan /\ threat THEN @.forwarded ELSE @.forwarded + 1,
                   hashed |-> IF Scan THEN @.hashed + 1 ELSE @.hashed]]

\* The next chunk; threat: with it the accumulated text holds a threat.
Chunk(r) ==
    /\ stage[r] = "stream"
    /\ chunks[r].seen < MaxChunks
    /\ \E threat \in BOOLEAN :
          /\ TakeChunk(r, threat)
          /\ body' = [body EXCEPT ![r] = IF threat THEN "threat" ELSE @]
          /\ leaked' = [leaked EXCEPT ![r] = @ \/ (threat /\ chunks'[r].forwarded > chunks[r].forwarded)]
          /\ Goto(r, IF Scan /\ threat THEN "cut" ELSE "stream")
    /\ UNCHANGED <<resilienceVars, verdict, audit, trafficVars>>

\* The upstream's stream ends, or breaks off: both leave the loop.
StreamEnds(r) ==
    /\ stage[r] = "stream"
    /\ Goto(r, "ended")
    /\ UNCHANGED <<resilienceVars, verdict, audit, responseVars, trafficVars>>

\* After the audit event a cut stream ends in an error, any other cleanly.
StreamReply(r) == Reply(r, IF stage[r] = "cut" THEN "truncated" ELSE "complete")

\* Terminal bookkeeping.
StreamDone(r) ==
    /\ stage[r] \in {"ended", "cut"}
    /\ LogEvent(r, "RequestProcessed")
    /\ StreamReply(r)
    /\ UNCHANGED <<resilienceVars, verdict, responseVars, trafficVars>>

-----------------------------------------------------------------------------

\* The client goes away: the request's task is dropped where it is.
ClientGone(r) ==
    /\ stage[r] \notin {"new", "done"}
    /\ Reply(r, "gone")
    /\ IF call[r] = "idle" THEN UNCHANGED resilienceVars ELSE Abandon(r)
    /\ UNCHANGED <<verdict, audit, responseVars, trafficVars>>

\* One step of the gateway for r.
Serve(r) ==
    \/ Identity(r) \/ Policy(r) \/ Monitor(r) \/ Enforce(r)
    \/ FastFail(r) \/ Send(r) \/ BuildFails(r) \/ Answered(r) \/ Failed(r) \/ Retried(r)
    \/ Buffered(r) \/ Chunk(r) \/ StreamEnds(r) \/ StreamDone(r)

PipelineNext ==
    \/ \E r \in Calls : Serve(r) \/ ClientGone(r)
    \/ (Tick \/ UpstreamChanges) /\ UNCHANGED requestVars

PipelineSpec == PipelineInit /\ [][PipelineNext]_pipelineVars

\* Every layer runs on, every attempt is ended by an answer or a timeout.
PipelineFairSpec ==
    PipelineSpec /\ \A r \in Calls : WF_pipelineVars(Serve(r))

-----------------------------------------------------------------------------
(* Properties. *)

PipelineTypeOK ==
    /\ ResilienceTypeOK
    /\ stage \in [Calls -> {"new", "policy", "monitor", "handler", "breaker", "upstream",
                            "buffer", "stream", "ended", "cut", "done"}]
    /\ \A r \in Calls : stage[r] = "done" <=> client[r] # "waiting"
    /\ \A r \in Calls : call[r] # "idle" => stage[r] = "upstream"
    /\ \A r \in Calls : chunks[r].forwarded <= chunks[r].seen
    /\ \A r \in Calls : stage[r] # "new" => session[r] \in DOMAIN sessions
    /\ flows \in 0..Cardinality(Calls)

\* The counts of sessions and flows survive concurrent requests of one session:
\* every request that policy_layer let through is counted once, and the flows
\* are those of them that were scanned.
TrafficCounted ==
    /\ \A id \in DOMAIN sessions :
          sessions[id] = Cardinality({r \in Calls :
                            session[r] = id /\ verdict[r].policy = "allow"})
    /\ flows <= Cardinality({r \in Calls : verdict[r].monitor # "none"})
    /\ flows >= Cardinality({r \in Calls : verdict[r].monitor = "block"})

\* Nothing reaches the provider that policy, monitor or crypto policy refuse:
\* the layers run in this order and a refusal ends the request.
ForwardedIsApproved ==
    \A r \in Calls : reached[r] > 0 =>
        verdict[r].policy = "allow" /\ verdict[r].monitor = "pass"
          /\ verdict[r].crypto \in {"allow", "flag"}

\* A response that ends at the client, complete or cut off, has been audited
\* before, and so has every refusal.
AnswerIsAudited ==
    \A r \in Calls :
        /\ client[r] \in {"complete", "truncated"} => "RequestProcessed" \in audit[r]
        /\ client[r] = "refused" =>
              audit[r] \cap {"PolicyViolation", "ThreatBlocked", "CryptoPolicyEnforced"} # {}

\* Whatever requests interleave and whichever clients go away, the gateway's
\* books agree with what it did: the state of a request is consistent over its
\* layers, sessions and flows are counted right, and every answer is audited.
BooksAreKept == PipelineTypeOK /\ TrafficCounted /\ AnswerIsAudited

\* "The chunk that carries/completes the threat is never forwarded."
\* (proxy_stream.rs), and a response that was cut off does not end cleanly.
ThreatIsWithheld ==
    Stream /\ Scan => \A r \in Calls : chunks[r].seen > 0 =>
        ~leaked[r] /\ (client[r] = "complete" => body[r] # "threat")

\* Every request is answered or its client is gone.
EveryRequestEnds == \A r \in Calls : stage[r] = "policy" ~> stage[r] = "done"

\* "which lets it block a bad response before any byte reaches the client"
\* (proxy_stream.rs; README): the buffered path forwards no response with a
\* threat in it.
BufferedBlocks ==
    ~Stream /\ Scan => \A r \in Calls : ~leaked[r]

\* "a tamper-evident audit entry, using the bytes we actually saw"
\* (proxy_stream.rs): the response hash of a stream covers what was received.
StreamHashCoversBody ==
    \A r \in Calls :
        "RequestProcessed" \in audit[r] => chunks[r].hashed = chunks[r].seen
=============================================================================
