----------------------------- MODULE Resilience -----------------------------
(***************************************************************************)
(* The data path's resilience (qw-gateway/src/resilience.rs): the circuit  *)
(* breaker of one provider and the retry loop of the calls made through    *)
(* it.  A call slot is one request task of the proxy; slots are reused.    *)
(*                                                                         *)
(* Abstractions: time is the cooldown that is left (open_until - now);     *)
(* the failure count saturates at the threshold, the only value it is      *)
(* compared with; the length of a backoff is not modelled.                 *)
(***************************************************************************)
EXTENDS Naturals

CONSTANTS
    Calls,           \* concurrent request tasks
    Threshold,       \* circuit_failure_threshold
    Cooldown,        \* circuit_cooldown_secs, in ticks
    MaxRetries,      \* max_retries
    RetryOnTimeout   \* retry_on_timeout

ASSUME ResilienceAssumption ==
    /\ Threshold \in Nat \ {0}  \* CircuitBreaker::new takes max(1)
    /\ Cooldown \in Nat
    /\ MaxRetries \in Nat
    /\ RetryOnTimeout \in BOOLEAN

VARIABLES
    circuit,    \* CircuitState
    failures,   \* consecutive_failures, saturating at Threshold
    left,       \* ticks until open_until (0 when it is past or None)
    call,       \* "idle", "sending" or "backoff"
    attempt,    \* retries of the current call
    reached,    \* auxiliary: times the current call reached the upstream
    upstream,   \* "up" or "down"
    cooling     \* auxiliary: ticks left of the cooldown of the last trip

breakerVars == <<circuit, failures, left, cooling>>
callVars == <<call, attempt, reached>>
resilienceVars == <<breakerVars, callVars, upstream>>

ResilienceInit ==
    /\ circuit = "Closed" /\ failures = 0 /\ left = 0 /\ cooling = 0
    /\ call = [r \in Calls |-> "idle"]
    /\ attempt = [r \in Calls |-> 0]
    /\ reached = [r \in Calls |-> 0]
    /\ upstream \in {"up", "down"}

-----------------------------------------------------------------------------
(* CircuitBreaker. *)

\* Mutant: an open circuit never lets a probe through.
MutAdmitsNever == circuit \in {"Closed", "HalfOpen"}

\* CircuitBreaker::allow_at
Admits == circuit \in {"Closed", "HalfOpen"} \/ left = 0

\* The state after an admitted request: an open circuit becomes half open.
Admitted ==
    /\ circuit' = IF circuit = "Open" THEN "HalfOpen" ELSE circuit
    /\ UNCHANGED <<failures, left, cooling>>

\* Mutant: a success resets the count and leaves the circuit as it is.
MutRecordSuccess ==
    /\ failures' = 0
    /\ UNCHANGED <<circuit, left, cooling>>

\* CircuitBreaker::record_success
RecordSuccess ==
    /\ circuit' = "Closed"
    /\ failures' = 0
    /\ left' = 0
    /\ UNCHANGED cooling

\* Mutant: the threshold itself does not trip the circuit.
MutTrips == circuit = "HalfOpen" \/ failures >= Threshold

\* A failure opens the circuit when it is half open or reaches the threshold.
Trips == circuit = "HalfOpen" \/ failures + 1 >= Threshold

\* CircuitBreaker::record_failure_at
RecordFailure ==
    /\ failures' = IF failures < Threshold THEN failures + 1 ELSE Threshold
    /\ \/ /\ Trips
          /\ circuit' = "Open" /\ left' = Cooldown /\ cooling' = Cooldown
       \/ /\ ~Trips
          /\ UNCHANGED <<circuit, left, cooling>>

-----------------------------------------------------------------------------
(* The proxy's use of it, and Resilience::send_with_retry. *)

\* breaker.allow(), then the first attempt.
Allow(r) ==
    /\ call[r] = "idle"
    /\ Admits
    /\ Admitted
    /\ call' = [call EXCEPT ![r] = "sending"]
    /\ attempt' = [attempt EXCEPT ![r] = 0]
    /\ reached' = [reached EXCEPT ![r] = 0]
    /\ UNCHANGED upstream

Finish(r) == call' = [call EXCEPT ![r] = "idle"]
Reaches(r) == reached' = [reached EXCEPT ![r] = @ + 1]

\* Any answer below 500: a healthy upstream.
Answer(r) ==
    /\ call[r] = "sending" /\ upstream = "up"
    /\ Reaches(r)
    /\ RecordSuccess
    /\ Finish(r)
    /\ UNCHANGED <<attempt, upstream>>

\* A 5xx answer is a failure of the upstream, and is not retried.
ServerError(r) ==
    /\ call[r] = "sending" /\ upstream = "down"
    /\ Reaches(r)
    /\ RecordFailure
    /\ Finish(r)
    /\ UNCHANGED <<attempt, upstream>>

\* Mutant: every transport error is retried.
MutRetryable(error) == error \in {"connect", "timeout", "reset"}

\* What send_with_retry tries again: errors that did not reach the upstream.
Retryable(error) == error = "connect" \/ (error = "timeout" /\ RetryOnTimeout)

MayRetry(r, error) == Retryable(error) /\ attempt[r] < MaxRetries

\* A transport error.  A failed connect never reached the upstream; a timeout
\* or a reset may have.
TransportError(r, error) ==
    /\ call[r] = "sending" /\ upstream = "down"
    /\ IF error = "connect" THEN UNCHANGED reached ELSE Reaches(r)
    /\ \/ /\ MayRetry(r, error)
          /\ attempt' = [attempt EXCEPT ![r] = @ + 1]
          /\ call' = [call EXCEPT ![r] = "backoff"]
          /\ UNCHANGED breakerVars
       \/ /\ ~MayRetry(r, error)
          /\ RecordFailure
          /\ Finish(r)
          /\ UNCHANGED attempt
    /\ UNCHANGED upstream

\* tokio::time::sleep(backoff) is over.
Retry(r) ==
    /\ call[r] = "backoff"
    /\ call' = [call EXCEPT ![r] = "sending"]
    /\ UNCHANGED <<breakerVars, attempt, reached, upstream>>

\* The client goes away: the task is dropped at an await, nothing is recorded.
Abandon(r) ==
    /\ call[r] # "idle"
    /\ Finish(r)
    /\ UNCHANGED <<breakerVars, attempt, reached, upstream>>

Tick ==
    /\ left > 0 \/ cooling > 0
    /\ left' = IF left > 0 THEN left - 1 ELSE 0
    /\ cooling' = IF cooling > 0 THEN cooling - 1 ELSE 0
    /\ UNCHANGED <<circuit, failures, callVars, upstream>>

\* The provider fails or recovers.
UpstreamChanges ==
    /\ upstream' = IF upstream = "up" THEN "down" ELSE "up"
    /\ UNCHANGED <<breakerVars, callVars>>

Errors == {"connect", "timeout", "reset"}

\* What ends an attempt: an answer, or an error (the client's timeouts
\* guarantee one of them).
Outcome(r) ==
    \/ Answer(r) \/ ServerError(r)
    \/ \E error \in Errors : TransportError(r, error)

ResilienceNext ==
    \/ \E r \in Calls : Allow(r) \/ Outcome(r) \/ Retry(r) \/ Abandon(r)
    \/ Tick
    \/ UpstreamChanges

ResilienceSpec == ResilienceInit /\ [][ResilienceNext]_resilienceVars

\* Time passes, timeouts end every attempt and a backoff ends; and, for the
\* properties of a provider in use, requests keep coming and not every client
\* goes away before its answer (strong fairness of the outcomes).
ResilienceFairSpec ==
    /\ ResilienceSpec
    /\ WF_resilienceVars(Tick)
    /\ \A r \in Calls :
          /\ SF_resilienceVars(Outcome(r))
          /\ WF_resilienceVars(Retry(r))
          /\ WF_resilienceVars(Allow(r))

-----------------------------------------------------------------------------
(* Properties. *)

ResilienceTypeOK ==
    /\ circuit \in {"Closed", "Open", "HalfOpen"}
    /\ failures \in 0..Threshold
    /\ left \in 0..Cooldown /\ cooling \in 0..Cooldown
    /\ call \in [Calls -> {"idle", "sending", "backoff"}]
    /\ attempt \in [Calls -> 0..MaxRetries]
    /\ reached \in [Calls -> Nat]
    /\ upstream \in {"up", "down"}

\* Threshold failures in a row, of whatever calls in whatever order, leave the
\* circuit tripped until a success; only an open circuit has a cooldown left.
TrippedWhenDown ==
    /\ failures >= Threshold => circuit # "Closed"
    /\ left > 0 => circuit = "Open"

\* "so a non-idempotent completion is never duplicated" (resilience.rs): unless
\* retry_on_timeout is set, one call reaches the upstream at most once.
NeverDuplicated == ~RetryOnTimeout => \A r \in Calls : reached[r] <= 1

\* The inductive form of NeverDuplicated: a call that is still being tried has
\* not reached the upstream.
TriedAtMostOnce ==
    ~RetryOnTimeout => \A r \in Calls :
        reached[r] <= (IF call[r] = "idle" THEN 1 ELSE 0)

\* A tripped circuit does not stay tripped: calls that fail late may push the
\* deadline back, but no new ones are admitted meanwhile, so a probe goes out.
ProbeGoesOut == circuit = "Open" ~> circuit # "Open"

\* Once the provider has recovered for good its circuit closes for good.
Recovers == <>[](upstream = "up") => <>[](circuit = "Closed")

\* "Tripped - requests are rejected until the cooldown elapses."
\* (CircuitState::Open): no request is admitted during the cooldown of a trip.
RejectedDuringCooldown ==
    [][ \A r \in Calls : call[r] = "idle" /\ call'[r] # "idle" => cooling = 0 ]_resilienceVars
=============================================================================
