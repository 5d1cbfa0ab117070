--------------------------- MODULE CircuitBreaker ---------------------------
(***************************************************************************)
(* The S3 circuit breaker: CIRCUIT_BREAKER and BUCKET_ACCESS_ERRORS of     *)
(* src/proxy.rs, the two places that count errors and trip it (the         *)
(* CACHE_WRITER task and try_cache) and the health checker tasks of        *)
(* src/storage/s3.rs that close it again.                                  *)
(*                                                                         *)
(* The grain is one access to one of the two atomics: the code that trips  *)
(* the breaker does not await, but it runs on four threads at once.  For   *)
(* the same reason a caller whose client goes away is dropped only inside  *)
(* the S3 call, never between the steps of a trip.                         *)
(***************************************************************************)
EXTENDS Integers, FiniteSets

CONSTANTS
  Callers,         \* tasks that use S3: CACHE_WRITER and the fallback handlers
  Checkers,        \* bound: slots for health checker tasks alive at once
  Thresholds,      \* values of storage_backend_failures to look at
  RetryIntervals,  \* values of backend_retry_interval_secs to look at
  MaxErrors        \* bound: errors counted when the threshold is 0

ASSUME BreakerAssumption ==
  /\ IsFiniteSet(Callers)
  /\ IsFiniteSet(Checkers)
  /\ Thresholds \subseteq Nat
  /\ RetryIntervals \subseteq Nat
  /\ MaxErrors \in Nat

VARIABLES
  threshold,      \* config: storage_backend_failures, 0 = the breaker never trips
  retryInterval,  \* config: backend_retry_interval_secs, 0 = no health checker
  breaker,   \* CIRCUIT_BREAKER: TRUE lets no call through
  errors,    \* BUCKET_ACCESS_ERRORS
  caller,    \* where each caller stands
  checker,   \* where each health checker task stands
  bucketUp   \* whether the bucket can be reached

configVars == <<threshold, retryInterval>>

vars == <<configVars, breaker, errors, caller, checker, bucketUp>>

CallerStates  == {"idle", "calling", "failed", "trip", "reset", "spawn"}
CheckerStates == {"none", "checking", "close", "keep", "asleep"}

Alive    == {h \in Checkers : checker[h] # "none"}
Busy     == {c \in Callers : caller[c] # "idle"}
Tripping == {c \in Callers : caller[c] \in {"trip", "reset"}}

CallerGoes(c, state)  == caller' = [caller EXCEPT ![c] = state]
CheckerGoes(h, state) == checker' = [checker EXCEPT ![h] = state]

-----------------------------------------------------------------------------
(* The callers: CACHE_WRITER's and try_cache's branches for S3 *)

\* The breaker lets the call through.  A call that is skipped changes nothing.
\* (Bound: a checker slot is kept free for every call that may trip.)
Begin(c) ==
  /\ caller[c] = "idle"
  /\ ~breaker
  /\ Cardinality(Alive) + Cardinality(Busy) < Cardinality(Checkers)
  /\ CallerGoes(c, "calling")
  /\ UNCHANGED <<configVars, breaker, errors, checker, bucketUp>>

\* The call succeeds, fails with an error that is_bucket_access_error does not
\* recognise, or is dropped with its handler.
CallEnds(c) ==
  /\ caller[c] = "calling"
  /\ CallerGoes(c, "idle")
  /\ UNCHANGED <<configVars, breaker, errors, checker, bucketUp>>

\* The call fails for the bucket: an error that is_bucket_access_error knows.
CallFails(c) ==
  /\ caller[c] = "calling"
  /\ ~bucketUp
  /\ CallerGoes(c, "failed")
  /\ UNCHANGED <<configVars, breaker, errors, checker, bucketUp>>

\* Mutant: the count before the increment is compared.
CountError_old(c) ==
  /\ caller[c] = "failed"
  /\ threshold = 0 => errors < MaxErrors
  /\ errors' = errors + 1
  /\ CallerGoes(c, IF threshold > 0 /\ errors > threshold THEN "trip" ELSE "idle")
  /\ UNCHANGED <<configVars, breaker, checker, bucketUp>>

\* Mutant: the test allowed > 0 is dropped, and the first error trips.
CountError_zero(c) ==
  /\ caller[c] = "failed"
  /\ threshold = 0 => errors < MaxErrors
  /\ errors' = errors + 1
  /\ CallerGoes(c, IF errors' > threshold THEN "trip" ELSE "idle")
  /\ UNCHANGED <<configVars, breaker, checker, bucketUp>>

\* fetch_add, and on to the trip when that was over the threshold.
CountError(c) ==
  /\ caller[c] = "failed"
  /\ threshold = 0 => errors < MaxErrors
  /\ errors' = errors + 1
  /\ CallerGoes(c, IF threshold > 0 /\ errors' > threshold THEN "trip" ELSE "idle")
  /\ UNCHANGED <<configVars, breaker, checker, bucketUp>>

Trip(c) ==
  /\ caller[c] = "trip"
  /\ breaker' = TRUE
  /\ CallerGoes(c, "reset")
  /\ UNCHANGED <<configVars, errors, checker, bucketUp>>

\* Mutant: the counter is given back what was counted instead of being zeroed.
Reset_subtract(c) ==
  /\ caller[c] = "reset"
  /\ errors' = errors - (threshold + 1)
  /\ CallerGoes(c, "spawn")
  /\ UNCHANGED <<configVars, breaker, checker, bucketUp>>

Reset(c) ==
  /\ caller[c] = "reset"
  /\ errors' = 0
  /\ CallerGoes(c, "spawn")
  /\ UNCHANGED <<configVars, breaker, checker, bucketUp>>

\* Mutant: the checker is started without a look at the interval.
Spawn_always(c) ==
  /\ caller[c] = "spawn"
  /\ CallerGoes(c, "idle")
  /\ \E h \in Checkers \ Alive : CheckerGoes(h, "checking")
  /\ UNCHANGED <<configVars, breaker, errors, bucketUp>>

\* start_s3_health_checker: no task when the interval is 0, else one more task,
\* however many are running.
Spawn(c) ==
  /\ caller[c] = "spawn"
  /\ CallerGoes(c, "idle")
  /\ IF retryInterval = 0
       THEN UNCHANGED checker
       ELSE \E h \in Checkers \ Alive : CheckerGoes(h, "checking")
  /\ UNCHANGED <<configVars, breaker, errors, bucketUp>>

-----------------------------------------------------------------------------
(* The health checker tasks *)

\* head_bucket answers; the breaker is written in a later step.
Check(h) ==
  /\ checker[h] = "checking"
  /\ CheckerGoes(h, IF bucketUp THEN "close" ELSE "keep")
  /\ UNCHANGED <<configVars, breaker, errors, caller, bucketUp>>

\* Mutant: the task ends without a store.
Close_silent(h) ==
  /\ checker[h] = "close"
  /\ CheckerGoes(h, "none")
  /\ UNCHANGED <<configVars, breaker, errors, caller, bucketUp>>

\* The first success closes the breaker and ends the task.
Close(h) ==
  /\ checker[h] = "close"
  /\ breaker' = FALSE
  /\ CheckerGoes(h, "none")
  /\ UNCHANGED <<configVars, errors, caller, bucketUp>>

\* Mutant: both arms of the match leave the loop.
KeepOpen_once(h) ==
  /\ checker[h] = "keep"
  /\ breaker' = TRUE
  /\ CheckerGoes(h, "none")
  /\ UNCHANGED <<configVars, errors, caller, bucketUp>>

\* A failure stores true and sleeps for the interval.
KeepOpen(h) ==
  /\ checker[h] = "keep"
  /\ breaker' = TRUE
  /\ CheckerGoes(h, "asleep")
  /\ UNCHANGED <<configVars, errors, caller, bucketUp>>

Wake(h) ==
  /\ checker[h] = "asleep"
  /\ CheckerGoes(h, "checking")
  /\ UNCHANGED <<configVars, breaker, errors, caller, bucketUp>>

\* The bucket becomes unreachable or is back.
BucketFlips ==
  /\ bucketUp' = ~bucketUp
  /\ UNCHANGED <<configVars, breaker, errors, caller, checker>>

-----------------------------------------------------------------------------

Init ==
  /\ threshold \in Thresholds
  /\ retryInterval \in RetryIntervals
  /\ breaker = FALSE
  /\ errors = 0
  /\ caller = [c \in Callers |-> "idle"]
  /\ checker = [h \in Checkers |-> "none"]
  /\ bucketUp = TRUE

Proceed(c) == CallEnds(c) \/ CallFails(c) \/ CountError(c) \/ Trip(c) \/ Reset(c) \/ Spawn(c)

HealthChecker(h) == Check(h) \/ Close(h) \/ KeepOpen(h) \/ Wake(h)

Next ==
  \/ \E c \in Callers : Begin(c) \/ Proceed(c)
  \/ \E h \in Checkers : HealthChecker(h)
  \/ BucketFlips

Spec == Init /\ [][Next]_vars

\* A call to S3 comes back, with an answer or an error, and a task that can run
\* is run; nothing forces anyone to call S3 or the bucket to change.
Fairness ==
  /\ \A c \in Callers : WF_vars(Proceed(c))
  /\ \A h \in Checkers : WF_vars(HealthChecker(h))

FairSpec == Spec /\ Fairness

-----------------------------------------------------------------------------
(* Properties *)

\* Every variable has the type the code gives it.
TypeOK ==
  /\ threshold \in Thresholds
  /\ retryInterval \in RetryIntervals
  /\ breaker \in BOOLEAN
  /\ errors \in Nat
  /\ caller \in [Callers -> CallerStates]
  /\ checker \in [Checkers -> CheckerStates]
  /\ bucketUp \in BOOLEAN

\* An open breaker is never orphaned: with a retry interval there is always a
\* health checker that will look at the bucket again, or a caller about to
\* start one, however many trips, stale verdicts and closing checkers overlap.
OpenHasChecker ==
  breaker /\ retryInterval > 0 =>
    Alive # {} \/ \E c \in Callers : caller[c] \in {"reset", "spawn"}

\* The errors over the threshold are at most as many as the callers that are
\* about to trip the breaker and reset the counter: a trip is never missed,
\* whichever callers' fetch_add and reset interleave.
TripNotMissed ==
  threshold > 0 /\ errors > threshold => errors - threshold <= Cardinality(Tripping)

\* config.rs: storage_backend_failures = 0 disables the circuit breaker.
ZeroDisables == threshold = 0 => ~breaker /\ Alive = {}

\* config.rs: backend_retry_interval_secs = 0 disables the health checker.  A
\* breaker that opens is then open for the rest of the run of the process: no
\* other trip, failed call or checker closes it, so S3 is not used again.
NoRetryStaysOpen == [][retryInterval = 0 /\ breaker => breaker']_vars

\* With a retry interval the breaker stays closed for good once the bucket
\* stays reachable, whatever stale verdicts and late trips are still under way.
Recovers == retryInterval > 0 => (<>[]bucketUp => <>[](~breaker))

-----------------------------------------------------------------------------
(* What the comments say and the code does not do *)

\* s3.rs, start_s3_health_checker: a failed check keeps CIRCUIT_BREAKER at true.
FailedCheckOnlyKeepsOpen ==
  [][\A h \in Checkers : checker[h] = "keep" /\ checker'[h] # "keep" => breaker]_vars

=============================================================================
