------------------------ MODULE CircuitBreakerProofs ------------------------
(***************************************************************************)
(* Proofs about CircuitBreaker for any number of callers and health        *)
(* checkers, any thresholds and any retry intervals.                       *)
(***************************************************************************)
EXTENDS CircuitBreaker, FiniteSetTheorems, TLAPS

\* The state of every variable stays within its type: a reset never takes the
\* counter below zero, and no task reaches a state the code does not have.
THEOREM TypeCorrect == Spec => []TypeOK
<1>1. ASSUME Init PROVE TypeOK
  <2>1. /\ breaker \in BOOLEAN /\ bucketUp \in BOOLEAN
        /\ threshold \in Thresholds /\ retryInterval \in RetryIntervals
    BY <1>1 DEF Init
  <2>2. errors \in Nat
    BY <1>1 DEF Init
  <2>3. caller \in [Callers -> CallerStates]
    BY <1>1 DEF Init, CallerStates
  <2>4. checker \in [Checkers -> CheckerStates]
    BY <1>1 DEF Init, CheckerStates
  <2> QED
    BY <2>1, <2>2, <2>3, <2>4 DEF TypeOK
<1>2. TypeOK /\ [Next]_vars => TypeOK'
  <2> SUFFICES ASSUME TypeOK, [Next]_vars PROVE TypeOK'
    OBVIOUS
  <2> USE DEF TypeOK, CallerStates, CheckerStates, CallerGoes, CheckerGoes, configVars
  <2>1. ASSUME NEW c \in Callers, Begin(c) PROVE TypeOK'
    BY <2>1 DEF Begin
  <2>2. ASSUME NEW c \in Callers, Proceed(c) PROVE TypeOK'
    <3>1. CASE CallEnds(c) \/ CallFails(c) BY <3>1 DEF CallEnds, CallFails
    <3>2. CASE CountError(c) BY <3>2 DEF CountError
    <3>3. CASE Trip(c) BY <3>3 DEF Trip
    <3>4. CASE Reset(c) BY <3>4 DEF Reset
    <3>5. CASE Spawn(c) BY <3>5 DEF Spawn, Alive
    <3> QED BY <2>2, <3>1, <3>2, <3>3, <3>4, <3>5 DEF Proceed
  <2>3. ASSUME NEW h \in Checkers, HealthChecker(h) PROVE TypeOK'
    BY <2>3 DEF HealthChecker, Check, Close, KeepOpen, Wake
  <2>4. CASE BucketFlips
    BY <2>4 DEF BucketFlips
  <2>5. CASE UNCHANGED vars
    BY <2>5 DEF vars
  <2> QED
    BY <2>1, <2>2, <2>3, <2>4, <2>5 DEF Next
<1> QED
  BY <1>1, <1>2, PTL DEF Spec

\* No step writes the configuration.
LEMMA ConfigIsConstant == [Next]_vars => UNCHANGED configVars
<1> SUFFICES ASSUME [Next]_vars PROVE UNCHANGED configVars
  OBVIOUS
<1> USE DEF configVars
<1>1. ASSUME NEW c \in Callers, Begin(c) \/ Proceed(c) PROVE UNCHANGED configVars
  BY <1>1 DEF Begin, Proceed, CallEnds, CallFails, CountError, Trip, Reset, Spawn
<1>2. ASSUME NEW h \in Checkers, HealthChecker(h) PROVE UNCHANGED configVars
  BY <1>2 DEF HealthChecker, Check, Close, KeepOpen, Wake
<1>3. CASE BucketFlips \/ UNCHANGED vars
  BY <1>3 DEF BucketFlips, vars
<1> QED
  BY <1>1, <1>2, <1>3 DEF Next

\* The settings are natural numbers, as their types in config.rs say.
LEMMA ConfigIsNatural == TypeOK => threshold \in Nat /\ retryInterval \in Nat
  BY BreakerAssumption DEF TypeOK, BreakerAssumption

-----------------------------------------------------------------------------

\* An open breaker always has a health checker alive, or a caller that is about
\* to start one: no interleaving of trips, stale verdicts and closing checkers
\* leaves S3 switched off with nobody to look at the bucket again.
THEOREM NeverOrphaned == Spec => []OpenHasChecker
<1>1. Init => OpenHasChecker
  BY DEF Init, OpenHasChecker
<1>2. TypeOK /\ OpenHasChecker /\ [Next]_vars => OpenHasChecker'
  <2> SUFFICES ASSUME TypeOK, OpenHasChecker, [Next]_vars, breaker', retryInterval' > 0
               PROVE  Alive' # {} \/ \E c \in Callers : caller'[c] \in {"reset", "spawn"}
    BY DEF OpenHasChecker
  <2> USE DEF TypeOK, OpenHasChecker, Alive, CallerStates, CheckerStates,
              CallerGoes, CheckerGoes, configVars
  <2>1. ASSUME NEW c \in Callers, Begin(c)
        PROVE  Alive' # {} \/ \E d \in Callers : caller'[d] \in {"reset", "spawn"}
    BY <2>1 DEF Begin
  <2>2. ASSUME NEW c \in Callers, Proceed(c)
        PROVE  Alive' # {} \/ \E d \in Callers : caller'[d] \in {"reset", "spawn"}
    <3>1. CASE CallEnds(c) \/ CallFails(c) BY <3>1 DEF CallEnds, CallFails
    <3>2. CASE CountError(c) BY <3>2 DEF CountError
    <3>3. CASE Trip(c) BY <3>3 DEF Trip
    <3>4. CASE Reset(c) BY <3>4 DEF Reset
    <3>5. CASE Spawn(c) BY <3>5, ConfigIsNatural DEF Spawn
    <3> QED BY <2>2, <3>1, <3>2, <3>3, <3>4, <3>5 DEF Proceed
  <2>3. ASSUME NEW h \in Checkers, HealthChecker(h)
        PROVE  Alive' # {} \/ \E d \in Callers : caller'[d] \in {"reset", "spawn"}
    BY <2>3 DEF HealthChecker, Check, Close, KeepOpen, Wake
  <2>4. CASE BucketFlips
    BY <2>4 DEF BucketFlips
  <2>5. CASE UNCHANGED vars
    BY <2>5 DEF vars
  <2> QED
    BY <2>1, <2>2, <2>3, <2>4, <2>5 DEF Next
<1> QED
  BY <1>1, <1>2, TypeCorrect, PTL DEF Spec

-----------------------------------------------------------------------------

\* The set of tripping callers is finite, so that it can be counted.
LEMMA TrippingFinite == IsFiniteSet(Tripping) /\ Cardinality(Tripping) \in Nat
<1>1. Tripping \subseteq Callers
  BY DEF Tripping
<1> QED
  BY <1>1, FS_Subset, FS_CardinalityType, BreakerAssumption DEF BreakerAssumption

\* Every error over the threshold has its tripping caller: the atomic counter
\* overshoots the threshold by at most the number of concurrent callers, and no
\* interleaving of increments and resets hides that it was exceeded.
THEOREM NoTripIsMissed == Spec => []TripNotMissed
<1>1. Init => TripNotMissed
  BY BreakerAssumption DEF Init, TripNotMissed, BreakerAssumption
<1>2. TypeOK /\ TripNotMissed /\ [Next]_vars => TripNotMissed'
  <2> SUFFICES ASSUME TypeOK, TripNotMissed, [Next]_vars,
                      threshold' = threshold, threshold > 0, errors' > threshold
               PROVE  errors' - threshold <= Cardinality(Tripping')
    BY ConfigIsConstant DEF TripNotMissed, configVars
  <2>a. threshold \in Nat
    BY ConfigIsNatural
  <2> USE DEF TypeOK, CallerStates, CallerGoes, CheckerGoes, configVars
  <2>same. ASSUME UNCHANGED errors, Tripping' = Tripping
           PROVE  errors' - threshold <= Cardinality(Tripping')
    BY <2>same DEF TripNotMissed
  <2>1. ASSUME NEW c \in Callers, Begin(c)
        PROVE  errors' - threshold <= Cardinality(Tripping')
    <3>1. Tripping' = Tripping BY <2>1 DEF Begin, Tripping
    <3> QED BY <2>1, <3>1, <2>same DEF Begin
  <2>2. ASSUME NEW c \in Callers, Proceed(c)
        PROVE  errors' - threshold <= Cardinality(Tripping')
    <3>1. CASE CallEnds(c) \/ CallFails(c)
      <4>1. Tripping' = Tripping BY <3>1 DEF CallEnds, CallFails, Tripping
      <4> QED BY <3>1, <4>1, <2>same DEF CallEnds, CallFails
    <3>2. CASE CountError(c)
      <4>1. Tripping' = Tripping \cup {c} /\ c \notin Tripping
        BY <3>2 DEF CountError, Tripping
      <4>2. Cardinality(Tripping') = Cardinality(Tripping) + 1
        BY <4>1, TrippingFinite, FS_AddElement
      <4>3. errors' = errors + 1
        BY <3>2 DEF CountError
      <4> QED
        BY <4>2, <4>3, <2>a, TrippingFinite DEF TripNotMissed
    <3>3. CASE Trip(c)
      <4>1. Tripping' = Tripping BY <3>3 DEF Trip, Tripping
      <4> QED BY <3>3, <4>1, <2>same DEF Trip
    <3>4. CASE Reset(c)
      BY <3>4, <2>a DEF Reset
    <3>5. CASE Spawn(c)
      <4>1. Tripping' = Tripping BY <3>5 DEF Spawn, Tripping
      <4> QED BY <3>5, <4>1, <2>same DEF Spawn
    <3> QED BY <2>2, <3>1, <3>2, <3>3, <3>4, <3>5 DEF Proceed
  <2>3. ASSUME NEW h \in Checkers, HealthChecker(h)
        PROVE  errors' - threshold <= Cardinality(Tripping')
    <3>1. UNCHANGED <<errors, caller>>
      BY <2>3 DEF HealthChecker, Check, Close, KeepOpen, Wake
    <3>2. Tripping' = Tripping BY <3>1 DEF Tripping
    <3> QED BY <3>1, <3>2, <2>same
  <2>4. CASE BucketFlips
    <3>1. Tripping' = Tripping BY <2>4 DEF BucketFlips, Tripping
    <3> QED BY <2>4, <3>1, <2>same DEF BucketFlips
  <2>5. CASE UNCHANGED vars
    <3>1. Tripping' = Tripping BY <2>5 DEF vars, Tripping
    <3> QED BY <2>5, <3>1, <2>same DEF vars
  <2> QED
    BY <2>1, <2>2, <2>3, <2>4, <2>5 DEF Next
<1> QED
  BY <1>1, <1>2, TypeCorrect, PTL DEF Spec

-----------------------------------------------------------------------------

\* With a threshold of 0 no caller ever leaves the plain path of a call.
Disabled ==
  threshold = 0 =>
    /\ ~breaker
    /\ \A c \in Callers : caller[c] \in {"idle", "calling", "failed"}
    /\ \A h \in Checkers : checker[h] = "none"

\* storage_backend_failures = 0 disables the breaker: it is never opened and no
\* health checker is ever started, whatever S3 does.
THEOREM DisabledStaysClosed == Spec => []ZeroDisables
<1>1. Init => Disabled
  BY DEF Init, Disabled
<1>2. TypeOK /\ Disabled /\ [Next]_vars => Disabled'
  <2> SUFFICES ASSUME TypeOK, Disabled, [Next]_vars, threshold = 0 PROVE Disabled'
    BY ConfigIsConstant DEF Disabled, configVars
  <2> USE DEF TypeOK, Disabled, CallerGoes, CheckerGoes
  <2>1. ASSUME NEW c \in Callers, Begin(c) \/ Proceed(c) PROVE Disabled'
    BY <2>1 DEF Begin, Proceed, CallEnds, CallFails, CountError, Trip, Reset, Spawn
  <2>2. ASSUME NEW h \in Checkers, HealthChecker(h) PROVE Disabled'
    BY <2>2 DEF HealthChecker, Check, Close, KeepOpen, Wake
  <2>3. CASE BucketFlips \/ UNCHANGED vars
    BY <2>3 DEF BucketFlips, vars
  <2> QED
    BY <2>1, <2>2, <2>3 DEF Next
<1>3. Disabled => ZeroDisables
  BY DEF Disabled, ZeroDisables, Alive
<1> QED
  BY <1>1, <1>2, <1>3, TypeCorrect, PTL DEF Spec

-----------------------------------------------------------------------------

\* With a retry interval of 0 no health checker is ever alive.
Unattended == retryInterval = 0 => \A h \in Checkers : checker[h] = "none"

\* A health checker comes from Spawn alone, which asks for an interval above 0.
LEMMA UnattendedInv == Spec => []Unattended
<1>1. Init => Unattended
  BY DEF Init, Unattended
<1>2. TypeOK /\ Unattended /\ [Next]_vars => Unattended'
  <2> SUFFICES ASSUME TypeOK, Unattended, [Next]_vars, retryInterval = 0
               PROVE  \A h \in Checkers : checker'[h] = "none"
    BY ConfigIsConstant DEF Unattended, configVars
  <2> USE DEF TypeOK, Unattended, CallerGoes, CheckerGoes
  <2>1. ASSUME NEW c \in Callers, Begin(c) \/ Proceed(c) PROVE checker' = checker
    BY <2>1 DEF Begin, Proceed, CallEnds, CallFails, CountError, Trip, Reset, Spawn
  <2>2. ASSUME NEW h \in Checkers, HealthChecker(h) PROVE FALSE
    BY <2>2 DEF HealthChecker, Check, Close, KeepOpen, Wake
  <2>3. CASE BucketFlips \/ UNCHANGED vars
    BY <2>3 DEF BucketFlips, vars
  <2> QED
    BY <2>1, <2>2, <2>3 DEF Next
<1> QED
  BY <1>1, <1>2, TypeCorrect, PTL DEF Spec

\* backend_retry_interval_secs = 0: an open breaker is open for good, whatever
\* the other callers do that had passed it before it opened.
THEOREM OpenIsFinalWithoutRetry == Spec => NoRetryStaysOpen
<1>1. TypeOK /\ Unattended /\ [Next]_vars => [retryInterval = 0 /\ breaker => breaker']_vars
  <2> SUFFICES ASSUME TypeOK, Unattended, [Next]_vars, retryInterval = 0, breaker
               PROVE  breaker'
    OBVIOUS
  <2> USE DEF TypeOK, Unattended
  <2>1. ASSUME NEW c \in Callers, Begin(c) \/ Proceed(c) PROVE breaker'
    BY <2>1 DEF Begin, Proceed, CallEnds, CallFails, CountError, Trip, Reset, Spawn
  <2>2. ASSUME NEW h \in Checkers, HealthChecker(h) PROVE FALSE
    BY <2>2 DEF HealthChecker, Check, Close, KeepOpen, Wake
  <2>3. CASE BucketFlips \/ UNCHANGED vars
    BY <2>3 DEF BucketFlips, vars
  <2> QED
    BY <2>1, <2>2, <2>3 DEF Next
<1> QED
  BY <1>1, TypeCorrect, UnattendedInv, PTL DEF Spec, NoRetryStaysOpen

=============================================================================
