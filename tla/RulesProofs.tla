---------------------------- MODULE RulesProofs -----------------------------
(***************************************************************************)
(* Proofs about Rules for any number of handlers, keys and URIs, whatever  *)
(* the configuration says, and with no bound on the hits that matters.     *)
(***************************************************************************)
EXTENDS Rules, TLAPS

RequestType == [key : Keys, bypass : BOOLEAN, force : BOOLEAN]

-----------------------------------------------------------------------------
(* Arithmetic *)

\* Multiplication is monotone.
LEMMA TimesMonotone ==
  ASSUME NEW a \in Nat, NEW b \in Nat, NEW c \in Nat, a <= b
  PROVE  a * c <= b * c
<1>1. (b - a) \in Nat /\ (b - a) * c >= 0
  BY SMT
<1>2. b * c = a * c + (b - a) * c
  BY SMT
<1> QED BY <1>1, <1>2

\* What 100 / percentage.max(1) is for a u8: 0 above 100, and up to 100 the
\* greatest number of shares that fits.
LEMMA ModulusBounds ==
  ASSUME percentage \in 0 .. 255
  PROVE  /\ modulus \in Nat
         /\ percentage > 100 => modulus = 0
         /\ percentage \in 1 .. 100 =>
              /\ modulus >= 1
              /\ modulus * percentage <= 100
              /\ 100 < 2 * (modulus * percentage)
<1> DEFINE p == AtLeast1(percentage)
<1>1. p \in 1 .. 255 /\ (percentage # 0 => p = percentage)
  BY DEF AtLeast1
<1>2. modulus = 100 \div p
  BY DEF modulus
<1> HIDE DEF p
<1>3. 100 \div p \in Nat /\ 100 = (p * (100 \div p)) + (100 % p) /\ 100 % p \in 0 .. p - 1
  BY <1>1, SMT
<1>4. ASSUME percentage > 100 PROVE modulus = 0
  <2>1. p >= 101
    BY <1>1, <1>4
  <2>2. 100 \div p >= 1 => 1 * p <= (100 \div p) * p
    BY <1>1, <1>3, TimesMonotone
  <2>3. (100 \div p) * p = p * (100 \div p) /\ p * (100 \div p) <= 100
    BY <1>1, <1>3
  <2>4. ~ (100 \div p >= 1)
    BY <1>1, <1>3, <2>1, <2>2, <2>3
  <2> QED BY <1>2, <1>3, <2>4
<1>5. ASSUME percentage \in 1 .. 100
      PROVE  modulus >= 1 /\ modulus * percentage <= 100 /\ 100 < 2 * (modulus * percentage)
  <2>1. p \in 1 .. 100 /\ p = percentage
    BY <1>1, <1>5
  <2>2. 100 \div p >= 1
    BY <1>3, <2>1
  <2>3. 1 * p <= (100 \div p) * p
    BY <1>3, <2>1, <2>2, TimesMonotone
  <2> QED BY <1>2, <1>3, <2>1, <2>2, <2>3
<1> QED BY <1>1, <1>2, <1>3, <1>4, <1>5
-----------------------------------------------------------------------------
(* The invariant *)

\* Refreshes are counted with the hits: one for every modulus of them.
InStep(k) ==
  /\ percentage = 0 => counter[k] = 0 /\ refreshes[k] = 0
  /\ percentage \in 1 .. 100 =>
       /\ refreshes[k] * modulus <= counter[k]
       /\ counter[k] < (refreshes[k] + 1) * modulus

IInv == TypeOK /\ PanicsOnlyAbove100 /\ \A k \in Keys : InStep(k)

\* The strengthening holds at the start.
LEMMA InitHolds == Init => IInv
<1> SUFFICES ASSUME Init PROVE IInv
  OBVIOUS
<1>1. TypeOK
  BY RulesAssumption DEF Init, TypeOK, RulesAssumption
<1>2. PanicsOnlyAbove100
  BY DEF Init, PanicsOnlyAbove100
<1>3. ASSUME NEW k \in Keys PROVE InStep(k)
  <2>1. counter[k] = 0 /\ refreshes[k] = 0 /\ percentage \in 0 .. 255
    BY <1>1 DEF Init, TypeOK
  <2>2. modulus \in Nat /\ (percentage \in 1 .. 100 => modulus >= 1)
    BY <2>1, ModulusBounds
  <2>3. 0 * modulus = 0 /\ (0 + 1) * modulus = modulus
    BY <2>2
  <2> HIDE DEF modulus
  <2> QED BY <2>1, <2>2, <2>3 DEF InStep
<1> QED BY <1>1, <1>2, <1>3 DEF IInv

\* A request whose task has panicked is gone.
LEMMA DropTyped ==
  ASSUME TypeOK, NEW r \in Requests, Drop(r)
  PROVE  /\ pc' \in [Requests -> {"idle", "arrived", "refresh", "forward", "cache"}]
         /\ req' \in [Requests -> RequestType \cup {None}]
         /\ \A s \in Requests : pc'[s] = "idle" <=> req'[s] = None
         /\ \A s \in Requests : pc'[s] \in {pc[s], "idle"}
BY DEF TypeOK, Drop, Goto, RequestType

\* A handler that has a request moves on with it.
LEMMA MoveTyped ==
  ASSUME TypeOK, NEW r \in Requests, pc[r] # "idle",
         NEW label \in {"arrived", "refresh", "forward", "cache"}, Goto(r, label),
         NEW force \in BOOLEAN,
         req' = req \/ req' = [req EXCEPT ![r].force = force]
  PROVE  /\ pc' \in [Requests -> {"idle", "arrived", "refresh", "forward", "cache"}]
         /\ req' \in [Requests -> RequestType \cup {None}]
         /\ \A s \in Requests : pc'[s] = "idle" <=> req'[s] = None
         /\ \A s \in Requests \ {r} : pc'[s] = pc[s]
         /\ pc'[r] = label
<1>1. /\ pc \in [Requests -> {"idle", "arrived", "refresh", "forward", "cache"}]
      /\ req \in [Requests -> RequestType \cup {None}]
      /\ \A s \in Requests : pc[s] = "idle" <=> req[s] = None
  BY DEF TypeOK, RequestType
<1>2. req[r] \in RequestType
  BY <1>1
<1>3. [req[r] EXCEPT !.force = force] \in RequestType
  BY <1>2 DEF RequestType
<1>4. None \notin RequestType
  BY RulesAssumption DEF RulesAssumption, RequestType
<1> QED BY <1>1, <1>2, <1>3, <1>4 DEF Goto

\* The next hit: the share stays in step, whichever way the division comes out.
LEMMA HitKeepsStep ==
  ASSUME NEW m \in Nat, m >= 1, NEW c \in Nat, NEW n \in Nat,
         n * m <= c, c < (n + 1) * m
  PROVE  /\ (c + 1) % m = 0 => (n + 1) * m <= c + 1 /\ c + 1 < (n + 2) * m
         /\ (c + 1) % m # 0 => n * m <= c + 1 /\ c + 1 < (n + 1) * m
<1> DEFINE q == (c + 1) \div m
<1>1. q \in Nat /\ c + 1 = (m * q) + ((c + 1) % m) /\ (c + 1) % m \in 0 .. m - 1
  BY SMT
<1>2. m * q = q * m
  BY <1>1
<1> HIDE DEF q
<1>3. (n + 2) * m = (n + 1) * m + m /\ (n + 1) * m = n * m + m /\ (q + 1) * m = q * m + m
      /\ (n + 1) * m \in Int /\ n * m \in Int /\ q * m \in Int
  BY <1>1
<1>4. ASSUME (c + 1) % m = 0 PROVE (n + 1) * m <= c + 1
  <2>1. c + 1 = q * m
    BY <1>1, <1>2, <1>4
  <2>2. CASE q <= n
    BY <1>1, <1>3, <2>1, <2>2, TimesMonotone
  <2>3. CASE n + 1 <= q
    BY <1>1, <2>1, <2>3, TimesMonotone
  <2> QED BY <1>1, <2>2, <2>3
<1>5. ASSUME (c + 1) % m # 0 PROVE c + 1 < (n + 1) * m
  <2>1. q * m < c + 1 /\ c + 1 < (q + 1) * m
    BY <1>1, <1>2, <1>3, <1>5
  <2>2. CASE n + 1 <= q
    BY <1>1, <1>3, <2>1, <2>2, TimesMonotone
  <2>3. CASE q + 1 <= n + 1
    <3>1. (q + 1) * m <= (n + 1) * m
      BY <1>1, <2>3, TimesMonotone
    <3> QED BY <1>1, <1>3, <2>1, <3>1
  <2> QED BY <1>1, <2>2, <2>3
<1> QED BY <1>3, <1>4, <1>5

\* One request asks the refresh rule.
LEMMA RefreshKeeps ==
  ASSUME IInv, NEW r \in Requests, should_refresh(r)
  PROVE  IInv'
<1> DEFINE k == req[r].key
<1>1. /\ TypeOK /\ PanicsOnlyAbove100 /\ pc[r] = "arrived"
      /\ UNCHANGED <<configVars, failAge>> /\ modulus' = modulus
  BY DEF IInv, should_refresh, configVars, modulus
<1>2. req[r] \in RequestType /\ k \in Keys /\ req[r].bypass \in BOOLEAN
  BY <1>1 DEF TypeOK, RequestType
<1>3. /\ modulus \in Nat
      /\ percentage > 100 => modulus = 0
      /\ percentage \in 1 .. 100 => modulus >= 1
  BY <1>1, ModulusBounds DEF TypeOK
<1>quiet. ASSUME UNCHANGED <<counter, refreshes>> PROVE \A x \in Keys : InStep(x)'
  <2> HIDE DEF modulus
  <2> QED BY <1>1, <1>quiet DEF IInv, InStep, configVars
<1>panic. ASSUME Panic(r), UNCHANGED refreshes, percentage > 100,
                 counter' \in [Keys -> Nat]
          PROVE  IInv'
  <2>1. Drop(r) /\ poisoned' = TRUE /\ died' = TRUE
    BY <1>panic DEF Panic
  <2>2. TypeOK'
    BY <1>1, <1>panic, <2>1, DropTyped DEF TypeOK, configVars, RequestType
  <2>3. PanicsOnlyAbove100'
    BY <1>1, <1>panic, <2>1, DropTyped DEF PanicsOnlyAbove100, configVars
  <2>4. \A x \in Keys : InStep(x)'
    BY <1>1, <1>panic DEF InStep, configVars, TypeOK
  <2> QED BY <2>2, <2>3, <2>4 DEF IInv
<1>4. CASE percentage = 0 /\ UNCHANGED counterVars
  <2>1. req' = [req EXCEPT ![r].force = req[r].bypass] /\ Goto(r, "refresh")
    BY <1>1, <1>4 DEF should_refresh
  <2>2. TypeOK'
    BY <1>1, <1>2, <1>4, <2>1, MoveTyped DEF TypeOK, configVars, counterVars, RequestType
  <2>3. PanicsOnlyAbove100'
    BY <1>1, <1>4 DEF PanicsOnlyAbove100, configVars, counterVars
  <2> QED BY <1>4, <1>quiet, <2>2, <2>3 DEF IInv, counterVars
<1>5. CASE percentage # 0 /\ poisoned /\ Panic(r) /\ UNCHANGED <<counter, refreshes>>
  <2>1. percentage > 100 /\ counter' \in [Keys -> Nat]
    BY <1>1, <1>5 DEF PanicsOnlyAbove100, TypeOK
  <2> QED BY <1>5, <1>panic, <2>1
<1>6. CASE percentage # 0 /\ ~poisoned /\ CountHit(k)
  <2>1. /\ counter' = [counter EXCEPT ![k] = counter[k] + 1]
        /\ counter[k] \in Nat /\ counter' \in [Keys -> Nat]
        /\ counter'[k] = counter[k] + 1
    BY <1>1, <1>2, <1>6 DEF CountHit, TypeOK
  <2>2. CASE modulus = 0
    <3>1. Panic(r) /\ UNCHANGED refreshes
      BY <1>1, <1>6, <2>2 DEF should_refresh, Panic, counterVars
    <3>2. percentage > 100
      BY <1>1, <1>3, <1>6, <2>2 DEF TypeOK
    <3> QED BY <1>panic, <2>1, <3>1, <3>2
  <2>3. CASE modulus # 0
    <3> DEFINE should == counter'[k] % modulus = 0
    <3>1. /\ req' = [req EXCEPT ![r].force = should \/ req[r].bypass]
          /\ refreshes' = [refreshes EXCEPT ![k] = IF should THEN refreshes[k] + 1 ELSE refreshes[k]]
          /\ Goto(r, "refresh")
          /\ UNCHANGED <<poisoned, died>>
      BY <1>1, <1>6, <2>3 DEF should_refresh
    <3>2. percentage \in 1 .. 100 /\ modulus >= 1 /\ refreshes[k] \in Nat
      BY <1>1, <1>2, <1>3, <1>6, <2>3 DEF TypeOK
    <3>3. refreshes' \in [Keys -> Nat]
      BY <1>1, <3>1, <3>2 DEF TypeOK
    <3>4. TypeOK'
      BY <1>1, <1>2, <2>1, <3>1, <3>3, MoveTyped DEF TypeOK, configVars, RequestType
    <3>5. PanicsOnlyAbove100'
      BY <1>1, <3>1, <3>2 DEF PanicsOnlyAbove100, configVars
    <3>6. ASSUME NEW x \in Keys PROVE InStep(x)'
      <4>1. InStep(x)
        BY DEF IInv
      <4> HIDE DEF modulus
      <4>2. CASE x # k
        <5>1. counter'[x] = counter[x] /\ refreshes'[x] = refreshes[x]
          BY <1>1, <2>1, <3>1, <4>2 DEF TypeOK
        <5> QED BY <1>1, <4>1, <5>1 DEF InStep, configVars
      <4>3. CASE x = k
        <5>1. refreshes[k] * modulus <= counter[k] /\ counter[k] < (refreshes[k] + 1) * modulus
          BY <3>2, <4>1, <4>3 DEF InStep
        <5>2. CASE should
          <6>1. refreshes'[k] = refreshes[k] + 1
            BY <1>1, <1>2, <3>1, <5>2 DEF TypeOK
          <6>2. /\ (refreshes[k] + 1) * modulus <= counter[k] + 1
                /\ counter[k] + 1 < (refreshes[k] + 2) * modulus
            BY <1>3, <2>1, <3>2, <5>1, <5>2, HitKeepsStep
          <6>3. (refreshes[k] + 1) + 1 = refreshes[k] + 2
            BY <3>2
          <6> QED BY <1>1, <2>1, <3>2, <4>3, <6>1, <6>2, <6>3 DEF InStep, configVars
        <5>3. CASE ~should
          <6>1. refreshes'[k] = refreshes[k]
            BY <1>1, <1>2, <3>1, <5>3 DEF TypeOK
          <6>2. /\ refreshes[k] * modulus <= counter[k] + 1
                /\ counter[k] + 1 < (refreshes[k] + 1) * modulus
            BY <1>3, <2>1, <3>2, <5>1, <5>3, HitKeepsStep
          <6> QED BY <1>1, <2>1, <3>2, <4>3, <6>1, <6>2 DEF InStep, configVars
        <5> QED BY <5>2, <5>3
      <4> QED BY <4>2, <4>3
    <3> QED BY <3>4, <3>5, <3>6 DEF IInv
  <2> QED BY <2>2, <2>3
<1> QED BY <1>1, <1>4, <1>5, <1>6 DEF should_refresh

\* Nothing but the refresh rule touches its counters.
LEMMA OthersKeep ==
  ASSUME IInv, UNCHANGED <<configVars, counterVars>>,
         TypeOK',
         \A r \in Requests : pc'[r] \in {pc[r], "idle", "arrived"} \/ pc[r] \in {"refresh", "forward"}
  PROVE  IInv'
<1>1. PanicsOnlyAbove100'
  BY DEF IInv, PanicsOnlyAbove100, configVars, counterVars
<1>2. modulus' = modulus
  BY DEF modulus, configVars
<1> HIDE DEF modulus
<1>3. \A k \in Keys : InStep(k)'
  BY <1>2 DEF IInv, InStep, configVars, counterVars
<1> QED BY <1>1, <1>3 DEF IInv

\* Every step keeps the strengthening.
LEMMA StepHolds == IInv /\ [Next]_vars => IInv'
<1> SUFFICES ASSUME IInv, [Next]_vars PROVE IInv'
  OBVIOUS
<1>0. TypeOK
  BY DEF IInv
<1>1. ASSUME NEW r \in Requests, Arrive(r) PROVE IInv'
  <2>1. PICK k \in Keys, bypass \in BOOLEAN :
          req' = [req EXCEPT ![r] = [key |-> k, bypass |-> bypass, force |-> FALSE]]
    BY <1>1 DEF Arrive
  <2>2. /\ pc[r] = "idle" /\ Goto(r, "arrived")
        /\ UNCHANGED <<configVars, counterVars, failAge>>
    BY <1>1 DEF Arrive
  <2>3. [key |-> k, bypass |-> bypass, force |-> FALSE] \in RequestType
    BY DEF RequestType
  <2>4. None \notin RequestType
    BY RulesAssumption DEF RulesAssumption, RequestType
  <2>5. TypeOK'
    BY <1>0, <2>1, <2>2, <2>3, <2>4
       DEF TypeOK, Goto, configVars, counterVars, RequestType
  <2> QED BY <1>0, <2>2, <2>5, OthersKeep DEF Goto, TypeOK
<1>2. ASSUME NEW r \in Requests, Decide(r) PROVE IInv'
  <2>1. PICK label \in {"cache", "forward"} : Goto(r, label)
    BY <1>2 DEF Decide
  <2>2. pc[r] = "refresh" /\ UNCHANGED <<configVars, counterVars, failAge, req>>
    BY <1>2 DEF Decide
  <2>3. TypeOK'
    BY <1>0, <2>1, <2>2, MoveTyped DEF TypeOK, configVars, counterVars, RequestType
  <2> QED BY <1>0, <2>1, <2>2, <2>3, OthersKeep DEF Goto, TypeOK
<1>3. ASSUME NEW r \in Requests, Forwarded(r) PROVE IInv'
  <2>1. pc[r] = "forward" /\ UNCHANGED <<configVars, counterVars>> /\ req[r].key \in Keys
    BY <1>0, <1>3 DEF Forwarded, TypeOK
  <2>2. CASE Drop(r) /\ (UNCHANGED failAge \/ mark_latency_fail(UriOf[req[r].key]))
    <3>1. failAge' \in [Uris -> Ages \cup {None}]
      BY <1>0, <2>2, RulesAssumption DEF TypeOK, mark_latency_fail, Ages, RulesAssumption
    <3>2. TypeOK'
      BY <1>0, <2>1, <2>2, <3>1, DropTyped DEF TypeOK, configVars, counterVars, RequestType
    <3> QED BY <1>0, <2>1, <2>2, <3>2, DropTyped, OthersKeep
  <2>3. CASE Goto(r, "cache") /\ UNCHANGED <<req, failAge>>
    <3>1. TypeOK'
      BY <1>0, <2>1, <2>3, MoveTyped DEF TypeOK, configVars, counterVars, RequestType
    <3> QED BY <1>0, <2>1, <2>3, <3>1, OthersKeep DEF Goto, TypeOK
  <2> QED BY <1>3, <2>2, <2>3 DEF Forwarded
<1>4. ASSUME NEW r \in Requests, TryCache(r) PROVE IInv'
  <2>1. Drop(r) /\ UNCHANGED <<configVars, counterVars, failAge>>
    BY <1>4 DEF TryCache
  <2>2. TypeOK'
    BY <1>0, <2>1, DropTyped DEF TypeOK, configVars, counterVars, RequestType
  <2> QED BY <1>0, <2>1, <2>2, DropTyped, OthersKeep
<1>5. CASE Tick
  <2>1. failAge' \in [Uris -> Ages \cup {None}]
    BY <1>0, <1>5, RulesAssumption DEF Tick, Grow, TypeOK, Ages, RulesAssumption
  <2>2. TypeOK'
    BY <1>0, <1>5, <2>1 DEF Tick, TypeOK, configVars, counterVars
  <2> QED BY <1>5, <2>2, OthersKeep DEF Tick
<1>6. CASE UNCHANGED vars
  <2>1. TypeOK'
    BY <1>0, <1>6 DEF vars, TypeOK, configVars, counterVars
  <2> QED BY <1>6, <2>1, OthersKeep DEF vars
<1> QED BY <1>1, <1>2, <1>3, <1>4, <1>5, <1>6, RefreshKeeps DEF Next, Handler

\* The strengthening holds in every state.
LEMMA Inductive == Spec => []IInv
<1> QED BY InitHolds, StepHolds, PTL DEF Spec

-----------------------------------------------------------------------------
(* The theorems *)

\* Every variable keeps its type, and handlers and requests belong together.
THEOREM TypeCorrect == Spec => []TypeOK
<1>1. IInv => TypeOK
  BY DEF IInv
<1> QED BY <1>1, Inductive, PTL

\* No percentage up to 100 panics a handler; every one above stops the first.
THEOREM OnlyAbove100Panics == Spec => []PanicsOnlyAbove100
<1>1. IInv => PanicsOnlyAbove100
  BY DEF IInv
<1> QED BY <1>1, Inductive, PTL

\* For every percentage up to 100 the share of refreshes is at least what is
\* configured and at most twice that.
THEOREM ShareOfRefreshes == Spec => []RefreshShare
<1>1. ASSUME IInv PROVE RefreshShare
  <2> SUFFICES ASSUME percentage <= 100, NEW k \in Keys
               PROVE  /\ counter[k] * percentage < 100 * (refreshes[k] + 1)
                      /\ refreshes[k] * 100 <= 2 * percentage * counter[k]
    BY DEF RefreshShare
  <2> DEFINE c == counter[k]
             n == refreshes[k]
             p == percentage
             m == modulus
  <2>1. c \in Nat /\ n \in Nat /\ p \in 0 .. 100 /\ InStep(k)
    BY <1>1 DEF IInv, TypeOK
  <2>2. CASE p = 0
    <3>1. c = 0 /\ n = 0
      BY <2>1, <2>2 DEF InStep
    <3> QED BY <2>1, <2>2, <3>1
  <2>3. CASE p # 0
    <3>1. m \in Nat /\ m * p <= 100 /\ 100 < 2 * (m * p)
      BY <1>1, <2>1, <2>3, ModulusBounds DEF IInv, TypeOK
    <3>2. n * m <= c /\ c + 1 <= (n + 1) * m
      BY <2>1, <2>3, <3>1 DEF InStep
    <3> HIDE DEF c, n, p, m
    <3>3. (c + 1) * p <= ((n + 1) * m) * p /\ (m * p) * (n + 1) <= 100 * (n + 1)
      BY <2>1, <3>1, <3>2, TimesMonotone
    <3>4. ((n + 1) * m) * p = (m * p) * (n + 1) /\ (c + 1) * p = c * p + p
      BY <2>1, <3>1
    <3>5. c * p < 100 * (n + 1)
      <4>1. (c + 1) * p <= 100 * (n + 1)
        BY <3>3, <3>4, <2>1, <3>1
      <4>2. c * p \in Int /\ 100 * (n + 1) \in Int /\ p \in Int /\ 1 <= p
        BY <2>1, <2>3
      <4>3. c * p < (c + 1) * p
        BY <3>4, <4>2
      <4> QED BY <2>1, <4>1, <4>2, <4>3
    <3>6. (n * m) * p <= c * p /\ 100 * n <= (2 * (m * p)) * n
      BY <2>1, <3>1, <3>2, TimesMonotone
    <3>7. (2 * (m * p)) * n = 2 * ((n * m) * p) /\ 100 * n = n * 100 /\ 2 * p * c = 2 * (c * p)
      BY <2>1, <3>1
    <3>8. n * 100 <= 2 * p * c
      BY <2>1, <3>1, <3>6, <3>7
    <3> QED BY <3>5, <3>8 DEF c, n, p
  <2> QED BY <2>2, <2>3
<1> QED BY <1>1, Inductive, PTL

=============================================================================
