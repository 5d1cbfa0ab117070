------------------------------- MODULE Rules --------------------------------
(***************************************************************************)
(* The rules that send a request to the downstream or to the cache:        *)
(* should_refresh (src/rules/refresh.rs) with its counters and its         *)
(* integer arithmetic, should_failover and mark_latency_fail               *)
(* (src/rules/latency.rs) with the time that passes, and what              *)
(* proxy_handler does with them.  ProxyHandler takes the first for a free  *)
(* choice and the second for a timer that may run out at any moment; here  *)
(* both are computed, for whatever the configuration file may say.         *)
(*                                                                         *)
(* Abstractions.  Time goes by in ticks of a second.  An age is not told   *)
(* apart from MaxAge once it has reached it, which no ttl exceeds.  A      *)
(* request the semaphore turns away is one whose forward fails.            *)
(***************************************************************************)
EXTENDS Integers

CONSTANTS
  Requests,     \* handler tasks
  Keys,         \* cache keys
  Uris,         \* request URIs
  UriOf,        \* the URI of a key
  Percentages,  \* values of cache.refresh_percentage to look at
  Ttls,         \* values of cache.ttl_seconds to look at
  MaxAge,       \* bound: ages are counted up to this
  MaxHits,      \* bound: requests counted per key
  None

ASSUME RulesAssumption ==
  /\ UriOf \in [Keys -> Uris]
  /\ Percentages \subseteq 0 .. 255   \* a u8 that from_file does not check
  /\ MaxAge \in Nat
  /\ Ttls \subseteq 0 .. MaxAge
  /\ MaxHits \in Nat
  /\ None \notin 0 .. MaxAge
  /\ None \notin [key : Keys, bypass : BOOLEAN, force : BOOLEAN]

VARIABLES
  percentage,   \* config: cache.refresh_percentage
  ttl,          \* config: cache.ttl_seconds
  counter,      \* REFRESH_COUNTERS
  poisoned,     \* its mutex was held by a task that panicked
  failAge,      \* LATENCY_FAILS: time since the last mark of each URI
  pc,           \* where each handler stands
  req,          \* its request
  refreshes,    \* history: how often should_refresh has fired for each key
  died          \* history: some handler has panicked

configVars  == <<percentage, ttl>>
counterVars == <<counter, poisoned, refreshes, died>>
vars == <<configVars, counterVars, failAge, pc, req>>

Ages == 0 .. MaxAge

AtLeast1(n) == IF n < 1 THEN 1 ELSE n

Grow(age) == IF age \in 0 .. MaxAge - 1 THEN age + 1 ELSE age

Goto(r, label) == pc' = [pc EXCEPT ![r] = label]

Drop(r) == Goto(r, "idle") /\ req' = [req EXCEPT ![r] = None]

-----------------------------------------------------------------------------
(* refresh.rs *)

\* Mutant: an off-by-one in the modulus.
modulus_off == 100 \div (percentage + 1)

\* u8 division.
modulus == 100 \div AtLeast1(percentage)

\* Mutant: the hits that are left are counted down.
CountHit_down(k) == counter' = [counter EXCEPT ![k] = @ - 1]

\* Mutant: the counters are not kept apart.
CountHit_shared(k) == counter' = [x \in Keys |-> counter[x] + 1]

CountHit(k) == counter' = [counter EXCEPT ![k] = @ + 1]

\* The task panics with the mutex locked or locking it: its client gets nothing.
Panic(r) ==
  /\ poisoned' = TRUE
  /\ died' = TRUE
  /\ Drop(r)

\* should_refresh(&key) || bypass_cache, in this order.
should_refresh(r) ==
  LET k == req[r].key IN
    /\ pc[r] = "arrived"
    /\ \/ /\ percentage = 0
          /\ req' = [req EXCEPT ![r].force = req[r].bypass]
          /\ Goto(r, "refresh")
          /\ UNCHANGED counterVars
       \/ /\ percentage # 0 /\ poisoned
          /\ Panic(r)
          /\ UNCHANGED <<counter, refreshes>>
       \/ /\ percentage # 0 /\ ~poisoned
          /\ counter[k] < MaxHits
          /\ CountHit(k)
          /\ IF modulus = 0
               THEN Panic(r) /\ UNCHANGED refreshes
               ELSE LET should == counter'[k] % modulus = 0 IN
                      /\ req' = [req EXCEPT ![r].force = should \/ req[r].bypass]
                      /\ refreshes' = [refreshes EXCEPT ![k] = IF should THEN @ + 1 ELSE @]
                      /\ Goto(r, "refresh")
                      /\ UNCHANGED <<poisoned, died>>
    /\ UNCHANGED <<configVars, failAge>>

-----------------------------------------------------------------------------
(* latency.rs *)

should_failover(uri) == failAge[uri] # None /\ failAge[uri] < ttl

mark_latency_fail(uri) == failAge' = [failAge EXCEPT ![uri] = 0]

-----------------------------------------------------------------------------
(* proxy_handler *)

Arrive(r) ==
  /\ pc[r] = "idle"
  /\ \E k \in Keys, bypass \in BOOLEAN :
       req' = [req EXCEPT ![r] = [key |-> k, bypass |-> bypass, force |-> FALSE]]
  /\ Goto(r, "arrived")
  /\ UNCHANGED <<configVars, counterVars, failAge>>

Decide(r) ==
  /\ pc[r] = "refresh"
  /\ Goto(r, IF should_failover(UriOf[req[r].key]) /\ ~req[r].force
               THEN "cache" ELSE "forward")
  /\ UNCHANGED <<configVars, counterVars, failAge, req>>

\* forward_request comes back: with a response, in time or too slow, or with an
\* error.  What becomes of the response is ProxyHandler's.
Forwarded(r) ==
  /\ pc[r] = "forward"
  /\ \/ Drop(r) /\ UNCHANGED failAge
     \/ Drop(r) /\ mark_latency_fail(UriOf[req[r].key])
     \/ Goto(r, "cache") /\ UNCHANGED <<req, failAge>>
  /\ UNCHANGED <<configVars, counterVars>>

\* Mutant: the time it takes to answer from the cache is measured, too.
TryCache_marked(r) ==
  /\ pc[r] = "cache"
  /\ mark_latency_fail(UriOf[req[r].key])
  /\ Drop(r)
  /\ UNCHANGED <<configVars, counterVars>>

\* try_cache answers, with or without an entry.
TryCache(r) ==
  /\ pc[r] = "cache"
  /\ Drop(r)
  /\ UNCHANGED <<configVars, counterVars, failAge>>

-----------------------------------------------------------------------------
(* The environment *)

\* A second passes.
Tick ==
  /\ failAge' = [u \in Uris |-> Grow(failAge[u])]
  /\ UNCHANGED <<configVars, counterVars, pc, req>>

-----------------------------------------------------------------------------

Init ==
  /\ percentage \in Percentages
  /\ ttl \in Ttls
  /\ counter = [k \in Keys |-> 0]
  /\ poisoned = FALSE
  /\ failAge = [u \in Uris |-> None]
  /\ pc = [r \in Requests |-> "idle"]
  /\ req = [r \in Requests |-> None]
  /\ refreshes = [k \in Keys |-> 0]
  /\ died = FALSE

Handler(r) ==
  \/ Arrive(r) \/ should_refresh(r) \/ Decide(r)
  \/ Forwarded(r) \/ TryCache(r)

Next ==
  \/ \E r \in Requests : Handler(r)
  \/ Tick

Spec == Init /\ [][Next]_vars

\* Time passes; of clients and of the downstream nothing is assumed.
FairSpec == Spec /\ WF_vars(Tick)

-----------------------------------------------------------------------------
(* Properties *)

\* Types; a handler has a request exactly while it handles one, and a counter
\* never falls below zero.
TypeOK ==
  /\ percentage \in 0 .. 255
  /\ ttl \in 0 .. MaxAge
  /\ counter \in [Keys -> Nat]
  /\ refreshes \in [Keys -> Nat]
  /\ {poisoned, died} \subseteq BOOLEAN
  /\ failAge \in [Uris -> Ages \cup {None}]
  /\ pc \in [Requests -> {"idle", "arrived", "refresh", "forward", "cache"}]
  /\ req \in [Requests -> [key : Keys, bypass : BOOLEAN, force : BOOLEAN] \cup {None}]
  /\ \A r \in Requests : pc[r] = "idle" <=> req[r] = None

\* refresh_percentage may be anything a u8 holds, and the code divides by it
\* and by a quotient of it: no handler panics for a percentage up to 100.
\* Above, the first request of all does, and poisons the counters for good.
PanicsOnlyAbove100 ==
  /\ poisoned = died
  /\ died => percentage > 100
  /\ percentage > 100 => \A r \in Requests : pc[r] \in {"idle", "arrived"}

\* Of the requests for each key at least the configured percentage refreshes,
\* but for the one that is due, and at most twice as many: 100 / percentage is
\* rounded down before it is used.  config.rs: "Percentage of fallback
\* requests that should attempt revalidation".
RefreshShare ==
  percentage <= 100 => \A k \in Keys :
    /\ counter[k] * percentage < 100 * (refreshes[k] + 1)
    /\ refreshes[k] * 100 <= 2 * percentage * counter[k]

\* Failover does not keep itself up: it ends unless a client or the refresh
\* rule goes on sending requests to the slow downstream meanwhile.
FailoverEnds ==
  \A u \in Uris :
    should_failover(u) ~>
      \/ ~should_failover(u)
      \/ \E r \in Requests : pc[r] = "forward" /\ req[r].force /\ UriOf[req[r].key] = u

=============================================================================
