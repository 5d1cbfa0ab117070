---------------------------- MODULE MemoryCache -----------------------------
(***************************************************************************)
(* MEMORY_CACHE from the inside: the LRU cache behind its RwLock           *)
(* (src/memory/memory.rs) and the background eviction task                 *)
(* (src/eviction.rs).  ProxyHandler takes a put and the eviction after it  *)
(* for one step that may forget anything; here the eviction loop runs pop  *)
(* by pop, reading the memory usage of the whole system before each, and   *)
(* that usage is the environment's: it changes at any moment and whatever  *)
(* the cache does.                                                         *)
(*                                                                         *)
(* Abstractions.  Memory is counted in Total units instead of KiB.  The    *)
(* cache is keys, contents and the order of their last use; its hash map   *)
(* and linked list are lru's.                                              *)
(***************************************************************************)
EXTENDS Integers, SequencesExt

CONSTANTS
  Keys,       \* cache keys
  Contents,   \* responses
  Tasks,      \* handlers and admins that use the cache
  Evictor,    \* the background eviction task
  Total,      \* total_kib
  Threshold,  \* config: cache.memory_threshold, in percent
  None

ASSUME MemoryAssumption ==
  /\ Evictor \notin Tasks
  /\ None \notin Contents \cup Tasks \cup {Evictor}
  /\ Total \in Nat \ {0}
  /\ Threshold \in 1 .. 100

VARIABLES
  entry,    \* the cached response of each key
  lru,      \* the keys that have one, least recently used first
  used,     \* memory in use in the whole system
  lock,     \* who holds the write lock
  phase,    \* what the holder of the lock is doing
  evictor,  \* where the background task stands
  last,     \* its last_usage_percent
  current,  \* its current_percent
  recent,   \* history: every key ever used, in the order of last use
  before    \* history: the entries when the lock was last free

cacheVars   == <<entry, lru>>
lockVars    == <<lock, phase>>
evictorVars == <<evictor, last, current>>
vars == <<cacheVars, used, lockVars, evictorVars, recent, before>>

Percents == 0 .. 100

-----------------------------------------------------------------------------
(* lru::LruCache *)

\* The order after a use of k.
Promote(s, k) == Append(RemoveFirst(s, k), k)

Cached == {k \in Keys : entry[k] # None}

-----------------------------------------------------------------------------
(* The lock, and the memory of the system *)

\* What an amount of memory is in percent, rounded down.
Percent == [kib \in 0 .. Total |-> (kib * 100) \div Total]

\* The amounts that make the cache shrink.
Pressing == {kib \in 0 .. Total : Percent[kib] >= Threshold}

OverThreshold == used \in Pressing

Acquire(t, what) ==
  /\ lock = None
  /\ lock' = t
  /\ phase' = what
  /\ before' = entry

\* The guard is dropped.  The background task then remembers what it had read
\* before it waited for the lock, and sleeps.
Release ==
  /\ lock' = None
  /\ phase' = "free"
  /\ IF lock = Evictor
       THEN evictor' = "asleep" /\ last' = current /\ UNCHANGED current
       ELSE UNCHANGED evictorVars
  /\ UNCHANGED before

\* Other processes, and this one outside the cache, use more or less memory.
Fluctuate ==
  /\ used' \in 0 .. Total
  /\ used' # used
  /\ UNCHANGED <<cacheVars, lockVars, evictorVars, recent, before>>

-----------------------------------------------------------------------------
(* The operations *)

\* Mutant: cache.peek, which does not count as a use.
get_from_memory_peek(k) ==
  /\ lock = None
  /\ entry[k] # None
  /\ recent' = Promote(recent, k)
  /\ UNCHANGED <<cacheVars, used, lockVars, evictorVars, before>>

\* A hit promotes the entry; a miss changes nothing.
get_from_memory(k) ==
  /\ lock = None
  /\ entry[k] # None
  /\ lru' = Promote(lru, k)
  /\ recent' = Promote(recent, k)
  /\ UNCHANGED <<entry, used, lockVars, evictorVars, before>>

\* Mutant: a put of a key that is there links it a second time.
Put_relinked(k, c) ==
  /\ entry' = [entry EXCEPT ![k] = c]
  /\ lru' = Append(lru, k)
  /\ recent' = Promote(recent, k)

Put(k, c) ==
  /\ entry' = [entry EXCEPT ![k] = c]
  /\ lru' = Promote(lru, k)
  /\ recent' = Promote(recent, k)

\* Mutant: the entry is put before the lock is waited for.
load_into_memory_early(t, k, c) ==
  \/ Put(k, c) /\ UNCHANGED <<used, lockVars, evictorVars, before>>
  \/ Acquire(t, "check") /\ UNCHANGED <<cacheVars, recent, used, evictorVars>>

\* The lock is taken, the entry put; maybe_evict_if_needed follows.
load_into_memory(t, k, c) ==
  /\ Acquire(t, "check")
  /\ Put(k, c)
  /\ UNCHANGED <<used, evictorVars>>

\* Mutant: at the threshold itself nothing is evicted.
CheckUsage_above ==
  /\ phase = "check"
  /\ IF Percent[used] > Threshold
       THEN phase' = "evict" /\ UNCHANGED <<lock, evictorVars, before>>
       ELSE Release
  /\ UNCHANGED <<cacheVars, used, recent>>

\* maybe_evict_if_needed: the first look at the usage.
CheckUsage ==
  /\ phase = "check"
  /\ IF OverThreshold
       THEN phase' = "evict" /\ UNCHANGED <<lock, evictorVars, before>>
       ELSE Release
  /\ UNCHANGED <<cacheVars, used, recent>>

\* The loop looks again before every pop.
PopLru ==
  /\ phase = "evict"
  /\ OverThreshold
  /\ lru # <<>>
  /\ entry' = [entry EXCEPT ![Head(lru)] = None]
  /\ lru' = Tail(lru)
  /\ UNCHANGED <<used, lockVars, evictorVars, recent, before>>

\* Mutant: the loop goes on until the usage has fallen.
StopEvicting_below ==
  /\ phase = "evict"
  /\ ~OverThreshold
  /\ Release
  /\ UNCHANGED <<cacheVars, used, recent>>

\* Below the threshold, or nothing left to evict.
StopEvicting ==
  /\ phase = "evict"
  /\ ~OverThreshold \/ lru = <<>>
  /\ Release
  /\ UNCHANGED <<cacheVars, used, recent>>

\* invalidate_handler: the cache is cleared at once; with backend=true the lock
\* is held until the deletion tasks are joined.
Clear(t) ==
  /\ Acquire(t, "purge")
  /\ entry' = [k \in Keys |-> None]
  /\ lru' = <<>>
  /\ UNCHANGED <<used, evictorVars, recent>>

EndPurge ==
  /\ phase = "purge"
  /\ Release
  /\ UNCHANGED <<cacheVars, used, recent>>

-----------------------------------------------------------------------------
(* The background eviction task *)

\* Once a second: a rise since the last look asks for the lock.
Observe ==
  /\ evictor = "asleep"
  /\ current' = Percent[used]
  /\ IF Percent[used] > last
       THEN evictor' = "waiting" /\ UNCHANGED last
       ELSE last' = Percent[used] /\ UNCHANGED evictor
  /\ UNCHANGED <<cacheVars, used, lockVars, recent, before>>

EvictorLocks ==
  /\ evictor = "waiting"
  /\ Acquire(Evictor, "check")
  /\ evictor' = "locked"
  /\ UNCHANGED <<cacheVars, used, last, current, recent>>

-----------------------------------------------------------------------------

Init ==
  /\ entry = [k \in Keys |-> None]
  /\ lru = <<>>
  /\ used \in 0 .. Total
  /\ lock = None
  /\ phase = "free"
  /\ evictor = "asleep"
  /\ last = 0
  /\ current = 0
  /\ recent = <<>>
  /\ before = entry

\* What the holder of the lock does until it gives it back.
Holder == CheckUsage \/ PopLru \/ StopEvicting \/ EndPurge

Next ==
  \/ \E k \in Keys : get_from_memory(k)
  \/ \E t \in Tasks, k \in Keys, c \in Contents : load_into_memory(t, k, c)
  \/ \E t \in Tasks : Clear(t)
  \/ Holder
  \/ Observe
  \/ EvictorLocks
  \/ Fluctuate

Spec == Init /\ [][Next]_vars

\* The holder of the lock has no await but the joining of a purge's deletion
\* tasks, which come back; the background task wakes up every second.
FairSpec ==
  /\ Spec
  /\ WF_vars(Holder)
  /\ WF_vars(Observe)
  /\ WF_vars(EvictorLocks)

-----------------------------------------------------------------------------
(* Properties *)

\* Types; map and list of the LRU cache hold the same keys, each once; the
\* background task's reading is current while it holds or wants the lock.
TypeOK ==
  /\ entry \in [Keys -> Contents \cup {None}]
  /\ lru \in Seq(Keys)
  /\ Cached = {lru[i] : i \in 1 .. Len(lru)}
  /\ \A i, j \in 1 .. Len(lru) : lru[i] = lru[j] => i = j
  /\ used \in 0 .. Total
  /\ lock \in Tasks \cup {Evictor, None}
  /\ phase \in {"free", "check", "evict", "purge"}
  /\ (lock = None) <=> (phase = "free")
  /\ evictor \in {"asleep", "waiting", "locked"}
  /\ (lock = Evictor) <=> (evictor = "locked")
  /\ {last, current} \subseteq Percents
  /\ recent \in Seq(Keys)
  /\ before \in [Keys -> Contents \cup {None}]

\* Eviction takes what has not been used for longest, a lookup counting as a
\* use: whatever is cached has been used later than whatever was evicted,
\* whoever evicted, and however usage moved meanwhile.
LeastRecentlyUsedGoFirst ==
  /\ Len(lru) <= Len(recent)
  /\ lru = SubSeq(recent, Len(recent) - Len(lru) + 1, Len(recent))

\* What others see of the cache: nobody looks into it while it is locked.
Visible == IF lock = None THEN entry ELSE before

\* Nobody sees a put without its eviction or an eviction in the middle, and
\* the cache never shows what was not put: it is the cache that ProxyHandler
\* takes it for.
ForgetfulMemory == INSTANCE ForgetfulCache WITH content <- Visible

ImplementsForgetful == ForgetfulMemory!Spec

\* The eviction loop ends even if the usage does not fall because others hold
\* the memory: no handler waits for ever for the lock.
LockIsReleased == lock # None ~> lock = None

\* A usage that stays over the threshold empties the cache, insertions or not,
\* if it is above what the background task remembers.  (If it is not, nothing
\* happens before the next insertion: what the task remembers is the usage
\* before it evicted, and a usage that has climbed back to it is no rise.)
RiseIsActedOn ==
  \A u \in Pressing :
    (used = u /\ last < Percent[u]) ~> (used # u \/ lru = <<>>)

=============================================================================
