------------------------- MODULE MemoryCacheProofs -------------------------
(***************************************************************************)
(* Proofs about the memory cache for any number of keys and tasks, any     *)
(* amount of memory and any threshold, however the usage moves.            *)
(***************************************************************************)
EXTENDS MemoryCache, SequenceTheorems, TLAPS

-----------------------------------------------------------------------------
(* Orders of use *)

Unique(s) == \A i, j \in 1 .. Len(s) : s[i] = s[j] => i = j

Used(s) == {s[i] : i \in 1 .. Len(s)}

\* t is s without its element at p, in front of k.
Moved(s, t, p, k) ==
  /\ Len(t) = Len(s)
  /\ \A i \in 1 .. p - 1 : t[i] = s[i]
  /\ \A i \in p .. Len(s) - 1 : t[i] = s[i + 1]
  /\ t[Len(s)] = k

\* t is s and k.
Added(s, t, k) ==
  /\ Len(t) = Len(s) + 1
  /\ \A i \in 1 .. Len(s) : t[i] = s[i]
  /\ t[Len(s) + 1] = k

\* A use of a key moves it to the end, or puts it there.
LEMMA PromoteMoves ==
  ASSUME NEW s \in Seq(Keys), Unique(s), NEW k \in Keys
  PROVE  /\ Promote(s, k) \in Seq(Keys)
         /\ k \notin Used(s) => Added(s, Promote(s, k), k)
         /\ \A p \in 1 .. Len(s) : s[p] = k => Moved(s, Promote(s, k), p, k)
<1> Len(s) \in Nat /\ \A i \in 1 .. Len(s) : s[i] \in Keys
  BY ElementOfSeq
<1>1. CASE k \notin Used(s)
  <2>1. RemoveFirst(s, k) = s
    BY <1>1 DEF RemoveFirst, Used
  <2> QED BY <1>1, <2>1 DEF Promote, Added, Used
<1>2. ASSUME NEW p \in 1 .. Len(s), s[p] = k
      PROVE  Promote(s, k) \in Seq(Keys) /\ Moved(s, Promote(s, k), p, k)
  <2>1. SelectInSeq(s, LAMBDA v : v = k) = p
    <3> DEFINE I == {i \in 1 .. Len(s) : s[i] = k}
    <3>1. I = {p}
      BY <1>2 DEF Unique
    <3>2. Min({p}) = p
      BY <1>2 DEF Min
    <3> QED BY <3>1, <3>2 DEF SelectInSeq
  <2> DEFINE l == SubSeq(s, 1, p - 1)
             r == SubSeq(s, p + 1, Len(s))
  <2>2. RemoveFirst(s, k) = l \o r
    BY <1>2, <2>1 DEF RemoveFirst, RemoveAt
  <2>3. /\ l \in Seq(Keys) /\ Len(l) = p - 1
        /\ \A i \in 1 .. p - 1 : l[i] = s[i]
    BY SubSeqProperties
  <2>4. /\ r \in Seq(Keys) /\ Len(r) = Len(s) - p
        /\ \A i \in 1 .. Len(s) - p : r[i] = s[p + i]
    BY SubSeqProperties
  <2> HIDE DEF l, r
  <2> DEFINE t == l \o r
  <2>5. /\ t \in Seq(Keys) /\ Len(t) = Len(s) - 1
        /\ \A i \in 1 .. p - 1 : t[i] = s[i]
        /\ \A i \in p .. Len(s) - 1 : t[i] = s[i + 1]
    BY <2>3, <2>4
  <2> HIDE DEF t
  <2>6. Promote(s, k) = Append(t, k)
    BY <2>2 DEF Promote, t
  <2> QED BY <2>5, <2>6 DEF Moved
<1> QED BY <1>1, <1>2 DEF Used

\* The order stays one without repetitions, of the keys it had and k.
LEMMA PromoteKeeps ==
  ASSUME NEW s \in Seq(Keys), Unique(s), NEW k \in Keys
  PROVE  Unique(Promote(s, k)) /\ Used(Promote(s, k)) = Used(s) \cup {k}
<1> DEFINE t == Promote(s, k)
<1> HIDE DEF t
<1>1. CASE k \notin Used(s)
  <2>1. Added(s, t, k)
    BY <1>1, PromoteMoves DEF t
  <2> QED BY <1>1, <2>1 DEF Added, Used, Unique, t
<1>2. ASSUME NEW p \in 1 .. Len(s), s[p] = k PROVE Unique(t) /\ Used(t) = Used(s) \cup {k}
  <2>1. Moved(s, t, p, k)
    BY <1>2, PromoteMoves DEF t
  <2>2. Unique(t)
    BY <1>2, <2>1 DEF Moved, Unique
  <2>3. ASSUME NEW i \in 1 .. Len(s) PROVE s[i] \in Used(t)
    <3>1. CASE i < p
      BY <2>1, <3>1 DEF Moved, Used
    <3>2. CASE i = p
      BY <1>2, <2>1, <3>2 DEF Moved, Used
    <3>3. CASE i > p
      <4>1. i - 1 \in p .. Len(s) - 1 /\ i - 1 \in 1 .. Len(t)
        BY <2>1, <3>3 DEF Moved
      <4>2. t[i - 1] = s[(i - 1) + 1]
        BY <2>1, <4>1 DEF Moved
      <4> QED BY <4>1, <4>2 DEF Used
    <3> QED BY <3>1, <3>2, <3>3
  <2>4. ASSUME NEW i \in 1 .. Len(t) PROVE t[i] \in Used(s)
    <3>1. CASE i < p
      BY <2>1, <3>1 DEF Moved, Used
    <3>2. CASE i = Len(s)
      BY <1>2, <2>1, <3>2 DEF Moved, Used
    <3>3. CASE i >= p /\ i < Len(s)
      BY <2>1, <3>3 DEF Moved, Used
    <3> QED BY <2>1, <3>1, <3>2, <3>3 DEF Moved
  <2> QED BY <1>2, <2>2, <2>3, <2>4 DEF Used
<1> QED BY <1>1, <1>2 DEF Used, t

\* s is the end of r.
EndOf(s, r) ==
  /\ Len(s) <= Len(r)
  /\ \A i \in 1 .. Len(s) : s[i] = r[Len(r) - Len(s) + i]

\* A use of a key in both keeps that.
LEMMA PromoteEnd ==
  ASSUME NEW s \in Seq(Keys), NEW r \in Seq(Keys), Unique(s), Unique(r), EndOf(s, r),
         NEW k \in Keys
  PROVE  EndOf(Promote(s, k), Promote(r, k))
<1> DEFINE s2 == Promote(s, k)
           r2 == Promote(r, k)
           d  == Len(r) - Len(s)
<1> HIDE DEF s2, r2
<1> Len(s) \in Nat /\ Len(r) \in Nat /\ d \in Nat
  BY DEF EndOf
<1>1. CASE k \notin Used(r)
  <2>1. k \notin Used(s)
    BY <1>1 DEF EndOf, Used
  <2>2. Added(s, s2, k) /\ Added(r, r2, k)
    BY <1>1, <2>1, PromoteMoves DEF s2, r2
  <2>3. Len(s2) = Len(s) + 1 /\ Len(r2) = Len(r) + 1
    BY <2>2 DEF Added
  <2>4. ASSUME NEW i \in 1 .. Len(s2) PROVE s2[i] = r2[d + i]
    <3>1. CASE i = Len(s) + 1
      BY <2>2, <2>3, <3>1 DEF Added
    <3>2. CASE i <= Len(s)
      <4>1. d + i \in 1 .. Len(r) /\ s[i] = r[d + i]
        BY <3>2 DEF EndOf
      <4> QED BY <2>2, <3>2, <4>1 DEF Added
    <3> QED BY <2>3, <3>1, <3>2
  <2> QED BY <2>3, <2>4 DEF EndOf, s2, r2
<1>2. ASSUME NEW q \in 1 .. Len(r), r[q] = k, q <= d
      PROVE  EndOf(s2, r2)
  <2>1. k \notin Used(s)
    <3> SUFFICES ASSUME NEW i \in 1 .. Len(s), s[i] = k PROVE FALSE
      BY DEF Used
    <3>1. d + i \in 1 .. Len(r) /\ r[d + i] = r[q]
      BY <1>2 DEF EndOf
    <3> QED BY <1>2, <3>1 DEF Unique
  <2>2. Added(s, s2, k) /\ Moved(r, r2, q, k)
    BY <1>2, <2>1, PromoteMoves DEF s2, r2
  <2>3. Len(s2) = Len(s) + 1 /\ Len(r2) = Len(r)
    BY <2>2 DEF Added, Moved
  <2>4. ASSUME NEW i \in 1 .. Len(s2) PROVE s2[i] = r2[Len(r2) - Len(s2) + i]
    <3>1. CASE i = Len(s) + 1
      BY <2>2, <2>3, <3>1 DEF Added, Moved
    <3>2. CASE i <= Len(s)
      <4>1. s2[i] = r[d + i]
        BY <2>2, <3>2 DEF Added, EndOf
      <4>2. d - 1 + i \in q .. Len(r) - 1
        BY <1>2, <3>2
      <4>3. r2[d - 1 + i] = r[(d - 1 + i) + 1]
        BY <2>2, <4>2 DEF Moved
      <4> QED BY <2>3, <4>1, <4>3
    <3> QED BY <2>3, <3>1, <3>2
  <2> QED BY <1>2, <2>3, <2>4 DEF EndOf
<1>3. ASSUME NEW q \in 1 .. Len(r), r[q] = k, q > d
      PROVE  EndOf(s2, r2)
  <2> DEFINE p == q - d
  <2>1. p \in 1 .. Len(s) /\ s[p] = k
    <3>1. p \in 1 .. Len(s)
      BY <1>3
    <3>2. s[p] = r[Len(r) - Len(s) + p]
      BY <3>1 DEF EndOf
    <3>3. Len(r) - Len(s) + p = q
      BY <1>3
    <3> QED BY <1>3, <3>1, <3>2, <3>3
  <2>2. Moved(s, s2, p, k) /\ Moved(r, r2, q, k)
    BY <1>3, <2>1, PromoteMoves DEF s2, r2
  <2>3. Len(s2) = Len(s) /\ Len(r2) = Len(r)
    BY <2>2 DEF Moved
  <2>4. ASSUME NEW i \in 1 .. Len(s) PROVE s2[i] = r2[d + i]
    <3>1. CASE i < p
      <4>1. s2[i] = s[i] /\ s[i] = r[d + i]
        BY <2>1, <2>2, <3>1 DEF Moved, EndOf
      <4>2. d + i \in 1 .. q - 1
        BY <1>3, <3>1 DEF EndOf
      <4> QED BY <2>2, <4>1, <4>2 DEF Moved
    <3>2. CASE i >= p /\ i < Len(s)
      <4>1. s2[i] = s[i + 1] /\ s[i + 1] = r[d + (i + 1)]
        BY <2>1, <2>2, <3>2 DEF Moved, EndOf
      <4>2. d + i \in q .. Len(r) - 1
        BY <1>3, <3>2
      <4>3. r2[d + i] = r[(d + i) + 1]
        BY <2>2, <4>2 DEF Moved
      <4> QED BY <4>1, <4>3
    <3>3. CASE i = Len(s)
      BY <2>2, <3>3 DEF Moved
    <3> QED BY <3>1, <3>2, <3>3
  <2> QED BY <2>3, <2>4 DEF EndOf
<1>4. CASE \E q \in 1 .. Len(r) : r[q] = k
  BY <1>2, <1>3, <1>4 DEF s2, r2
<1> QED BY <1>1, <1>4 DEF Used, s2, r2

-----------------------------------------------------------------------------
(* Types *)

Orders ==
  /\ lru \in Seq(Keys) /\ Unique(lru)
  /\ recent \in Seq(Keys) /\ Unique(recent)
  /\ EndOf(lru, recent)
  /\ entry \in [Keys -> Contents \cup {None}]
  /\ Cached = Used(lru)

Turns ==
  /\ used \in 0 .. Total
  /\ lock \in Tasks \cup {Evictor, None}
  /\ phase \in {"free", "check", "evict", "purge"}
  /\ (lock = None) <=> (phase = "free")
  /\ evictor \in {"asleep", "waiting", "locked"}
  /\ (lock = Evictor) <=> (evictor = "locked")
  /\ {last, current} \subseteq Percents
  /\ before \in [Keys -> Contents \cup {None}]

\* What the holder of the lock has done so far is a put, or a part of one, and
\* evictions.
Batch ==
  \E evicted \in SUBSET Keys :
    \/ entry = ForgetfulMemory!Forgetting(before, evicted)
    \/ \E k \in Keys, c \in Contents :
         entry = ForgetfulMemory!Forgetting([before EXCEPT ![k] = c], evicted)

IInv == Orders /\ Turns /\ (lock # None => Batch)

\* An amount of memory is between 0 and 100 percent of the total.
LEMMA PercentTyped == \A kib \in 0 .. Total : Percent[kib] \in Percents
<1> SUFFICES ASSUME NEW kib \in 0 .. Total PROVE Percent[kib] \in Percents
  OBVIOUS
<1>1. Total \in Nat \ {0}
  BY MemoryAssumption DEF MemoryAssumption
<1>2. (kib * 100) \div Total \in Percents
  BY <1>1 DEF Percents
<1> QED BY <1>2 DEF Percent

\* A put links its key once, at the recent end.
LEMMA PutKeepsOrders ==
  ASSUME Orders, NEW k \in Keys, NEW c \in Contents, Put(k, c)
  PROVE  Orders'
<1>1. /\ lru' = Promote(lru, k) /\ recent' = Promote(recent, k)
      /\ entry' = [entry EXCEPT ![k] = c] /\ c # None
  BY MemoryAssumption DEF Put, MemoryAssumption
<1>2. /\ lru' \in Seq(Keys) /\ Unique(lru') /\ Used(lru') = Used(lru) \cup {k}
      /\ recent' \in Seq(Keys) /\ Unique(recent') /\ EndOf(lru', recent')
  BY <1>1, PromoteMoves, PromoteKeeps, PromoteEnd DEF Orders
<1>3. Cached' = Cached \cup {k}
  BY <1>1 DEF Orders, Cached
<1> QED BY <1>1, <1>2, <1>3 DEF Orders

\* A hit moves its key to the recent end.
LEMMA GetKeepsOrders ==
  ASSUME Orders, NEW k \in Keys, get_from_memory(k)
  PROVE  Orders'
<1>1. /\ lru' = Promote(lru, k) /\ recent' = Promote(recent, k)
      /\ entry' = entry /\ k \in Cached
  BY DEF get_from_memory, Cached
<1>2. /\ lru' \in Seq(Keys) /\ Unique(lru') /\ Used(lru') = Used(lru) \cup {k}
      /\ recent' \in Seq(Keys) /\ Unique(recent') /\ EndOf(lru', recent')
  BY <1>1, PromoteMoves, PromoteKeeps, PromoteEnd DEF Orders
<1>3. Cached' = Cached
  BY <1>1 DEF Cached
<1> QED BY <1>1, <1>2, <1>3 DEF Orders

\* A pop takes the least recent key out of list and map.
LEMMA PopKeepsOrders ==
  ASSUME Orders, PopLru
  PROVE  Orders'
<1>1. /\ lru # <<>> /\ lru' = Tail(lru) /\ recent' = recent
      /\ entry' = [entry EXCEPT ![lru[1]] = None]
  BY DEF PopLru
<1>2. /\ Len(lru) \in Nat \ {0} /\ lru[1] \in Keys
      /\ lru' \in Seq(Keys) /\ Len(lru') = Len(lru) - 1
      /\ \A i \in 1 .. Len(lru) - 1 : lru'[i] = lru[i + 1]
  BY <1>1, EmptySeq, HeadTailProperties DEF Orders
<1>3. Unique(lru')
  BY <1>2 DEF Orders, Unique
<1>4. EndOf(lru', recent')
  <2>1. Len(lru) <= Len(recent) /\ Len(recent) \in Nat
    BY DEF Orders, EndOf
  <2>2. ASSUME NEW i \in 1 .. Len(lru')
        PROVE  lru'[i] = recent[Len(recent) - Len(lru') + i]
    <3>1. i + 1 \in 1 .. Len(lru) /\ lru'[i] = lru[i + 1]
      BY <1>2
    <3>2. lru[i + 1] = recent[Len(recent) - Len(lru) + (i + 1)]
      BY <3>1 DEF Orders, EndOf
    <3> QED BY <1>2, <2>1, <3>1, <3>2
  <2> QED BY <1>1, <1>2, <2>1, <2>2 DEF EndOf
<1>5. Used(lru') = Used(lru) \ {lru[1]}
  <2>1. ASSUME NEW i \in 1 .. Len(lru), lru[i] # lru[1] PROVE lru[i] \in Used(lru')
    <3>1. i - 1 \in 1 .. Len(lru') /\ lru'[i - 1] = lru[(i - 1) + 1]
      BY <1>2, <2>1
    <3> QED BY <3>1 DEF Used
  <2>2. ASSUME NEW i \in 1 .. Len(lru')
        PROVE  lru'[i] \in Used(lru) /\ lru'[i] # lru[1]
    BY <1>2 DEF Orders, Unique, Used
  <2> QED BY <2>1, <2>2 DEF Used
<1>6. Cached' = Cached \ {lru[1]}
  BY <1>1, <1>2 DEF Orders, Cached
<1> QED BY <1>1, <1>2, <1>3, <1>4, <1>5, <1>6 DEF Orders

\* Nothing else touches map, list or history.
LEMMA OrdersStep == Orders /\ [Next]_vars => Orders'
<1> SUFFICES ASSUME Orders, [Next]_vars PROVE Orders'
  OBVIOUS
<1>1. ASSUME NEW k \in Keys, get_from_memory(k) PROVE Orders'
  BY <1>1, GetKeepsOrders
<1>2. ASSUME NEW t \in Tasks, NEW k \in Keys, NEW c \in Contents, load_into_memory(t, k, c)
      PROVE  Orders'
  BY <1>2, PutKeepsOrders DEF load_into_memory
<1>3. ASSUME NEW t \in Tasks, Clear(t) PROVE Orders'
  <2>1. lru' = <<>> /\ entry' = [k \in Keys |-> None] /\ recent' = recent
    BY <1>3 DEF Clear
  <2>2. Len(lru') = 0 /\ lru' \in Seq(Keys) /\ Cached' = {}
    BY <2>1, EmptySeq DEF Cached
  <2> QED BY <2>1, <2>2 DEF Orders, Unique, Used, EndOf
<1>4. CASE PopLru
  BY <1>4, PopKeepsOrders
<1>5. CASE CheckUsage \/ StopEvicting \/ EndPurge \/ Observe \/ EvictorLocks \/ Fluctuate
           \/ UNCHANGED vars
  <2>1. UNCHANGED <<cacheVars, recent>>
    BY <1>5 DEF CheckUsage, StopEvicting, EndPurge, Observe, EvictorLocks, Fluctuate, vars
  <2> QED BY <2>1 DEF Orders, cacheVars, Cached
<1> QED BY <1>1, <1>2, <1>3, <1>4, <1>5 DEF Next, Holder

\* Lock, phase and background task agree after every step.
LEMMA TurnsStep == Orders /\ Turns /\ [Next]_vars => Turns'
<1> SUFFICES ASSUME Orders, Turns, [Next]_vars PROVE Turns'
  OBVIOUS
<1> USE MemoryAssumption, PercentTyped DEF MemoryAssumption, Turns, evictorVars, lockVars
<1>1. ASSUME NEW k \in Keys, get_from_memory(k) PROVE Turns'
  BY <1>1 DEF get_from_memory
<1>2. ASSUME NEW t \in Tasks, NEW k \in Keys, NEW c \in Contents, load_into_memory(t, k, c)
      PROVE  Turns'
  BY <1>2 DEF load_into_memory, Acquire, Orders
<1>3. ASSUME NEW t \in Tasks, Clear(t) PROVE Turns'
  BY <1>3 DEF Clear, Acquire, Orders
<1>4. CASE CheckUsage
  BY <1>4 DEF CheckUsage, Release
<1>5. CASE PopLru
  BY <1>5 DEF PopLru
<1>6. CASE StopEvicting
  BY <1>6 DEF StopEvicting, Release
<1>7. CASE EndPurge
  BY <1>7 DEF EndPurge, Release
<1>8. CASE Observe
  BY <1>8 DEF Observe
<1>9. CASE EvictorLocks
  BY <1>9 DEF EvictorLocks, Acquire, Orders
<1>10. CASE Fluctuate
  BY <1>10 DEF Fluctuate
<1>11. CASE UNCHANGED vars
  BY <1>11 DEF vars
<1> QED
  BY <1>1, <1>2, <1>3, <1>4, <1>5, <1>6, <1>7, <1>8, <1>9, <1>10, <1>11 DEF Next, Holder

\* Taking the lock starts a batch, popping adds to it.
LEMMA BatchStep == IInv /\ [Next]_vars => (lock' # None => Batch')
<1> SUFFICES ASSUME IInv, [Next]_vars, lock' # None PROVE Batch'
  OBVIOUS
<1>0. entry \in [Keys -> Contents \cup {None}] /\ before \in [Keys -> Contents \cup {None}]
  BY DEF IInv, Orders, Turns
<1>1. ASSUME NEW t \in Tasks, NEW k \in Keys, NEW c \in Contents, load_into_memory(t, k, c)
      PROVE  Batch'
  <2>1. before' = entry /\ entry' = [before' EXCEPT ![k] = c]
    BY <1>1 DEF load_into_memory, Acquire, Put
  <2>2. entry' = ForgetfulMemory!Forgetting([before' EXCEPT ![k] = c], {})
    BY <1>0, <2>1 DEF ForgetfulMemory!Forgetting
  <2> QED BY <2>2 DEF Batch
<1>2. ASSUME NEW t \in Tasks, Clear(t) PROVE Batch'
  <2>1. entry' = ForgetfulMemory!Forgetting(before', Keys)
    BY <1>2 DEF Clear, ForgetfulMemory!Forgetting
  <2> QED BY <2>1 DEF Batch
<1>3. CASE EvictorLocks
  <2>1. before' = entry /\ entry' = entry
    BY <1>3 DEF EvictorLocks, Acquire, cacheVars
  <2>2. entry' = ForgetfulMemory!Forgetting(before', {})
    BY <1>0, <2>1 DEF ForgetfulMemory!Forgetting
  <2> QED BY <2>2 DEF Batch
<1>4. CASE PopLru
  <2>1. lock # None /\ before' = before /\ entry' = [entry EXCEPT ![Head(lru)] = None]
    BY <1>4 DEF PopLru, IInv, Turns, lockVars
  <2>2. PICK evicted \in SUBSET Keys :
          \/ entry = ForgetfulMemory!Forgetting(before, evicted)
          \/ \E k \in Keys, c \in Contents :
               entry = ForgetfulMemory!Forgetting([before EXCEPT ![k] = c], evicted)
    BY <2>1 DEF IInv, Batch
  <2>3. Head(lru) \in Keys
    BY <1>4, HeadTailProperties DEF PopLru, IInv, Orders
  <2> DEFINE more == evicted \cup {Head(lru)}
  <2>4. CASE entry = ForgetfulMemory!Forgetting(before, evicted)
    <3>1. entry' = ForgetfulMemory!Forgetting(before', more)
      BY <2>1, <2>4 DEF ForgetfulMemory!Forgetting
    <3> QED BY <2>3, <3>1 DEF Batch
  <2>5. ASSUME NEW k \in Keys, NEW c \in Contents,
               entry = ForgetfulMemory!Forgetting([before EXCEPT ![k] = c], evicted)
        PROVE  Batch'
    <3>1. entry' = ForgetfulMemory!Forgetting([before' EXCEPT ![k] = c], more)
      BY <2>1, <2>5 DEF ForgetfulMemory!Forgetting
    <3> QED BY <2>3, <3>1 DEF Batch
  <2> QED BY <2>2, <2>4, <2>5
<1>5. CASE CheckUsage \/ StopEvicting \/ EndPurge \/ Observe \/ Fluctuate \/ UNCHANGED vars
  <2>1. UNCHANGED <<entry, before>> /\ lock # None
    BY <1>5 DEF CheckUsage, StopEvicting, EndPurge, Observe, Fluctuate, vars, Release,
       cacheVars, lockVars
  <2> QED BY <2>1 DEF IInv, Batch
<1>6. ASSUME NEW k \in Keys, get_from_memory(k) PROVE Batch'
  <2>1. UNCHANGED <<entry, before>> /\ lock' = lock /\ lock = None
    BY <1>6 DEF get_from_memory, lockVars
  <2> QED BY <2>1
<1> QED BY <1>1, <1>2, <1>3, <1>4, <1>5, <1>6 DEF Next, Holder

\* The strengthening holds in every state.
LEMMA Inductive == Spec => []IInv
<1>1. Init => IInv
  <2> SUFFICES ASSUME Init PROVE IInv
    OBVIOUS
  <2>1. lru = <<>> /\ recent = <<>> /\ Len(lru) = 0 /\ Len(recent) = 0 /\ lru \in Seq(Keys)
    BY EmptySeq DEF Init
  <2>2. Orders
    BY <2>1 DEF Init, Orders, Unique, Used, EndOf, Cached
  <2>3. Turns /\ lock = None
    BY MemoryAssumption DEF Init, Turns, Percents, MemoryAssumption
  <2> QED BY <2>2, <2>3 DEF IInv
<1>2. IInv /\ [Next]_vars => IInv'
  BY OrdersStep, TurnsStep, BatchStep DEF IInv
<1> QED BY <1>1, <1>2, PTL DEF Spec

-----------------------------------------------------------------------------
(* Theorems *)

\* The types hold, and map and list of the LRU cache agree in every state.
THEOREM TypeCorrect == Spec => []TypeOK
<1>1. IInv => TypeOK
  BY DEF IInv, Orders, Turns, TypeOK, Unique, Used
<1> QED BY <1>1, Inductive, PTL

\* Whoever evicts, and however the usage moves, what is left was used after
\* whatever has been evicted.
THEOREM EvictionIsLru == Spec => []LeastRecentlyUsedGoFirst
<1>1. IInv => LeastRecentlyUsedGoFirst
  <2> SUFFICES ASSUME IInv PROVE LeastRecentlyUsedGoFirst
    OBVIOUS
  <2> DEFINE s == SubSeq(recent, Len(recent) - Len(lru) + 1, Len(recent))
  <2>1. /\ lru \in Seq(Keys) /\ recent \in Seq(Keys) /\ Len(lru) \in Nat /\ Len(recent) \in Nat
        /\ Len(lru) <= Len(recent)
    BY DEF IInv, Orders, EndOf
  <2>2. s \in Seq(Keys) /\ Len(s) = Len(lru)
    BY <2>1, SubSeqProperties
  <2>3. \A i \in 1 .. Len(lru) : s[i] = lru[i]
    BY <2>1, SubSeqProperties DEF IInv, Orders, EndOf
  <2> HIDE DEF s
  <2>4. lru = s
    BY <2>1, <2>2, <2>3, SeqEqual
  <2> QED BY <2>1, <2>4 DEF LeastRecentlyUsedGoFirst, s
<1> QED BY <1>1, Inductive, PTL

\* The cache with its lock and its eviction loop is the forgetful cache that
\* ProxyHandler takes it for.
THEOREM MemoryImplementsForgetful == Spec => ImplementsForgetful
<1> USE DEF ForgetfulMemory!Forgetting
<1>1. Init => ForgetfulMemory!Init
  BY DEF Init, ForgetfulMemory!Init, Visible
<1>2. IInv /\ [Next]_vars => [ForgetfulMemory!Next]_Visible
  <2> SUFFICES ASSUME IInv, [Next]_vars
               PROVE  ForgetfulMemory!Next \/ Visible' = Visible
    OBVIOUS
  <2>1. CASE lock = None /\ lock' = None
    <3>1. entry' = entry
      BY <2>1, MemoryAssumption DEF MemoryAssumption, Next, Holder, get_from_memory,
         load_into_memory, Clear, CheckUsage, PopLru, StopEvicting, EndPurge, Observe,
         EvictorLocks, Fluctuate, Acquire, vars, cacheVars, IInv, Turns
    <3> QED BY <2>1, <3>1 DEF Visible
  <2>2. CASE lock = None /\ lock' # None
    <3>1. before' = entry
      BY <2>2 DEF Next, Holder, get_from_memory,
         load_into_memory, Clear, CheckUsage, PopLru, StopEvicting, EndPurge, Observe,
         EvictorLocks, Fluctuate, Acquire, Release, vars, lockVars
    <3> QED BY <2>2, <3>1 DEF Visible
  <2>3. CASE lock # None /\ lock' # None
    <3>1. before' = before
      BY <2>3 DEF Next, Holder, get_from_memory,
         load_into_memory, Clear, CheckUsage, PopLru, StopEvicting, EndPurge, Observe,
         EvictorLocks, Fluctuate, Acquire, Release, vars, lockVars
    <3> QED BY <2>3, <3>1 DEF Visible
  <2>4. CASE lock # None /\ lock' = None
    <3>1. entry' = entry
      BY <2>4 DEF Next, Holder, get_from_memory,
         load_into_memory, Clear, CheckUsage, PopLru, StopEvicting, EndPurge, Observe,
         EvictorLocks, Fluctuate, Acquire, Release, vars, lockVars, cacheVars
    <3>2. Visible = before /\ Visible' = entry /\ Batch
      BY <2>4, <3>1 DEF Visible, IInv
    <3> QED BY <3>2 DEF Batch, ForgetfulMemory!Next, ForgetfulMemory!Put, ForgetfulMemory!Forget
  <2> QED BY <2>1, <2>2, <2>3, <2>4
<1> QED
  BY <1>1, <1>2, Inductive, PTL DEF Spec, ImplementsForgetful, ForgetfulMemory!Spec

=============================================================================
