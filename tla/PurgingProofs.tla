--------------------------- MODULE PurgingProofs ----------------------------
(***************************************************************************)
(* Proof that purged content stays away, for any number of handlers, keys  *)
(* and admins, any backend and any combination of faults.                  *)
(*                                                                         *)
(* The argument is one about flow.  Content moves from the origin's answer *)
(* through a handler's hands into memory and the channel, from the channel *)
(* through the writer into the backend, and from the backend through a     *)
(* fallback into memory; it enters a handler's hands from the backend only *)
(* while the lock of memory is free.  A purge that has cleared memory      *)
(* keeps that lock, so that nothing at rest can set off until what it has  *)
(* listed is deleted.                                                      *)
(***************************************************************************)
EXTENDS Purging, ProxyHandlerProofs

-----------------------------------------------------------------------------
(* What is carried *)

Held(r, k, v)    == pc[r] \in Places /\ req[r].key = k /\ resp[r].body = v
Fetched(r, k, v) == pc[r] = "load" /\ req[r].key = k /\ stored[k] = v
Sent(k, v)       == \E i \in 1 .. Len(channel) : channel[i].key = k /\ channel[i].body = v
Written(k, v)    == writing # None /\ writing.key = k /\ writing.body = v

InFlight(k, v) ==
  \/ \E r \in Requests : Held(r, k, v) \/ Fetched(r, k, v)
  \/ Sent(k, v) \/ Written(k, v)

\* What is carried is in a handler's hands, in the channel or in the writer's.
LEMMA CarriedMeans == \A k, v : <<k, v>> \in Carried <=> InFlight(k, v)
BY DEF Carried, OnTheWay, InFlight, Held, Fetched, Sent, Written

\* The types the flow needs.
LEMMA Typed ==
  ASSUME IInv
  PROVE  /\ pc \in [Requests -> PCs] /\ req \in [Requests -> Request \cup {None}]
         /\ resp \in [Requests -> Response]
         /\ memory \in [Keys -> Bodies \cup {None}] /\ stored \in [Keys -> Bodies \cup {None}]
         /\ channel \in Seq(Message) /\ writing \in Message \cup {None}
         /\ None \notin Versions /\ EmptyBody \notin Versions
BY ConstantsAssumption DEF IInv, RequestInv, DataTyped, ConstantsAssumption, Bodies, Versions,
   EmptyBody

\* A version gets into the backend from the writer's hands only.
LEMMA StoredFlow ==
  ASSUME IInv, [Next]_vars, NEW k \in Keys, NEW v \in Versions, stored'[k] = v
  PROVE  stored[k] = v \/ InFlight(k, v)
<1> USE Typed
<1>1. CASE UNCHANGED stored
  BY <1>1
<1>2. CASE WriterStore \/ Crash
  <2>1. \/ UNCHANGED stored
        \/ writing # None /\ (Persist(writing) \/ Truncate(writing))
    <3>1. CASE WriterStore
      BY <3>1 DEF WriterStore
    <3>2. CASE Crash
      BY <3>2 DEF Crash
    <3> QED BY <1>2, <3>1, <3>2
  <2> QED BY <1>1, <2>1 DEF Persist, Truncate, InFlight, Written
<1>3. CASE \E a \in Admins : DeleteObject(a)
  BY <1>3 DEF DeleteObject
<1>4. CASE ~ (WriterStore \/ Crash \/ \E a \in Admins : DeleteObject(a))
  <2>1. UNCHANGED stored
    BY <1>4 DEF Next, Client, Handler, Downstream, CacheWriter, Purger, Arrive, TryAcquire,
       ServeOverload, OriginAnswers, ForwardFails, ReceiveHead, ReadBody, StoreInMemory,
       SendToWriter, LookupMemory, LoadFromStorage, FillMemory, Respond, Disconnect,
       WriterReceive, Invalidate, ListObjects, FinishInvalidate, AdminDisconnect,
       BackgroundEvict, WindowExpires, vars, writerVars
  <2> QED BY <1>1, <2>1
<1> QED BY <1>2, <1>3, <1>4

\* A version gets into memory from a handler's hands only.
LEMMA MemoryFlow ==
  ASSUME IInv, [Next]_vars, NEW k \in Keys, NEW v \in Versions, memory'[k] = v
  PROVE  memory[k] = v \/ InFlight(k, v)
<1> USE Typed
<1>1. CASE UNCHANGED memory
  BY <1>1
<1>2. ASSUME NEW r \in Requests, StoreInMemory(r) \/ FillMemory(r)
      PROVE  memory[k] = v \/ InFlight(k, v)
  <2>1. /\ load_into_memory(req[r].key, resp[r].body) /\ pc[r] \in Places
    BY <1>2 DEF StoreInMemory, FillMemory, Places
  <2>2. memory'[k] \in {None, IF k = req[r].key THEN resp[r].body ELSE memory[k]}
    BY <2>1 DEF load_into_memory, Forget
  <2> QED BY <2>1, <2>2 DEF InFlight, Held
<1>3. CASE BackgroundEvict \/ Crash \/ \E a \in Admins : Invalidate(a)
  BY <1>3 DEF BackgroundEvict, Crash, Invalidate, Forget
<1>4. CASE ~ (\/ \E r \in Requests : StoreInMemory(r) \/ FillMemory(r)
              \/ BackgroundEvict \/ Crash \/ \E a \in Admins : Invalidate(a))
  <2>1. UNCHANGED memory
    BY <1>4 DEF Next, Client, Handler, Downstream, CacheWriter, Purger, Arrive, TryAcquire,
       ServeOverload, OriginAnswers, ForwardFails, ReceiveHead, ReadBody,
       SendToWriter, LookupMemory, LoadFromStorage, Respond, Disconnect,
       WriterReceive, WriterStore, ListObjects, DeleteObject, FinishInvalidate,
       AdminDisconnect, WindowExpires, vars, cacheVars
  <2> QED BY <1>1, <2>1
<1> QED BY <1>2, <1>3, <1>4

\* A version gets into the channel from a handler's hands only.
LEMMA QueueFlow ==
  ASSUME IInv, [Next]_vars, NEW k, NEW v, Sent(k, v)' \/ Written(k, v)'
  PROVE  InFlight(k, v)
<1> USE Typed
<1>1. CASE UNCHANGED <<channel, writing>>
  BY <1>1 DEF InFlight, Sent, Written
<1>2. ASSUME NEW r \in Requests, SendToWriter(r) PROVE InFlight(k, v)
  <2>1. /\ channel' = Append(channel, [key |-> req[r].key, body |-> resp[r].body])
        /\ writing' = writing /\ pc[r] \in Places
    BY <1>2 DEF SendToWriter, Places
  <2>2. CASE Written(k, v)'
    BY <2>1, <2>2 DEF InFlight, Written
  <2>3. ASSUME NEW i \in 1 .. Len(channel'), channel'[i].key = k, channel'[i].body = v
        PROVE  InFlight(k, v)
    <3>1. CASE i <= Len(channel)
      <4>1. i \in 1 .. Len(channel) /\ channel[i] = channel'[i]
        BY <2>1, <3>1
      <4> QED BY <2>3, <4>1 DEF InFlight, Sent
    <3>2. CASE i = Len(channel) + 1
      <4>1. channel'[i] = [key |-> req[r].key, body |-> resp[r].body]
        BY <2>1, <3>2
      <4> QED BY <2>1, <2>3, <4>1 DEF InFlight, Held
    <3> QED BY <2>1, <3>1, <3>2
  <2> QED BY <1>2, <2>2, <2>3 DEF Sent
<1>3. CASE WriterReceive
  <2>1. /\ channel # <<>> /\ writing' = channel[1] /\ channel' = Tail(channel)
        /\ 1 \in 1 .. Len(channel)
    BY <1>3 DEF WriterReceive
  <2>2. \A i \in 1 .. Len(channel') : channel'[i] = channel[i + 1] /\ i + 1 \in 1 .. Len(channel)
    BY <2>1
  <2> QED BY <2>1, <2>2 DEF InFlight, Sent, Written
<1>4. CASE WriterStore
  BY <1>4 DEF WriterStore, InFlight, Sent, Written
<1>5. CASE Crash
  BY <1>5 DEF Crash, Sent, Written
<1>6. CASE ~ (WriterReceive \/ WriterStore \/ Crash \/ \E r \in Requests : SendToWriter(r))
  <2>1. UNCHANGED <<channel, writing>>
    BY <1>6 DEF Next, Client, Handler, Downstream, CacheWriter, Purger, Arrive, TryAcquire,
       ServeOverload, OriginAnswers, ForwardFails, ReceiveHead, ReadBody, StoreInMemory,
       LookupMemory, LoadFromStorage, FillMemory, Respond, Disconnect, Invalidate,
       ListObjects, DeleteObject, FinishInvalidate, AdminDisconnect, BackgroundEvict,
       WindowExpires, vars, writerVars
  <2> QED BY <1>1, <2>1
<1> QED BY <1>2, <1>3, <1>4, <1>5, <1>6

\* A version gets into a handler's hands from the origin, or from the backend by
\* a lookup that had the lock of memory.
LEMMA HandlerFlow ==
  ASSUME IInv, [Next]_vars, NEW r \in Requests, NEW k \in Keys, NEW v \in Versions,
         Held(r, k, v)' \/ Fetched(r, k, v)'
  PROVE  \/ InFlight(k, v)
         \/ MemoryFree /\ stored[k] = v
         \/ OriginAnswers(r) /\ req[r].key = k /\ resp'[r].body = v
<1> USE Typed
<1> DEFINE Done == \/ InFlight(k, v)
                   \/ MemoryFree /\ stored[k] = v
                   \/ OriginAnswers(r) /\ req[r].key = k /\ resp'[r].body = v
<1>1. CASE pc'[r] = pc[r] /\ req'[r] = req[r] /\ resp'[r] = resp[r]
  <2>1. CASE Held(r, k, v)'
    BY <1>1, <2>1 DEF Held, InFlight
  <2>2. CASE Fetched(r, k, v)'
    <3>1. stored[k] = v \/ InFlight(k, v)
      BY <2>2, StoredFlow DEF Fetched
    <3> QED BY <1>1, <2>2, <3>1 DEF Fetched, InFlight
  <2> QED BY <2>1, <2>2
<1>2. CASE \/ Arrive(r) \/ TryAcquire(r) \/ ServeOverload(r) \/ ForwardFails(r)
           \/ SendToWriter(r) \/ FillMemory(r) \/ Respond(r) \/ Disconnect(r)
  <2>1. pc'[r] \notin Places \cup {"load"}
    BY <1>2 DEF Arrive, TryAcquire, ServeOverload, ForwardFails, SendToWriter, FillMemory,
       Respond, Disconnect, Answer, Finish, Goto, Places
  <2> QED BY <2>1 DEF Held, Fetched
<1>3. CASE OriginAnswers(r)
  <2>1. pc'[r] = "answered" /\ req'[r] = req[r]
    BY <1>3 DEF OriginAnswers, Goto
  <2> QED BY <1>3, <2>1 DEF Held, Fetched
<1>4. CASE ReceiveHead(r) \/ ReadBody(r) \/ StoreInMemory(r)
  <2>1. pc[r] \in Places /\ pc'[r] # "load" /\ req'[r] = req[r]
    BY <1>4 DEF ReceiveHead, ReadBody, StoreInMemory, Answer, Goto, Places
  <2>2. pc'[r] \in Places => resp'[r].body \in {resp[r].body, EmptyBody}
    <3>1. CASE ReceiveHead(r)
      BY <3>1 DEF ReceiveHead, Response
    <3>2. CASE ReadBody(r)
      <4>1. resp[r] \in Response
        OBVIOUS
      <4> QED BY <3>2, <4>1 DEF ReadBody, Answer, Goto, Places, Response
    <3>3. CASE StoreInMemory(r)
      BY <3>3 DEF StoreInMemory
    <3> QED BY <1>4, <3>1, <3>2, <3>3
  <2> QED BY <2>1, <2>2 DEF Held, Fetched, InFlight
<1>5. CASE LookupMemory(r)
  <2>1. MemoryFree /\ pc'[r] \in {"respond", "load"} /\ UNCHANGED stored
    BY <1>5 DEF LookupMemory, Answer, Goto, writerVars
  <2> QED BY <2>1 DEF Held, Fetched, Places
<1>6. CASE LoadFromStorage(r)
  <2>1. pc[r] = "load" /\ req'[r] = req[r]
    BY <1>6 DEF LoadFromStorage, Answer
  <2>2. pc'[r] \in {"fill", "respond"}
    BY <1>6 DEF LoadFromStorage, Answer, Goto
  <2>3. pc'[r] = "fill" => resp'[r].body = stored[req[r].key]
    BY <1>6 DEF LoadFromStorage, Answer, Goto, Response
  <2> QED BY <2>1, <2>2, <2>3 DEF Held, Fetched, InFlight, Places
<1>7. CASE Crash
  BY <1>7 DEF Crash, Held, Fetched, Places
<1>8. ASSUME NEW s \in Requests, s # r, Client(s) \/ Handler(s) \/ Downstream(s)
      PROVE  Done
  <2>1. pc'[r] = pc[r] /\ req'[r] = req[r] /\ resp'[r] = resp[r]
    BY <1>8 DEF Client, Arrive, Handler, Downstream, Disconnect, TryAcquire,
       ServeOverload, OriginAnswers, ForwardFails, ReceiveHead, ReadBody, StoreInMemory,
       SendToWriter, LookupMemory, LoadFromStorage, FillMemory, Respond, Answer,
       Finish, Goto
  <2> QED BY <1>1, <2>1
<1>9. CASE ~ (Crash \/ \E s \in Requests : Client(s) \/ Handler(s) \/ Downstream(s))
  <2>1. UNCHANGED requestVars
    BY <1>9 DEF Next, CacheWriter, WriterReceive, WriterStore, Invalidate, Purger,
       ListObjects, DeleteObject, FinishInvalidate, AdminDisconnect, BackgroundEvict,
       WindowExpires, vars
  <2> QED BY <1>1, <2>1 DEF requestVars
<1> QED
  BY <1>2, <1>3, <1>4, <1>5, <1>6, <1>7, <1>8, <1>9 DEF Client, Handler, Downstream

\* The three together.
LEMMA Flow ==
  ASSUME IInv, [Next]_vars, NEW k \in Keys, NEW v \in Versions, <<k, v>> \in Carried'
  PROVE  \/ <<k, v>> \in Carried
         \/ MemoryFree /\ stored[k] = v
         \/ \E r \in Requests : OriginAnswers(r) /\ req[r].key = k /\ resp'[r].body = v
<1>1. InFlight(k, v)'
  BY DEF Carried, OnTheWay, InFlight, Held, Fetched, Sent, Written
<1>2. CASE Sent(k, v)' \/ Written(k, v)'
  BY <1>2, QueueFlow, CarriedMeans
<1>3. CASE \E r \in Requests : Held(r, k, v)' \/ Fetched(r, k, v)'
  BY <1>3, HandlerFlow, CarriedMeans
<1> QED BY <1>1, <1>2, <1>3 DEF InFlight

-----------------------------------------------------------------------------
(* What a purge has promised *)

\* A purge that runs has the lock; what it removes is not carried, and what the
\* backend has of it is still to be listed or deleted.
Running(a) ==
  /\ lock = a
  /\ purge[a] \in {"listing", "deleting"}
  /\ \A k \in Keys, v \in Versions : <<k, v>> \in gone[a] =>
       /\ <<k, v>> \notin Carried
       /\ purge[a] = "deleting" /\ stored[k] = v => k \in todo[a]

\* After a purge that was answered, what it removed is nowhere.
Over(a) ==
  \A k \in Keys, v \in Versions : <<k, v>> \in gone[a] =>
    /\ <<k, v>> \notin Carried
    /\ memory[k] # v /\ stored[k] # v

Promise(a) ==
  /\ era[a] = "running" => Running(a)
  /\ era[a] = "over" => Over(a)

PromiseInv ==
  /\ era \in [Admins -> {"none", "running", "over"}]
  /\ gone \in [Admins -> SUBSET (Keys \X Versions)]
  /\ \A a \in Admins : Promise(a)

\* With the history every step is a step of ProxyHandler.
LEMMA PurgingSteps == [PurgingNext]_<<vars, historyVars>> => [Next]_vars
<1> SUFFICES ASSUME [PurgingNext]_<<vars, historyVars>> PROVE [Next]_vars
  OBVIOUS
<1>1. CASE Untracked
  BY <1>1 DEF Untracked, Next, Downstream
<1>2. ASSUME NEW r \in Requests, TrackAnswer(r) PROVE Next
  BY <1>2 DEF TrackAnswer, Next, Downstream
<1>3. ASSUME NEW a \in Admins,
             \/ TrackInvalidate(a) \/ TrackListing(a) \/ TrackDelete(a)
             \/ TrackFinish(a) \/ TrackDisconnect(a)
      PROVE  Next
  <2>1. Invalidate(a) \/ Purger(a) \/ AdminDisconnect(a)
    BY <1>3 DEF TrackInvalidate, TrackListing, TrackDelete, TrackFinish, TrackDisconnect, Purger
  <2> QED BY <2>1 DEF Next
<1>4. CASE TrackCrash
  BY <1>4 DEF TrackCrash, Next
<1>5. CASE UNCHANGED <<vars, historyVars>>
  BY <1>5
<1> QED BY <1>1, <1>2, <1>3, <1>4, <1>5 DEF PurgingNext

\* With the history the behaviours are those of ProxyHandler.
LEMMA PurgingImplements == PurgingSpec => Spec
<1>1. PurgingInit => Init
  BY DEF PurgingInit
<1> QED BY <1>1, PurgingSteps, PTL DEF PurgingSpec, Spec

\* What was promised after the end of a purge stays true in every step, as long
\* as an answer of the origin is taken out of it.
LEMMA OverStays ==
  ASSUME IInv, [Next]_vars, NEW a \in Admins, Over(a),
         gone'[a] \subseteq gone[a],
         \A r \in Requests : OriginAnswers(r) => <<req[r].key, resp'[r].body>> \notin gone'[a]
  PROVE  Over(a)'
<1> SUFFICES ASSUME NEW k \in Keys, NEW v \in Versions, <<k, v>> \in gone'[a]
             PROVE  <<k, v>> \notin Carried' /\ memory'[k] # v /\ stored'[k] # v
  BY DEF Over
<1>1. <<k, v>> \notin Carried /\ memory[k] # v /\ stored[k] # v
  BY DEF Over
<1>2. ~ InFlight(k, v)
  BY <1>1, CarriedMeans
<1> QED
  BY <1>1, <1>2, Flow, StoredFlow, MemoryFlow

\* So does what a running purge has promised, as long as it is not its own step.
LEMMA RunningStays ==
  ASSUME IInv, [Next]_vars, NEW a \in Admins, Running(a),
         gone'[a] \subseteq gone[a],
         \A r \in Requests : OriginAnswers(r) => <<req[r].key, resp'[r].body>> \notin gone'[a],
         lock' = lock, purge'[a] = purge[a], todo'[a] = todo[a]
  PROVE  Running(a)'
<1>1. lock # None
  BY ConstantsAssumption DEF Running, ConstantsAssumption
<1>2. ASSUME NEW k \in Keys, NEW v \in Versions, <<k, v>> \in gone'[a]
      PROVE  /\ <<k, v>> \notin Carried'
             /\ purge'[a] = "deleting" /\ stored'[k] = v => k \in todo'[a]
  <2>1. /\ <<k, v>> \notin Carried
        /\ purge[a] = "deleting" /\ stored[k] = v => k \in todo[a]
    BY <1>2 DEF Running
  <2>2. ~ InFlight(k, v) /\ ~MemoryFree
    BY <1>1, <2>1, CarriedMeans DEF MemoryFree
  <2> QED
    BY <1>2, <2>1, <2>2, Flow, StoredFlow
<1> QED BY <1>2 DEF Running

\* So a promise is kept by every step that does not end or break it.
LEMMA Kept ==
  ASSUME IInv, [Next]_vars, NEW a \in Admins, Promise(a),
         era'[a] = era[a], gone'[a] \subseteq gone[a],
         \A r \in Requests : OriginAnswers(r) => <<req[r].key, resp'[r].body>> \notin gone'[a],
         era[a] = "running" => lock' = lock /\ purge'[a] = purge[a] /\ todo'[a] = todo[a]
  PROVE  Promise(a)'
<1>1. CASE era[a] = "running"
  BY <1>1, RunningStays DEF Promise
<1>2. CASE era[a] = "over"
  BY <1>2, OverStays DEF Promise
<1>3. CASE era[a] \notin {"running", "over"}
  BY <1>3 DEF Promise
<1> QED BY <1>1, <1>2, <1>3

\* Every step keeps every promise: one case for each action of PurgingNext.
LEMMA PromiseStep ==
  ASSUME IInv, PurgeKeepsMemoryEmpty, PromiseInv, [PurgingNext]_<<vars, historyVars>>
  PROVE  PromiseInv'
<1>next. [Next]_vars
  BY PurgingSteps
<1>0. /\ era \in [Admins -> {"none", "running", "over"}]
      /\ gone \in [Admins -> SUBSET (Keys \X Versions)]
      /\ \A a \in Admins : Promise(a)
      /\ pc \in [Requests -> PCs]
      /\ purge \in [Admins -> {"idle", "listing", "deleting"}] /\ todo \in [Admins -> SUBSET Keys]
      /\ None \notin Admins /\ None \notin Versions
  BY Typed, ConstantsAssumption DEF PromiseInv, IInv, RequestInv, DataTyped, ConstantsAssumption
<1>answers. \A r \in Requests : OriginAnswers(r) =>
              pc[r] = "forward" /\ pc'[r] = "answered"
  BY <1>0 DEF OriginAnswers, Goto
<1>quiet. UNCHANGED pc => \A r \in Requests : ~OriginAnswers(r)
  BY <1>answers
<1>still. UNCHANGED <<requestVars, writerVars>> => Carried' = Carried
  BY DEF requestVars, writerVars, Carried, OnTheWay
<1>keepIf. ASSUME NEW b \in Admins, NEW ok \in BOOLEAN, KeepIf(ok, b)
           PROVE  /\ era' \in [Admins -> {"none", "running", "over"}]
                  /\ gone' \in [Admins -> SUBSET (Keys \X Versions)]
                  /\ \A a \in Admins : era'[a] # "none" => era'[a] = era[a] /\ gone'[a] = gone[a]
                  /\ \A a \in Admins \ {b} : era'[a] = era[a] /\ gone'[a] = gone[a]
                  /\ era'[b] = "running" => ok
  BY <1>0, <1>keepIf DEF KeepIf, Abandon, historyVars
<1>gone. \A a \in Admins : era'[a] = "none" => Promise(a)'
  BY DEF Promise
<1>1. ASSUME Untracked \/ UNCHANGED vars, UNCHANGED historyVars PROVE PromiseInv'
  <2>1. \A r \in Requests : ~OriginAnswers(r)
    <3> SUFFICES ASSUME NEW r \in Requests, pc[r] = "forward" PROVE pc'[r] # "answered"
      BY <1>answers
    <3>1. ASSUME NEW s \in Requests, s # r, Client(s) \/ Handler(s) \/ ForwardFails(s) \/ ReadBody(s)
          PROVE  pc'[r] # "answered"
      BY <1>0, <3>1 DEF Client, Arrive, Handler, Disconnect, TryAcquire,
         ServeOverload, ForwardFails, ReceiveHead, ReadBody, StoreInMemory,
         SendToWriter, LookupMemory, LoadFromStorage, FillMemory, Respond, Answer,
         Finish, Goto
    <3>2. CASE Client(r) \/ Handler(r) \/ ForwardFails(r) \/ ReadBody(r)
      BY <1>0, <3>2 DEF Client, Arrive, Handler, Disconnect, TryAcquire,
         ServeOverload, ForwardFails, ReceiveHead, ReadBody, StoreInMemory,
         SendToWriter, LookupMemory, LoadFromStorage, FillMemory, Respond, Answer,
         Finish, Goto
    <3>3. CASE ~ \E s \in Requests : Client(s) \/ Handler(s) \/ ForwardFails(s) \/ ReadBody(s)
      <4>1. UNCHANGED pc
        BY <1>1, <3>3 DEF Untracked, CacheWriter, WriterReceive, WriterStore, BackgroundEvict,
           WindowExpires, vars, requestVars
      <4> QED BY <4>1
    <3> QED BY <3>1, <3>2, <3>3
  <2>2. UNCHANGED purgeVars
    BY <1>1 DEF Untracked, Client, Arrive, Handler, Disconnect, TryAcquire,
       ServeOverload, ForwardFails, ReceiveHead, ReadBody, StoreInMemory,
       SendToWriter, LookupMemory, LoadFromStorage, FillMemory, Respond,
       CacheWriter, WriterReceive, WriterStore, BackgroundEvict, WindowExpires, vars
  <2>3. \A a \in Admins : Promise(a)'
    BY <1>0, <1>1, <1>next, <2>1, <2>2, Kept DEF purgeVars, historyVars
  <2> QED BY <1>0, <1>1, <2>3 DEF PromiseInv, historyVars
<1>2. ASSUME NEW r \in Requests, TrackAnswer(r) PROVE PromiseInv'
  <2>1. /\ OriginAnswers(r) /\ UNCHANGED era /\ UNCHANGED purgeVars
        /\ gone' = [a \in Admins |-> gone[a] \ {<<req[r].key, resp'[r].body>>}]
    BY <1>2 DEF TrackAnswer, OriginAnswers
  <2>2. \A s \in Requests \ {r} : ~OriginAnswers(s)
    <3>1. \A s \in Requests \ {r} : pc'[s] = pc[s]
      BY <1>0, <2>1 DEF OriginAnswers, Goto
    <3> QED BY <1>answers, <3>1
  <2>3. gone' \in [Admins -> SUBSET (Keys \X Versions)]
    BY <1>0, <2>1
  <2>4. \A a \in Admins :
          /\ gone'[a] \subseteq gone[a]
          /\ \A s \in Requests : OriginAnswers(s) => <<req[s].key, resp'[s].body>> \notin gone'[a]
    BY <2>1, <2>2
  <2>5. \A a \in Admins : Promise(a)'
    BY <1>0, <1>next, <2>1, <2>4, Kept DEF purgeVars
  <2> QED BY <1>0, <2>1, <2>3, <2>5 DEF PromiseInv
<1>3. ASSUME NEW b \in Admins, TrackInvalidate(b) PROVE PromiseInv'
  <2>1. /\ Invalidate(b) /\ MemoryFree /\ UNCHANGED <<requestVars, writerVars>>
        /\ purge[b] = "idle"
    BY <1>3 DEF TrackInvalidate, Invalidate
  <2>2. \A r \in Requests : ~OriginAnswers(r)
    BY <1>quiet, <2>1 DEF requestVars
  <2>3. \A a \in Admins : era[a] # "running"
    BY <1>0, <2>1 DEF Promise, Running, MemoryFree
  <2>4. /\ era' \in [Admins -> {"none", "running", "over"}]
        /\ gone' \in [Admins -> SUBSET (Keys \X Versions)]
        /\ \A a \in Admins \ {b} : era'[a] = era[a] /\ gone'[a] = gone[a]
    BY <1>0, <1>3 DEF TrackInvalidate, Abandon, Cached
  <2>5. \A a \in Admins \ {b} : Promise(a)'
    BY <1>0, <1>next, <2>2, <2>3, <2>4, Kept
  <2>6. Promise(b)'
    <3>1. CASE purge'[b] = "listing"
      <4>1. era'[b] = "running" /\ gone'[b] = Cached \ Carried /\ lock' = b
        BY <1>0, <1>3, <2>1, <3>1 DEF TrackInvalidate, Invalidate
      <4>2. Running(b)'
        BY <1>still, <2>1, <3>1, <4>1 DEF Running
      <4> QED BY <4>1, <4>2 DEF Promise
    <3>2. CASE purge'[b] # "listing"
      BY <1>0, <1>3, <1>gone, <3>2 DEF TrackInvalidate, Abandon
    <3> QED BY <3>1, <3>2
  <2> QED BY <2>4, <2>5, <2>6 DEF PromiseInv
<1>4. ASSUME NEW b \in Admins, TrackListing(b) PROVE PromiseInv'
  <2>1. /\ ListObjects(b) /\ KeepIf(todo'[b] = Objects, b)
        /\ UNCHANGED <<requestVars, writerVars>> /\ UNCHANGED lock
        /\ purge[b] = "listing"
        /\ \A a \in Admins \ {b} : purge'[a] = purge[a] /\ todo'[a] = todo[a]
    BY <1>0, <1>4 DEF TrackListing, ListObjects
  <2>2. \A r \in Requests : ~OriginAnswers(r)
    BY <1>quiet, <2>1 DEF requestVars
  <2>3. \A a \in Admins \ {b} : Promise(a)'
    BY <1>0, <1>next, <1>keepIf, <2>1, <2>2, Kept
  <2>4. ASSUME era'[b] = "running" PROVE Promise(b)'
    <3>1. era[b] = "running" /\ gone'[b] = gone[b] /\ todo'[b] = Objects
      BY <1>keepIf, <2>1, <2>4
    <3>2. Running(b)
      BY <1>0, <3>1 DEF Promise
    <3>3. purge'[b] = "deleting" /\ stored' = stored
      BY <1>0, <2>1 DEF ListObjects, writerVars
    <3>4. Running(b)'
      BY <1>0, <1>still, <2>1, <3>1, <3>2, <3>3 DEF Running, Objects
    <3> QED BY <2>4, <3>4 DEF Promise
  <2>5. ASSUME era'[b] # "running" PROVE Promise(b)'
    BY <1>0, <1>next, <1>keepIf, <1>gone, <2>1, <2>2, <2>5, Kept
  <2> QED BY <1>keepIf, <2>1, <2>3, <2>4, <2>5 DEF PromiseInv
<1>5. ASSUME NEW b \in Admins, TrackDelete(b) PROVE PromiseInv'
  <2> DEFINE ok == \A k \in todo[b] \ todo'[b] : stored'[k] = None
  <2>1. /\ DeleteObject(b) /\ KeepIf(ok, b)
        /\ UNCHANGED requestVars /\ UNCHANGED lock /\ UNCHANGED purge
        /\ \A a \in Admins \ {b} : todo'[a] = todo[a]
    BY <1>0, <1>5 DEF TrackDelete, DeleteObject
  <2>2. \A r \in Requests : ~OriginAnswers(r)
    BY <1>quiet, <2>1 DEF requestVars
  <2>3. \A a \in Admins \ {b} : Promise(a)'
    BY <1>0, <1>next, <1>keepIf, <2>1, <2>2, Kept
  <2>4. ASSUME era'[b] = "running" PROVE Promise(b)'
    <3>1. era[b] = "running" /\ gone'[b] = gone[b] /\ ok
      BY <1>keepIf, <2>1, <2>4
    <3>2. Running(b) /\ ~MemoryFree
      BY <1>0, <3>1 DEF Promise, Running, MemoryFree
    <3>3. ASSUME NEW k \in Keys, NEW v \in Versions, <<k, v>> \in gone'[b]
          PROVE  /\ <<k, v>> \notin Carried'
                 /\ stored'[k] = v => k \in todo'[b]
      <4>1. <<k, v>> \notin Carried /\ (stored[k] = v => k \in todo[b])
        BY <2>1, <3>1, <3>2, <3>3 DEF Running, DeleteObject
      <4>2. ~ InFlight(k, v)
        BY <4>1, CarriedMeans
      <4>3. <<k, v>> \notin Carried'
        BY <1>next, <2>2, <3>2, <4>1, Flow
      <4>4. stored'[k] = v => stored[k] = v
        BY <1>next, <4>2, StoredFlow
      <4>5. stored'[k] = v => k \notin todo[b] \ todo'[b]
        BY <1>0, <3>1
      <4> QED BY <4>1, <4>3, <4>4, <4>5
    <3>4. Running(b)'
      BY <2>1, <3>2, <3>3 DEF Running
    <3> QED BY <2>4, <3>4 DEF Promise
  <2>5. ASSUME era'[b] # "running" PROVE Promise(b)'
    BY <1>0, <1>next, <1>keepIf, <1>gone, <2>1, <2>2, <2>5, Kept
  <2> QED BY <1>keepIf, <2>1, <2>3, <2>4, <2>5 DEF PromiseInv
<1>6. ASSUME NEW b \in Admins, TrackFinish(b) PROVE PromiseInv'
  <2>1. /\ FinishInvalidate(b) /\ UNCHANGED gone
        /\ era' = [era EXCEPT ![b] = IF @ = "running" THEN "over" ELSE @]
        /\ UNCHANGED <<requestVars, writerVars>> /\ UNCHANGED todo /\ UNCHANGED memory
        /\ lock' = IF lock = b THEN None ELSE lock
        /\ purge[b] = "deleting" /\ todo[b] = {}
        /\ \A a \in Admins \ {b} : purge'[a] = purge[a]
    BY <1>0, <1>6 DEF TrackFinish, FinishInvalidate, cacheVars
  <2>2. \A r \in Requests : ~OriginAnswers(r)
    BY <1>quiet, <2>1 DEF requestVars
  <2>3. ASSUME NEW a \in Admins \ {b} PROVE Promise(a)'
    <3>1. era'[a] = era[a]
      BY <1>0, <2>1
    <3>2. era[a] = "running" => lock' = lock
      BY <1>0, <2>1 DEF Promise, Running
    <3> QED BY <1>0, <1>next, <2>1, <2>2, <3>1, <3>2, Kept
  <2>4. Promise(b)'
    <3>1. CASE era[b] = "running"
      <4>1. Running(b) /\ lock # None
        BY <1>0, <3>1 DEF Promise, Running
      <4>2. Over(b)'
        BY <1>0, <1>still, <2>1, <4>1 DEF Running, Over, PurgeKeepsMemoryEmpty, writerVars
      <4> QED BY <1>0, <2>1, <3>1, <4>2 DEF Promise
    <3>2. CASE era[b] # "running"
      BY <1>0, <1>next, <2>1, <2>2, <3>2, Kept
    <3> QED BY <3>1, <3>2
  <2>5. era' \in [Admins -> {"none", "running", "over"}]
    BY <1>0, <2>1
  <2> QED BY <1>0, <2>1, <2>3, <2>4, <2>5 DEF PromiseInv
<1>7. ASSUME NEW b \in Admins, TrackDisconnect(b) PROVE PromiseInv'
  <2>1. /\ KeepIf(FALSE, b) /\ lock = b /\ UNCHANGED <<requestVars, writerVars>>
    BY <1>7 DEF TrackDisconnect, AdminDisconnect
  <2>2. \A r \in Requests : ~OriginAnswers(r)
    BY <1>quiet, <2>1 DEF requestVars
  <2>3. ASSUME NEW a \in Admins PROVE Promise(a)'
    <3>1. CASE a # b
      <4>1. era[a] # "running"
        BY <1>0, <2>1, <3>1 DEF Promise, Running
      <4> QED BY <1>0, <1>next, <1>keepIf, <2>1, <2>2, <3>1, <4>1, Kept
    <3>2. CASE a = b
      <4>1. era'[a] # "running"
        BY <1>keepIf, <2>1, <3>2
      <4> QED BY <1>0, <1>next, <1>keepIf, <1>gone, <2>1, <2>2, <3>2, <4>1, Kept
    <3> QED BY <3>1, <3>2
  <2> QED BY <1>keepIf, <2>1, <2>3 DEF PromiseInv
<1>8. CASE TrackCrash
  <2>1. /\ era' = [a \in Admins |-> IF era[a] = "running" THEN "none" ELSE era[a]]
        /\ gone' = [a \in Admins |-> IF era[a] = "running" THEN {} ELSE gone[a]]
        /\ \A r \in Requests : pc'[r] = "idle"
    BY <1>8 DEF TrackCrash, Crash
  <2>2. \A r \in Requests : ~OriginAnswers(r)
    BY <1>answers, <2>1
  <2>3. ASSUME NEW a \in Admins PROVE Promise(a)'
    <3>1. CASE era[a] = "running"
      BY <1>gone, <2>1, <3>1
    <3>2. CASE era[a] # "running"
      BY <1>0, <1>next, <2>1, <2>2, <3>2, Kept
    <3> QED BY <3>1, <3>2
  <2>4. /\ era' \in [Admins -> {"none", "running", "over"}]
        /\ gone' \in [Admins -> SUBSET (Keys \X Versions)]
    BY <1>0, <2>1
  <2> QED BY <2>3, <2>4 DEF PromiseInv
<1> QED
  BY <1>1, <1>2, <1>3, <1>4, <1>5, <1>6, <1>7, <1>8 DEF PurgingNext

\* A purge of both caches that was answered with 200, and of which no call failed,
\* has removed what was at rest for good: only the origin brings it back.  For any
\* number of handlers and admins, with every fault, whoever else purges.
THEOREM PurgedStaysAway == PurgingSpec => []PurgedContentIsGone
<1>1. PurgingInit => PromiseInv
  BY DEF PurgingInit, PromiseInv, Promise
<1>2. PromiseInv => PurgedContentIsGone
  <2> SUFFICES ASSUME PromiseInv, NEW a \in Admins, era[a] = "over",
                      NEW k \in Keys, NEW v \in Versions,
                      <<k, v>> \in gone[a], <<k, v>> \in Cached
               PROVE  FALSE
    BY DEF PurgedContentIsGone, PromiseInv
  <2>1. <<k, v>> \notin Carried /\ memory[k] # v /\ stored[k] # v
    BY DEF PromiseInv, Promise, Over
  <2> QED BY <2>1 DEF Cached, AtRest
<1> QED
  BY <1>1, <1>2, PromiseStep, PurgingImplements, Inductive, PurgedStaysEmpty, PTL DEF PurgingSpec

=============================================================================
