------------------------- MODULE ProxyHandlerProofs -------------------------
(***************************************************************************)
(* Proofs about ProxyHandler for any set of handlers, keys, URIs and       *)
(* admins, any limits and any combination of faults.                       *)
(***************************************************************************)
EXTENDS ProxyHandler, FiniteSetTheorems, TLAPS

-----------------------------------------------------------------------------
(* The request side: where the handlers stand and who owns a permit.       *)

\* Where a handler holds a response, and where it must own a permit.
Carrying == {"answered", "body", "store", "send", "fill"}
Admitted == {"forward", "answered", "body", "store", "send"}
Outside  == {"idle", "acquire", "overload", "respond"}

\* The inductive invariant of the request side.  That a permit can be given
\* back without exceeding the limit needs PermitsConserved, and that the origin
\* is not overloaded needs the last conjunct.
RequestInv ==
  /\ pc \in [Requests -> PCs]
  /\ req \in [Requests -> Request \cup {None}]
  /\ resp \in [Requests -> Response]
  /\ permits \in 0 .. MaxConcurrentRequests
  /\ holders \subseteq Requests
  /\ permits + Cardinality(holders) = MaxConcurrentRequests
  /\ \A r \in Requests :
       /\ pc[r] # "idle" => req[r] # None
       /\ pc[r] \in Carrying => resp[r].body # None
       /\ pc[r] \in Admitted => r \in holders
       /\ pc[r] \in Outside => r \notin holders

\* The permits in use can be counted.
LEMMA HoldersFinite ==
  ASSUME holders \subseteq Requests
  PROVE  IsFiniteSet(holders) /\ Cardinality(holders) \in Nat
BY FS_Subset, FS_CardinalityType, ConstantsAssumption DEF ConstantsAssumption

\* Giving back a permit that is owned, or none, keeps the count right.
LEMMA ReleaseConserves ==
  ASSUME RequestInv, NEW r \in Requests, ReleasePermit(r)
  PROVE  /\ permits' \in 0 .. MaxConcurrentRequests
         /\ holders' \subseteq Requests
         /\ holders' = holders \ {r}
         /\ permits' + Cardinality(holders') = MaxConcurrentRequests
<1>0. IsFiniteSet(holders) /\ Cardinality(holders) \in Nat /\ MaxConcurrentRequests \in Nat
  BY HoldersFinite, ConstantsAssumption DEF RequestInv, ConstantsAssumption
<1>1. CASE r \in holders
  <2>1. holders' = holders \ {r} /\ permits' = permits + 1
    BY <1>1 DEF ReleasePermit
  <2>2. Cardinality(holders') = Cardinality(holders) - 1 /\ Cardinality(holders) >= 1
    <3>1. Cardinality(holders \ {r}) = Cardinality(holders) - 1
      BY <1>0, <1>1, FS_RemoveElement
    <3>2. Cardinality(holders \ {r}) \in Nat
      BY <1>0, FS_Subset, FS_CardinalityType
    <3> QED BY <2>1, <3>1, <3>2, <1>0
  <2> QED BY <1>0, <2>1, <2>2 DEF RequestInv
<1>2. CASE r \notin holders
  <2>1. holders' = holders /\ permits' = permits
    BY <1>2 DEF ReleasePermit
  <2> QED BY <1>2, <2>1 DEF RequestInv
<1> QED BY <1>1, <1>2

\* A step of one handler keeps the invariant if the handler itself ends up in
\* order and the permits are conserved.
LEMMA OneHandler ==
  ASSUME RequestInv, NEW r \in Requests,
         pc' \in [Requests -> PCs],
         req' \in [Requests -> Request \cup {None}],
         resp' \in [Requests -> Response],
         permits' \in 0 .. MaxConcurrentRequests,
         holders' \subseteq Requests,
         permits' + Cardinality(holders') = MaxConcurrentRequests,
         \A s \in Requests \ {r} :
           /\ pc'[s] = pc[s] /\ req'[s] = req[s] /\ resp'[s] = resp[s]
           /\ s \in holders' <=> s \in holders,
         pc'[r] # "idle" => req'[r] # None,
         pc'[r] \in Carrying => resp'[r].body # None,
         pc'[r] \in Admitted => r \in holders',
         pc'[r] \in Outside => r \notin holders'
  PROVE  RequestInv'
BY DEF RequestInv

\* The handler returns a response.
LEMMA AnswerKeeps ==
  ASSUME RequestInv, NEW r \in Requests, pc[r] # "idle",
         NEW status \in Statuses, NEW body \in Bodies \cup {None},
         Answer(r, status, body)
  PROVE  RequestInv'
<1>1. /\ pc' = [pc EXCEPT ![r] = "respond"]
      /\ req' = req
      /\ resp' = [resp EXCEPT ![r] = [NoResp EXCEPT !.status = status, !.body = body]]
      /\ ReleasePermit(r)
  BY DEF Answer, Goto
<1>2. [NoResp EXCEPT !.status = status, !.body = body] \in Response
  BY DEF NoResp, Response
<1>3. pc' \in [Requests -> PCs] /\ pc'[r] = "respond"
  BY <1>1 DEF RequestInv, PCs
<1>4. resp' \in [Requests -> Response]
  BY <1>1, <1>2 DEF RequestInv
<1>5. req' \in [Requests -> Request \cup {None}] /\ req'[r] # None
  BY <1>1 DEF RequestInv
<1>6. \A s \in Requests \ {r} :
        pc'[s] = pc[s] /\ req'[s] = req[s] /\ resp'[s] = resp[s]
  BY <1>1 DEF RequestInv
<1> QED
  BY <1>1, <1>3, <1>4, <1>5, <1>6, ReleaseConserves, OneHandler DEF Carrying, Admitted, Outside

\* The request is over.
LEMMA FinishKeeps ==
  ASSUME RequestInv, NEW r \in Requests, Finish(r)
  PROVE  RequestInv'
<1>1. /\ pc' = [pc EXCEPT ![r] = "idle"]
      /\ req' = [req EXCEPT ![r] = None]
      /\ resp' = [resp EXCEPT ![r] = NoResp]
      /\ ReleasePermit(r)
  BY DEF Finish, Goto
<1>2. NoResp \in Response
  BY DEF NoResp, Response, Statuses
<1>3. pc' \in [Requests -> PCs] /\ pc'[r] = "idle"
  BY <1>1 DEF RequestInv, PCs
<1>4. resp' \in [Requests -> Response] /\ req' \in [Requests -> Request \cup {None}]
  BY <1>1, <1>2 DEF RequestInv
<1>5. \A s \in Requests \ {r} :
        pc'[s] = pc[s] /\ req'[s] = req[s] /\ resp'[s] = resp[s]
  BY <1>1 DEF RequestInv
<1> QED
  BY <1>1, <1>3, <1>4, <1>5, ReleaseConserves, OneHandler DEF Carrying, Admitted, Outside

\* The handler moves on without touching the semaphore.
LEMMA MoveKeeps ==
  ASSUME RequestInv, NEW r \in Requests, NEW label \in PCs \ {"idle"},
         NEW p \in Response,
         Goto(r, label), resp' = [resp EXCEPT ![r] = p],
         UNCHANGED <<req, permits, holders>>,
         req[r] # None,
         label \in Carrying => p.body # None,
         label \in Admitted => r \in holders,
         label \in Outside => r \notin holders
  PROVE  RequestInv'
<1>1. pc' \in [Requests -> PCs] /\ pc'[r] = label
  BY DEF Goto, RequestInv
<1>2. resp' \in [Requests -> Response] /\ resp'[r] = p
  BY DEF RequestInv
<1>3. \A s \in Requests \ {r} :
        pc'[s] = pc[s] /\ req'[s] = req[s] /\ resp'[s] = resp[s]
  BY DEF RequestInv, Goto
<1>4. /\ req' \in [Requests -> Request \cup {None}]
      /\ permits' \in 0 .. MaxConcurrentRequests
      /\ holders' \subseteq Requests
      /\ permits' + Cardinality(holders') = MaxConcurrentRequests
  BY DEF RequestInv
<1> QED
  BY <1>1, <1>2, <1>3, <1>4, OneHandler

-----------------------------------------------------------------------------
(* The data side: what the caches, the writer, the purges and the origin hold. *)

DataTyped ==
  /\ memory \in [Keys -> Bodies \cup {None}]
  /\ lock \in Admins \cup {None}
  /\ latencyFails \subseteq Uris
  /\ channel \in Seq(Message) /\ Len(channel) <= ChannelCapacity
  /\ writing \in Message \cup {None}
  /\ stored \in [Keys -> Bodies \cup {None}]
  /\ purge \in [Admins -> {"idle", "listing", "deleting"}]
  /\ todo \in [Admins -> SUBSET Keys]
  /\ granted \subseteq Keys \X Versions

IInv == RequestInv /\ DataTyped

\* What a busy handler holds is of its type.
LEMMA HandlerTyped ==
  ASSUME IInv, NEW r \in Requests, pc[r] # "idle"
  PROVE  /\ req[r] \in Request
         /\ req[r].key \in Keys
         /\ resp[r] \in Response
         /\ resp[r].status \in Statuses
         /\ resp[r].body \in Bodies \cup {None}
         /\ pc[r] \in Carrying => resp[r].body \in Bodies
         /\ memory[req[r].key] \in Bodies \cup {None}
         /\ stored[req[r].key] \in Bodies \cup {None}
         /\ UriOf[req[r].key] \in Uris
<1>1. req[r] \in Request /\ resp[r] \in Response
  BY DEF IInv, RequestInv
<1>2. req[r].key \in Keys
  BY <1>1 DEF Request
<1>3. resp[r].status \in Statuses /\ resp[r].body \in Bodies \cup {None}
  BY <1>1 DEF Response
<1>4. pc[r] \in Carrying => resp[r].body \in Bodies
  BY <1>3 DEF IInv, RequestInv
<1> QED
  BY <1>1, <1>2, <1>3, <1>4, ConstantsAssumption DEF IInv, DataTyped, ConstantsAssumption

\* What may be left of the memory after a put or a purge.
LEMMA Forgotten ==
  ASSUME NEW m \in [Keys -> Bodies \cup {None}], NEW evicted
  PROVE  Forget(m, evicted) \in [Keys -> Bodies \cup {None}]
BY DEF Forget

\* The request side after each step.
LEMMA RequestStep == IInv /\ [Next]_vars => RequestInv'
<1> SUFFICES ASSUME IInv, [Next]_vars PROVE RequestInv'
  OBVIOUS
<1>1. RequestInv /\ DataTyped
  BY DEF IInv
<1>same. ASSUME UNCHANGED requestVars PROVE RequestInv'
  BY <1>1, <1>same DEF requestVars, RequestInv
<1>2. ASSUME NEW r \in Requests, Arrive(r) PROVE RequestInv'
  <2>1. PICK k \in Keys, bypass, refresh \in BOOLEAN :
          /\ req' = [req EXCEPT ![r] = [key |-> k, bypass |-> bypass]]
          /\ Goto(r, IF should_failover(UriOf[k]) /\ ~(refresh \/ bypass)
                       THEN "cache" ELSE "acquire")
    BY <1>2 DEF Arrive
  <2>2. pc[r] = "idle" /\ UNCHANGED <<resp, permits, holders>>
    BY <1>2 DEF Arrive
  <2>3. [key |-> k, bypass |-> bypass] \in Request
    BY DEF Request
  <2>4. req'[r] \in Request /\ req' \in [Requests -> Request \cup {None}]
    BY <1>1, <2>1, <2>3 DEF RequestInv
  <2>5. req'[r] # None
    BY <2>4, NoneAssumption
  <2>6. pc'[r] \in {"cache", "acquire"} /\ pc' \in [Requests -> PCs]
    BY <1>1, <2>1 DEF Goto, RequestInv, PCs
  <2>7. \A s \in Requests \ {r} : pc'[s] = pc[s] /\ req'[s] = req[s] /\ resp'[s] = resp[s]
    BY <1>1, <2>1, <2>2 DEF Goto, RequestInv
  <2>8. r \notin holders'
    BY <1>1, <2>2 DEF RequestInv, Outside
  <2> QED
    BY <1>1, <2>2, <2>4, <2>5, <2>6, <2>7, <2>8, OneHandler
       DEF RequestInv, Carrying, Admitted, Outside
<1>3. ASSUME NEW r \in Requests, TryAcquire(r) PROVE RequestInv'
  <2>1. pc[r] = "acquire" /\ UNCHANGED <<req, resp>> /\ r \notin holders /\ req[r] # None
    BY <1>1, <1>3 DEF TryAcquire, RequestInv, Outside
  <2>2. CASE permits > 0 /\ permits' = permits - 1 /\ holders' = holders \cup {r}
             /\ Goto(r, "forward")
    <3>1. Cardinality(holders') = Cardinality(holders) + 1
      BY <1>1, <2>1, <2>2, HoldersFinite, FS_AddElement DEF RequestInv
    <3>2. /\ permits' \in 0 .. MaxConcurrentRequests
          /\ permits' + Cardinality(holders') = MaxConcurrentRequests
      BY <1>1, <2>2, <3>1, HoldersFinite, ConstantsAssumption
         DEF RequestInv, ConstantsAssumption
    <3>3. pc' \in [Requests -> PCs] /\ pc'[r] = "forward"
      BY <1>1, <2>2 DEF RequestInv, Goto, PCs
    <3>4. \A s \in Requests \ {r} :
            /\ pc'[s] = pc[s] /\ req'[s] = req[s] /\ resp'[s] = resp[s]
            /\ s \in holders' <=> s \in holders
      BY <1>1, <2>1, <2>2 DEF RequestInv, Goto
    <3> QED
      BY <1>1, <2>1, <2>2, <3>2, <3>3, <3>4, OneHandler
         DEF RequestInv, Carrying, Admitted, Outside
  <2>3. CASE Goto(r, "overload") /\ UNCHANGED <<permits, holders>>
    <3>1. pc' \in [Requests -> PCs] /\ pc'[r] = "overload"
      BY <1>1, <2>3 DEF RequestInv, Goto, PCs
    <3>2. \A s \in Requests \ {r} :
            /\ pc'[s] = pc[s] /\ req'[s] = req[s] /\ resp'[s] = resp[s]
            /\ s \in holders' <=> s \in holders
      BY <1>1, <2>1, <2>3 DEF RequestInv, Goto
    <3> QED
      BY <1>1, <2>1, <2>3, <3>1, <3>2, OneHandler
         DEF RequestInv, Carrying, Admitted, Outside
  <2> QED
    BY <1>3, <2>2, <2>3 DEF TryAcquire
<1>4. ASSUME NEW r \in Requests, ServeOverload(r) PROVE RequestInv'
  <2>1. pc[r] # "idle"
    BY <1>4 DEF ServeOverload
  <2>2. memory[req[r].key] \in Bodies \cup {None}
    BY <2>1, HandlerTyped
  <2> QED
    BY <1>1, <1>4, <2>1, <2>2, AnswerKeeps DEF ServeOverload, get_from_memory, Statuses
<1>5. ASSUME NEW r \in Requests, OriginAnswers(r) PROVE RequestInv'
  <2>1. pc[r] = "forward" /\ req[r] # None /\ r \in holders
        /\ UNCHANGED <<req, permits, holders>> /\ Goto(r, "answered")
    BY <1>1, <1>5 DEF OriginAnswers, RequestInv, Admitted
  <2>2. PICK status \in {"success", "failure"}, version \in Versions :
          resp' = [resp EXCEPT ![r] =
                     [NoResp EXCEPT !.status = status, !.body = version]]
    BY <1>5 DEF OriginAnswers
  <2>3. version \in Bodies /\ version # None
    BY ConstantsAssumption DEF Bodies, ConstantsAssumption
  <2>4. [NoResp EXCEPT !.status = status, !.body = version] \in Response
    BY <2>3 DEF NoResp, Response, Statuses
  <2>5. [NoResp EXCEPT !.status = status, !.body = version].body # None
    BY <2>3 DEF NoResp
  <2> QED
    BY <1>1, <2>1, <2>2, <2>4, <2>5, MoveKeeps DEF PCs, Outside
<1>6. ASSUME NEW r \in Requests, ForwardFails(r) PROVE RequestInv'
  <2>1. pc[r] = "forward" /\ req[r] # None /\ Goto(r, "cache")
        /\ UNCHANGED <<req, resp, permits, holders>>
    BY <1>1, <1>6 DEF ForwardFails, RequestInv
  <2>2. resp[r] \in Response /\ resp' = [resp EXCEPT ![r] = resp[r]]
    BY <1>1, <2>1 DEF RequestInv
  <2> QED
    BY <1>1, <2>1, <2>2, MoveKeeps DEF PCs, Outside, Carrying, Admitted
<1>7. ASSUME NEW r \in Requests, ReceiveHead(r) PROVE RequestInv'
  <2>1. pc[r] = "answered" /\ req[r] # None /\ r \in holders
        /\ UNCHANGED <<req, permits, holders>> /\ Goto(r, "body")
    BY <1>1, <1>7 DEF ReceiveHead, RequestInv, Admitted
  <2>2. PICK slow \in BOOLEAN : resp' = [resp EXCEPT ![r].slow = slow]
    BY <1>7 DEF ReceiveHead
  <2>3. DEFINE p == [resp[r] EXCEPT !.slow = slow]
  <2>4. resp[r] \in Response /\ resp[r].body # None
    BY <1>1, <2>1 DEF RequestInv, Carrying
  <2>5. p \in Response /\ p.body # None
    BY <2>4 DEF Response
  <2>6. resp' = [resp EXCEPT ![r] = p]
    BY <1>1, <2>2 DEF RequestInv
  <2> HIDE DEF p
  <2> QED
    BY <1>1, <2>1, <2>5, <2>6, MoveKeeps DEF PCs, Outside
<1>8. ASSUME NEW r \in Requests, ReadBody(r) PROVE RequestInv'
  <2>1. pc[r] = "body" /\ req[r] # None /\ r \in holders
        /\ resp[r] \in Response /\ resp[r].body \in Bodies /\ resp[r].status \in Statuses
    BY <1>1, <1>8, HandlerTyped DEF ReadBody, RequestInv, Admitted, Carrying
  <2>2. PICK body \in {resp[r].body} \cup (IF "body" \in Faults THEN {EmptyBody} ELSE {}) :
          \/ /\ resp' = [resp EXCEPT ![r].body = body, ![r].slow = FALSE]
             /\ Goto(r, "store")
             /\ UNCHANGED <<req, permits, holders>>
          \/ Answer(r, resp[r].status, body)
    BY <1>8 DEF ReadBody
  <2>3. body \in Bodies /\ body # None
    BY <2>1, <2>2, ConstantsAssumption DEF Bodies, ConstantsAssumption
  <2>4. CASE Answer(r, resp[r].status, body)
    BY <1>1, <2>1, <2>3, <2>4, AnswerKeeps
  <2>5. CASE /\ resp' = [resp EXCEPT ![r].body = body, ![r].slow = FALSE]
             /\ Goto(r, "store")
             /\ UNCHANGED <<req, permits, holders>>
    <3>1. DEFINE p == [resp[r] EXCEPT !.body = body, !.slow = FALSE]
    <3>2. p \in Response /\ p.body # None
      BY <2>1, <2>3 DEF Response
    <3>3. resp' = [resp EXCEPT ![r] = p]
      BY <1>1, <2>5 DEF RequestInv
    <3> HIDE DEF p
    <3> QED
      BY <1>1, <2>1, <2>5, <3>2, <3>3, MoveKeeps DEF PCs, Outside
  <2> QED
    BY <2>2, <2>4, <2>5
<1>9. ASSUME NEW r \in Requests, StoreInMemory(r) PROVE RequestInv'
  <2>1. pc[r] = "store" /\ req[r] # None /\ r \in holders /\ Goto(r, "send")
        /\ UNCHANGED <<req, resp, permits, holders>>
    BY <1>1, <1>9 DEF StoreInMemory, RequestInv, Admitted
  <2>2. resp[r] \in Response /\ resp[r].body # None /\ resp' = [resp EXCEPT ![r] = resp[r]]
    BY <1>1, <2>1 DEF RequestInv, Carrying
  <2> QED
    BY <1>1, <2>1, <2>2, MoveKeeps DEF PCs, Outside
<1>10. ASSUME NEW r \in Requests, SendToWriter(r) PROVE RequestInv'
  <2>1. pc[r] # "idle" /\ Answer(r, resp[r].status, resp[r].body)
    BY <1>10 DEF SendToWriter
  <2> QED
    BY <1>1, <2>1, HandlerTyped, AnswerKeeps
<1>11. ASSUME NEW r \in Requests, LookupMemory(r) PROVE RequestInv'
  <2>1. pc[r] = "cache" /\ req[r] # None /\ resp[r] \in Response
        /\ memory[req[r].key] \in Bodies \cup {None}
    BY <1>1, <1>11, HandlerTyped DEF LookupMemory, RequestInv
  <2>2. CASE Answer(r, "cached", memory[req[r].key])
    BY <1>1, <2>1, <2>2, AnswerKeeps DEF Statuses
  <2>3. CASE Goto(r, "load") /\ UNCHANGED <<req, resp, permits, holders>>
    <3>1. resp' = [resp EXCEPT ![r] = resp[r]]
      BY <1>1, <2>3 DEF RequestInv
    <3> QED
      BY <1>1, <2>1, <2>3, <3>1, MoveKeeps DEF PCs, Outside, Carrying, Admitted
  <2> QED
    BY <1>11, <2>2, <2>3 DEF LookupMemory, get_from_memory
<1>12. ASSUME NEW r \in Requests, LoadFromStorage(r) PROVE RequestInv'
  <2>1. pc[r] = "load" /\ req[r] # None /\ resp[r] \in Response
        /\ stored[req[r].key] \in Bodies \cup {None}
    BY <1>1, <1>12, HandlerTyped DEF LoadFromStorage, RequestInv
  <2>2. CASE Answer(r, NothingLoaded, None) \/ Answer(r, "unavailable", None)
    BY <1>1, <2>1, <2>2, AnswerKeeps DEF Statuses, NothingLoaded
  <2>3. CASE /\ stored[req[r].key] # None
             /\ resp' = [resp EXCEPT ![r].body = stored[req[r].key]]
             /\ Goto(r, "fill")
             /\ UNCHANGED <<req, permits, holders>>
    <3>1. DEFINE p == [resp[r] EXCEPT !.body = stored[req[r].key]]
    <3>2. p \in Response /\ p.body # None
      BY <2>1, <2>3 DEF Response
    <3>3. resp' = [resp EXCEPT ![r] = p]
      BY <1>1, <2>3 DEF RequestInv
    <3> HIDE DEF p
    <3> QED
      BY <1>1, <2>1, <2>3, <3>2, <3>3, MoveKeeps DEF PCs, Outside, Carrying, Admitted
  <2> QED
    BY <1>12, <2>2, <2>3 DEF LoadFromStorage
<1>13. ASSUME NEW r \in Requests, FillMemory(r) PROVE RequestInv'
  <2>1. pc[r] # "idle" /\ Answer(r, "cached", resp[r].body)
    BY <1>13 DEF FillMemory
  <2> QED
    BY <1>1, <2>1, HandlerTyped, AnswerKeeps DEF Statuses
<1>14. ASSUME NEW r \in Requests, Respond(r) \/ Disconnect(r) PROVE RequestInv'
  BY <1>1, <1>14, FinishKeeps DEF Respond, Disconnect
<1>15. CASE Crash
  <2>1. MaxConcurrentRequests \in 0 .. MaxConcurrentRequests
        /\ MaxConcurrentRequests + Cardinality({}) = MaxConcurrentRequests
    BY FS_EmptySet, ConstantsAssumption DEF ConstantsAssumption
  <2>2. NoResp \in Response
    BY DEF NoResp, Response, Statuses
  <2> QED
    BY <1>15, <2>1, <2>2 DEF Crash, RequestInv, PCs, Carrying, Admitted, Outside
<1>16. ASSUME \/ CacheWriter \/ BackgroundEvict
              \/ \E a \in Admins : Invalidate(a) \/ Purger(a) \/ AdminDisconnect(a)
              \/ \E uri \in Uris : WindowExpires(uri)
              \/ UNCHANGED vars
       PROVE  RequestInv'
  <2>1. UNCHANGED requestVars
    BY <1>16 DEF CacheWriter, WriterReceive, WriterStore, BackgroundEvict, Invalidate,
         Purger, ListObjects, DeleteObject, FinishInvalidate, AdminDisconnect,
         WindowExpires, vars
  <2> QED
    BY <2>1, <1>same
<1> QED
  BY <1>2, <1>3, <1>4, <1>5, <1>6, <1>7, <1>8, <1>9, <1>10, <1>11, <1>12, <1>13, <1>14,
     <1>15, <1>16 DEF Next, Client, Handler, Downstream

\* The data side after each step.
LEMMA DataStep == IInv /\ [Next]_vars => DataTyped'
<1> SUFFICES ASSUME IInv, [Next]_vars PROVE DataTyped'
  OBVIOUS
<1>1. RequestInv /\ DataTyped
  BY DEF IInv
<1> USE DEF DataTyped, cacheVars, writerVars, purgeVars
<1>2. ASSUME NEW r \in Requests,
             \/ Arrive(r) \/ TryAcquire(r) \/ ServeOverload(r) \/ ForwardFails(r)
             \/ ReadBody(r) \/ LookupMemory(r) \/ LoadFromStorage(r)
             \/ Respond(r) \/ Disconnect(r)
      PROVE  DataTyped'
  <2>1. UNCHANGED <<cacheVars, writerVars, purgeVars, granted>>
    BY <1>2 DEF Arrive, TryAcquire, ServeOverload, ForwardFails, ReadBody, LookupMemory,
         LoadFromStorage, Respond, Disconnect
  <2> QED BY <1>1, <2>1
<1>3. ASSUME NEW r \in Requests, OriginAnswers(r) PROVE DataTyped'
  <2>1. \A version \in Versions : <<req[r].key, version>> \in Keys \X Versions
    BY <1>3, HandlerTyped DEF OriginAnswers
  <2>2. granted' \subseteq Keys \X Versions
    BY <1>1, <1>3, <2>1 DEF OriginAnswers
  <2> QED BY <1>1, <1>3, <2>2 DEF OriginAnswers
<1>4. ASSUME NEW r \in Requests, ReceiveHead(r) PROVE DataTyped'
  <2>1. UriOf[req[r].key] \in Uris
    BY <1>4, HandlerTyped DEF ReceiveHead
  <2>2. latencyFails' \subseteq Uris
    BY <1>1, <1>4, <2>1 DEF ReceiveHead, mark_latency_fail
  <2> QED BY <1>1, <1>4, <2>2 DEF ReceiveHead
<1>5. ASSUME NEW r \in Requests, StoreInMemory(r) \/ FillMemory(r) PROVE DataTyped'
  <2>1. req[r].key \in Keys /\ resp[r].body \in Bodies
    BY <1>5, HandlerTyped DEF StoreInMemory, FillMemory, Carrying
  <2>2. PICK evicted \in SUBSET Keys :
          memory' = Forget([memory EXCEPT ![req[r].key] = resp[r].body], evicted)
    BY <1>5 DEF StoreInMemory, FillMemory, load_into_memory
  <2>3. [memory EXCEPT ![req[r].key] = resp[r].body] \in [Keys -> Bodies \cup {None}]
    BY <1>1, <2>1
  <2>4. memory' \in [Keys -> Bodies \cup {None}]
    BY <2>2, <2>3, Forgotten
  <2> QED BY <1>1, <1>5, <2>4 DEF StoreInMemory, FillMemory
<1>6. ASSUME NEW r \in Requests, SendToWriter(r) PROVE DataTyped'
  <2>1. [key |-> req[r].key, body |-> resp[r].body] \in Message
    BY <1>6, HandlerTyped DEF SendToWriter, Carrying, Message
  <2>2. channel' \in Seq(Message) /\ Len(channel') <= ChannelCapacity
    BY <1>1, <1>6, <2>1, ConstantsAssumption DEF SendToWriter, ConstantsAssumption
  <2> QED BY <1>1, <1>6, <2>2 DEF SendToWriter
<1>7. CASE WriterReceive
  <2>1. writing' \in Message /\ channel' \in Seq(Message) /\ Len(channel') <= ChannelCapacity
    BY <1>1, <1>7, ConstantsAssumption DEF WriterReceive, ConstantsAssumption
  <2> QED BY <1>1, <1>7, <2>1 DEF WriterReceive
<1>8. CASE WriterStore
  <2>1. writing.key \in Keys /\ writing.body \in Bodies
    BY <1>1, <1>8 DEF WriterStore, Message
  <2>2. stored' \in [Keys -> Bodies \cup {None}]
    BY <1>1, <1>8, <2>1 DEF WriterStore, Persist, Truncate
  <2> QED BY <1>1, <1>8, <2>2 DEF WriterStore
<1>9. ASSUME NEW a \in Admins, Invalidate(a) PROVE DataTyped'
  <2>1. memory' \in [Keys -> Bodies \cup {None}]
    BY <1>1, <1>9, Forgotten DEF Invalidate
  <2> QED BY <1>1, <1>9, <2>1 DEF Invalidate
<1>10. ASSUME NEW a \in Admins, ListObjects(a) PROVE DataTyped'
  <2>1. todo' \in [Admins -> SUBSET Keys]
    BY <1>1, <1>10 DEF ListObjects
  <2> QED BY <1>1, <1>10, <2>1 DEF ListObjects
<1>11. ASSUME NEW a \in Admins, DeleteObject(a) PROVE DataTyped'
  BY <1>1, <1>11 DEF DeleteObject
<1>12. ASSUME NEW a \in Admins, FinishInvalidate(a) \/ AdminDisconnect(a) PROVE DataTyped'
  BY <1>1, <1>12 DEF FinishInvalidate, AdminDisconnect
<1>13. CASE BackgroundEvict
  <2>1. memory' \in [Keys -> Bodies \cup {None}]
    BY <1>1, <1>13, Forgotten DEF BackgroundEvict
  <2> QED BY <1>1, <1>13, <2>1 DEF BackgroundEvict
<1>14. ASSUME NEW uri \in Uris, WindowExpires(uri) PROVE DataTyped'
  BY <1>1, <1>14 DEF WindowExpires
<1>15. CASE Crash
  <2>1. stored' \in [Keys -> Bodies \cup {None}]
    BY <1>1, <1>15 DEF Crash, Persist, Truncate, Message
  <2>2. <<>> \in Seq(Message) /\ Len(<<>>) <= ChannelCapacity
    BY ConstantsAssumption DEF ConstantsAssumption
  <2> QED BY <1>1, <1>15, <2>1, <2>2 DEF Crash
<1>16. CASE UNCHANGED vars
  BY <1>1, <1>16 DEF vars
<1> QED
  BY <1>2, <1>3, <1>4, <1>5, <1>6, <1>7, <1>8, <1>9, <1>10, <1>11, <1>12, <1>13, <1>14,
     <1>15, <1>16 DEF Next, Client, Handler, Downstream, CacheWriter, Purger

\* The strengthening holds in every state.
LEMMA Inductive == Spec => []IInv
<1>1. ASSUME Init PROVE RequestInv
  <2>1. MaxConcurrentRequests \in 0 .. MaxConcurrentRequests
        /\ MaxConcurrentRequests + Cardinality({}) = MaxConcurrentRequests
    BY FS_EmptySet, ConstantsAssumption DEF ConstantsAssumption
  <2>2. NoResp \in Response
    BY DEF NoResp, Response, Statuses
  <2> QED
    BY <1>1, <2>1, <2>2 DEF Init, RequestInv, PCs, Carrying, Admitted, Outside
<1>2. ASSUME Init PROVE DataTyped
  <2>1. 1 \in Versions
    BY ConstantsAssumption DEF Versions, ConstantsAssumption
  <2>2. <<>> \in Seq(Message) /\ Len(<<>>) <= ChannelCapacity
    BY ConstantsAssumption DEF ConstantsAssumption
  <2> QED
    BY <1>2, <2>1, <2>2 DEF Init, DataTyped
<1> QED
  BY <1>1, <1>2, RequestStep, DataStep, PTL DEF Spec, IInv

\* Every variable keeps its type; a busy handler has a request, one that passes
\* a response on holds one, and the channel never exceeds its capacity.
THEOREM TypeCorrect == Spec => []TypeOK
<1>1. IInv => TypeOK
  BY DEF IInv, RequestInv, DataTyped, TypeOK, Carrying
<1> QED
  BY <1>1, Inductive, PTL

\* Permits are neither lost nor doubled, whatever way handlers end.
THEOREM PermitsAreConserved == Spec => []PermitsConserved
<1>1. IInv => PermitsConserved
  BY DEF IInv, RequestInv, PermitsConserved, Outside
<1> QED
  BY <1>1, Inductive, PTL

\* The downstream never works on more than max_concurrent_requests requests.
THEOREM OriginIsProtected == Spec => []OriginLoadBounded
<1>1. ASSUME IInv PROVE OriginLoadBounded
  <2> DEFINE S == {r \in Requests : pc[r] \in {"forward", "answered", "body"}}
  <2>1. S \subseteq holders
    BY <1>1 DEF IInv, RequestInv, Admitted
  <2>2. IsFiniteSet(holders) /\ Cardinality(holders) \in Nat
    BY <1>1, HoldersFinite DEF IInv, RequestInv
  <2>3. Cardinality(S) \in Nat /\ Cardinality(S) <= Cardinality(holders)
    BY <2>1, <2>2, FS_Subset, FS_CardinalityType
  <2>4. Cardinality(holders) <= MaxConcurrentRequests
    BY <1>1, <2>2, ConstantsAssumption DEF IInv, RequestInv, ConstantsAssumption
  <2> QED
    BY <2>2, <2>3, <2>4, ConstantsAssumption DEF OriginLoadBounded, ConstantsAssumption
<1> QED
  BY <1>1, Inductive, PTL

-----------------------------------------------------------------------------
(* A purge holds the lock of MEMORY_CACHE until it is done. *)

\* While an invalidation holds the lock nothing enters MEMORY_CACHE.
THEOREM PurgedStaysEmpty == Spec => []PurgeKeepsMemoryEmpty
<1>1. Init => PurgeKeepsMemoryEmpty
  BY DEF Init, PurgeKeepsMemoryEmpty
<1>2. PurgeKeepsMemoryEmpty /\ [Next]_vars => PurgeKeepsMemoryEmpty'
  <2> SUFFICES ASSUME PurgeKeepsMemoryEmpty, [Next]_vars PROVE PurgeKeepsMemoryEmpty'
    OBVIOUS
  <2> USE DEF PurgeKeepsMemoryEmpty, cacheVars, purgeVars, MemoryFree
  <2>1. CASE UNCHANGED <<memory, lock>>
    BY <2>1
  <2>2. ASSUME NEW r \in Requests, Client(r) \/ Handler(r) \/ Downstream(r)
        PROVE  PurgeKeepsMemoryEmpty'
    <3>1. CASE StoreInMemory(r) \/ FillMemory(r)
      BY <3>1 DEF StoreInMemory, FillMemory, load_into_memory
    <3>2. CASE ~(StoreInMemory(r) \/ FillMemory(r))
      <4>1. UNCHANGED <<memory, lock>>
        BY <2>2, <3>2 DEF Client, Arrive, Handler, Downstream, Disconnect, TryAcquire, ServeOverload,
             ReceiveHead, ReadBody, SendToWriter, LookupMemory, LoadFromStorage, Respond,
             OriginAnswers, ForwardFails
      <4> QED BY <4>1, <2>1
    <3> QED BY <3>1, <3>2
  <2>3. ASSUME NEW a \in Admins, Invalidate(a) \/ Purger(a) \/ AdminDisconnect(a)
        PROVE  PurgeKeepsMemoryEmpty'
    BY <2>3 DEF Invalidate, Forget, Purger, ListObjects, DeleteObject, FinishInvalidate,
         AdminDisconnect
  <2>4. CASE BackgroundEvict
    BY <2>4 DEF BackgroundEvict
  <2>5. CASE CacheWriter \/ UNCHANGED vars
    BY <2>5 DEF CacheWriter, WriterReceive, WriterStore, vars
  <2>6. CASE Crash
    BY <2>6 DEF Crash
  <2>7. ASSUME \/ \E uri \in Uris : WindowExpires(uri)
        PROVE  PurgeKeepsMemoryEmpty'
    BY <2>7 DEF WindowExpires
  <2> QED
    BY <2>2, <2>3, <2>4, <2>5, <2>6, <2>7 DEF Next
<1> QED
  BY <1>1, <1>2, PTL DEF Spec

-----------------------------------------------------------------------------
(* Where cached content comes from. *)

\* What a handler holds: a response the origin granted for its key, from the
\* moment it arrives; legitimate content for its key, once it goes into a cache
\* or comes out of one.
Clean(r) ==
  /\ pc[r] \in {"answered", "body"} /\ resp[r].status = "success" /\ ~req[r].bypass
       => <<req[r].key, resp[r].body>> \in granted
  /\ pc[r] \in {"store", "send", "fill"} => resp[r].body \in Legit(req[r].key)
  /\ resp[r].status = "cached" =>
       pc[r] = "respond" /\ resp[r].body \in Legit(req[r].key)

CachesClean == \A k \in Keys : {memory[k], stored[k]} \subseteq Legit(k) \cup {None}

QueueClean ==
  /\ \A i \in 1 .. Len(channel) : channel[i].body \in Legit(channel[i].key)
  /\ writing # None => writing.body \in Legit(writing.key)

ContentInv == CachesClean /\ QueueClean /\ \A r \in Requests : Clean(r)

\* A permission to cache is never taken back.
LEMMA GrantedGrows == [Next]_vars => granted \subseteq granted'
<1> SUFFICES ASSUME [Next]_vars PROVE granted \subseteq granted'
  OBVIOUS
<1>1. CASE \E r \in Requests : OriginAnswers(r)
  BY <1>1 DEF OriginAnswers
<1>2. CASE UNCHANGED granted
  BY <1>2
<1>3. CASE ~ \E r \in Requests : OriginAnswers(r)
  <2>1. UNCHANGED granted
    BY <1>3 DEF Next, Client, Handler, Downstream, CacheWriter, Purger, Arrive, TryAcquire,
       ServeOverload, ForwardFails, ReceiveHead, ReadBody, StoreInMemory, SendToWriter,
       LookupMemory, LoadFromStorage, FillMemory, Respond, Disconnect, WriterReceive,
       WriterStore, Invalidate, ListObjects, DeleteObject, FinishInvalidate,
       AdminDisconnect, BackgroundEvict, WindowExpires, Crash, vars
  <2> QED BY <2>1
<1> QED BY <1>1, <1>3

\* Content that is legitimate stays so.
LEMMA LegitGrows ==
  ASSUME granted \subseteq granted'
  PROVE  \A k : Legit(k) \subseteq Legit(k)'
BY DEF Legit

\* A granted version is legitimate, and so is what is left of it.
LEMMA GrantedIsLegit ==
  ASSUME NEW k, NEW v \in Versions, <<k, v>> \in granted
  PROVE  {v, EmptyBody} \subseteq Legit(k)
BY DEF Legit

\* Handlers: only the one that takes a step can change what it holds.
LEMMA HandlersStayClean ==
  IInv /\ ContentInv /\ [Next]_vars => \A r \in Requests : Clean(r)'
<1> SUFFICES ASSUME IInv, ContentInv, [Next]_vars, NEW r \in Requests PROVE Clean(r)'
  OBVIOUS
<1>0. Clean(r) /\ granted \subseteq granted' /\ \A k : Legit(k) \subseteq Legit(k)'
  BY GrantedGrows, LegitGrows DEF ContentInv
<1>1. /\ pc \in [Requests -> PCs] /\ req \in [Requests -> Request \cup {None}]
      /\ resp \in [Requests -> Response]
  BY DEF IInv, RequestInv
<1>same. ASSUME pc'[r] = pc[r], req'[r] = req[r], resp'[r] = resp[r] PROVE Clean(r)'
  BY <1>0, <1>same DEF Clean
<1>gone. ASSUME pc'[r] = "idle", resp'[r] = NoResp PROVE Clean(r)'
  BY <1>gone DEF Clean, NoResp
<1>2. ASSUME NEW status \in Statuses, NEW body, Answer(r, status, body),
             status = "cached" => body \in Legit(req[r].key)
      PROVE  Clean(r)'
  <2>1. /\ pc'[r] = "respond" /\ req'[r] = req[r]
        /\ resp'[r] = [NoResp EXCEPT !.status = status, !.body = body]
    BY <1>1, <1>2 DEF Answer, Goto
  <2>2. resp'[r].status = status /\ resp'[r].body = body
    BY <2>1 DEF NoResp
  <2> QED BY <1>0, <1>2, <2>1, <2>2 DEF Clean
<1>3. ASSUME NEW s \in Requests, s # r,
             Client(s) \/ Handler(s) \/ Downstream(s)
      PROVE  Clean(r)'
  <2>1. pc'[r] = pc[r] /\ req'[r] = req[r] /\ resp'[r] = resp[r]
    BY <1>1, <1>3 DEF Client, Arrive, Handler, Downstream, Disconnect, TryAcquire, ServeOverload,
       OriginAnswers, ForwardFails, ReceiveHead, ReadBody, StoreInMemory, SendToWriter,
       LookupMemory, LoadFromStorage, FillMemory, Respond, Answer, Finish, Goto
  <2> QED BY <2>1, <1>same
<1>4. CASE Arrive(r) \/ TryAcquire(r) \/ ForwardFails(r)
  <2>1. /\ pc'[r] \in {"cache", "acquire", "forward", "overload"}
        /\ pc[r] # "respond" /\ resp'[r] = resp[r]
    BY <1>1, <1>4 DEF Arrive, TryAcquire, ForwardFails, Goto
  <2> QED BY <1>0, <2>1 DEF Clean
<1>5. CASE ServeOverload(r)
  <2>1. req[r].key \in Keys
    BY <1>5, HandlerTyped DEF ServeOverload
  <2>2. memory[req[r].key] # None => memory[req[r].key] \in Legit(req[r].key)
    BY <2>1 DEF ContentInv, CachesClean
  <2> QED BY <1>2, <1>5, <2>2 DEF ServeOverload, get_from_memory, Statuses
<1>6. CASE OriginAnswers(r)
  <2>1. PICK status \in {"success", "failure"}, version \in Versions :
          /\ resp' = [resp EXCEPT ![r] =
                        [NoResp EXCEPT !.status = status, !.body = version]]
          /\ granted' = IF status = "success" /\ ~req[r].bypass
                          THEN granted \cup {<<req[r].key, version>>} ELSE granted
    BY <1>6 DEF OriginAnswers
  <2>2. resp'[r].status = status /\ resp'[r].body = version
    BY <1>1, <2>1 DEF NoResp
  <2>3. pc'[r] = "answered" /\ req'[r] = req[r]
    BY <1>1, <1>6 DEF OriginAnswers, Goto
  <2> QED BY <2>1, <2>2, <2>3 DEF Clean
<1>7. CASE ReceiveHead(r)
  <2>1. PICK slow \in BOOLEAN : resp' = [resp EXCEPT ![r].slow = slow]
    BY <1>7 DEF ReceiveHead
  <2>2. resp'[r].status = resp[r].status /\ resp'[r].body = resp[r].body
    BY <1>1, <2>1 DEF Response
  <2>3. pc[r] = "answered" /\ pc'[r] = "body" /\ req'[r] = req[r]
    BY <1>1, <1>7 DEF ReceiveHead, Goto
  <2> QED BY <1>0, <2>2, <2>3 DEF Clean
<1>8. CASE ReadBody(r)
  <2>1. pc[r] = "body" /\ resp[r].status \in Statuses /\ resp[r].status # "cached"
    BY <1>0, <1>8, HandlerTyped DEF ReadBody, Clean
  <2>2. PICK body \in {resp[r].body, EmptyBody} :
          \/ /\ Cacheable(r)
             /\ resp' = [resp EXCEPT ![r].body = body, ![r].slow = FALSE]
             /\ Goto(r, "store")
             /\ UNCHANGED <<req, permits, holders>>
          \/ Answer(r, resp[r].status, body)
    BY <1>8 DEF ReadBody
  <2>3. CASE Answer(r, resp[r].status, body)
    BY <1>2, <2>1, <2>3
  <2>4. CASE /\ Cacheable(r)
             /\ resp' = [resp EXCEPT ![r].body = body, ![r].slow = FALSE]
             /\ Goto(r, "store")
             /\ UNCHANGED <<req, permits, holders>>
    <3>1. <<req[r].key, resp[r].body>> \in granted
      BY <1>0, <2>1, <2>4 DEF Clean, Cacheable
    <3>2. resp[r].body \in Versions
      BY <3>1 DEF IInv, DataTyped
    <3>3. body \in Legit(req[r].key)
      BY <2>2, <3>1, <3>2, GrantedIsLegit
    <3>4. /\ pc'[r] = "store" /\ req'[r] = req[r]
          /\ resp'[r].status = resp[r].status /\ resp'[r].body = body
      BY <1>1, <2>4 DEF Goto, Response
    <3> QED BY <1>0, <2>1, <3>3, <3>4 DEF Clean
  <2> QED BY <2>2, <2>3, <2>4
<1>9. CASE StoreInMemory(r)
  <2>1. pc[r] = "store" /\ pc'[r] = "send" /\ req'[r] = req[r] /\ resp'[r] = resp[r]
    BY <1>1, <1>9 DEF StoreInMemory, Goto
  <2> QED BY <1>0, <2>1 DEF Clean
<1>10. CASE SendToWriter(r)
  <2>1. pc[r] = "send" /\ resp[r].status \in Statuses /\ resp[r].status # "cached"
    BY <1>0, <1>10, HandlerTyped DEF SendToWriter, Clean
  <2> QED BY <1>2, <1>10, <2>1 DEF SendToWriter
<1>11. CASE LookupMemory(r)
  <2>1. pc[r] = "cache" /\ req[r].key \in Keys
    BY <1>11, HandlerTyped DEF LookupMemory
  <2>2. memory[req[r].key] # None => memory[req[r].key] \in Legit(req[r].key)
    BY <2>1 DEF ContentInv, CachesClean
  <2>3. CASE Goto(r, "load") /\ UNCHANGED <<req, resp>>
    <3>1. pc'[r] = "load" /\ req'[r] = req[r] /\ resp'[r] = resp[r]
      BY <1>1, <2>3 DEF Goto
    <3> QED BY <1>0, <2>1, <3>1 DEF Clean
  <2> QED BY <1>2, <1>11, <2>2, <2>3 DEF LookupMemory, get_from_memory, Statuses
<1>12. CASE LoadFromStorage(r)
  <2>1. pc[r] = "load" /\ req[r].key \in Keys
    BY <1>12, HandlerTyped DEF LoadFromStorage
  <2>2. stored[req[r].key] # None => stored[req[r].key] \in Legit(req[r].key)
    BY <2>1 DEF ContentInv, CachesClean
  <2>3. CASE /\ stored[req[r].key] # None
             /\ resp' = [resp EXCEPT ![r].body = stored[req[r].key]]
             /\ Goto(r, "fill")
             /\ UNCHANGED req
    <3>1. /\ pc'[r] = "fill" /\ req'[r] = req[r]
          /\ resp'[r].status = resp[r].status /\ resp'[r].body = stored[req[r].key]
      BY <1>1, <2>3 DEF Goto, Response
    <3> QED BY <1>0, <2>1, <2>2, <2>3, <3>1 DEF Clean
  <2> QED BY <1>2, <1>12, <2>3 DEF LoadFromStorage, NothingLoaded, Statuses
<1>13. CASE FillMemory(r)
  <2>1. resp[r].body \in Legit(req[r].key)
    BY <1>0, <1>13 DEF FillMemory, Clean
  <2> QED BY <1>2, <1>13, <2>1 DEF FillMemory, Statuses
<1>14. CASE Respond(r) \/ Disconnect(r) \/ Crash
  <2>1. pc'[r] = "idle" /\ resp'[r] = NoResp
    BY <1>1, <1>14 DEF Respond, Disconnect, Crash, Finish, Goto
  <2> QED BY <2>1, <1>gone
<1>15. ASSUME \/ CacheWriter \/ BackgroundEvict
              \/ \E a \in Admins : Invalidate(a) \/ Purger(a) \/ AdminDisconnect(a)
              \/ \E uri \in Uris : WindowExpires(uri)
              \/ UNCHANGED vars
       PROVE  Clean(r)'
  <2>1. UNCHANGED requestVars
    BY <1>15 DEF CacheWriter, WriterReceive, WriterStore, BackgroundEvict, Invalidate,
         Purger, ListObjects, DeleteObject, FinishInvalidate, AdminDisconnect,
         WindowExpires, vars
  <2> QED
    BY <2>1, <1>same DEF requestVars
<1> QED
  BY <1>3, <1>4, <1>5, <1>6, <1>7, <1>8, <1>9, <1>10, <1>11, <1>12, <1>13, <1>14, <1>15
     DEF Next, Client, Handler, Downstream

\* Memory and the backend: what enters them is clean.
LEMMA CachesStayClean == IInv /\ ContentInv /\ [Next]_vars => CachesClean'
<1> SUFFICES ASSUME IInv, ContentInv, [Next]_vars, NEW k \in Keys
             PROVE  /\ memory'[k] \in Legit(k)' \cup {None}
                    /\ stored'[k] \in Legit(k)' \cup {None}
  BY DEF CachesClean
<1>0. /\ memory[k] \in Legit(k)' \cup {None}
      /\ stored[k] \in Legit(k)' \cup {None}
      /\ \A j : Legit(j) \subseteq Legit(j)'
  BY GrantedGrows, LegitGrows DEF ContentInv, CachesClean
<1>1. /\ memory \in [Keys -> Bodies \cup {None}] /\ stored \in [Keys -> Bodies \cup {None}]
      /\ writing \in Message \cup {None}
  BY DEF IInv, DataTyped
<1>2. ASSUME writing # None, Persist(writing) \/ Truncate(writing)
      PROVE  stored'[k] \in Legit(k)' \cup {None}
  <2>1. CASE Persist(writing)
    BY <1>0, <1>1, <1>2, <2>1 DEF Persist, ContentInv, QueueClean
  <2>2. CASE Truncate(writing)
    BY <1>0, <1>1, <1>2, <2>2 DEF Truncate, Message
  <2> QED BY <1>2, <2>1, <2>2
<1>3. memory'[k] \in Legit(k)' \cup {None}
  <2>1. CASE memory'[k] \in {memory[k], None}
    BY <1>0, <2>1
  <2>2. ASSUME NEW r \in Requests, StoreInMemory(r) \/ FillMemory(r)
        PROVE  memory'[k] \in Legit(k)' \cup {None}
    <3>1. resp[r].body \in Legit(req[r].key)
      BY <2>2 DEF StoreInMemory, FillMemory, ContentInv, Clean
    <3>2. PICK evicted \in SUBSET Keys :
            memory' = Forget([memory EXCEPT ![req[r].key] = resp[r].body], evicted)
      BY <2>2 DEF StoreInMemory, FillMemory, load_into_memory
    <3>3. memory'[k] \in {memory[k], None} \/ (k = req[r].key /\ memory'[k] = resp[r].body)
      BY <1>1, <3>2 DEF Forget
    <3> QED BY <1>0, <2>1, <3>1, <3>3
  <2>3. ASSUME ~ \E r \in Requests : StoreInMemory(r) \/ FillMemory(r)
        PROVE  memory'[k] \in {memory[k], None}
    <3>1. CASE \/ BackgroundEvict \/ Crash
               \/ \E a \in Admins : Invalidate(a)
      BY <3>1 DEF BackgroundEvict, Crash, Invalidate, Forget
    <3>2. CASE UNCHANGED memory
      BY <3>2
    <3>3. CASE ~ (\/ BackgroundEvict \/ Crash
                  \/ \E a \in Admins : Invalidate(a))
      <4>1. UNCHANGED memory
        BY <2>3, <3>3 DEF Next, Client, Handler, Downstream, CacheWriter, Purger, Arrive, TryAcquire,
           ServeOverload, OriginAnswers, ForwardFails, ReceiveHead, ReadBody, SendToWriter,
           LookupMemory, LoadFromStorage, Respond, Disconnect, WriterReceive, WriterStore,
           ListObjects, DeleteObject, FinishInvalidate, AdminDisconnect, WindowExpires,
           vars, cacheVars
      <4> QED BY <4>1
    <3> QED BY <3>1, <3>3
  <2> QED BY <2>1, <2>2, <2>3
<1>4. stored'[k] \in Legit(k)' \cup {None}
  <2>1. CASE stored'[k] \in {stored[k], None}
    BY <1>0, <2>1
  <2>2. CASE WriterStore
    BY <1>2, <2>1, <2>2 DEF WriterStore
  <2>3. CASE Crash
    BY <1>2, <2>1, <2>3 DEF Crash
  <2>4. CASE \E a \in Admins : DeleteObject(a)
    BY <1>1, <2>1, <2>4 DEF DeleteObject
  <2>5. CASE ~ (WriterStore \/ Crash \/ \E a \in Admins : DeleteObject(a))
    <3>1. UNCHANGED stored
      BY <2>5 DEF Next, Client, Handler, Downstream, CacheWriter, Purger, Arrive, TryAcquire,
         ServeOverload, OriginAnswers, ForwardFails, ReceiveHead, ReadBody, StoreInMemory,
         SendToWriter, LookupMemory, LoadFromStorage, FillMemory, Respond, Disconnect,
         WriterReceive, Invalidate, ListObjects, FinishInvalidate, AdminDisconnect,
         BackgroundEvict, WindowExpires, vars, writerVars
    <3> QED BY <2>1, <3>1
  <2> QED BY <2>2, <2>3, <2>4, <2>5
<1> QED BY <1>3, <1>4

\* The channel and the writer: what is queued was clean when it was sent.
LEMMA QueueStaysClean == IInv /\ ContentInv /\ [Next]_vars => QueueClean'
<1> SUFFICES ASSUME IInv, ContentInv, [Next]_vars PROVE QueueClean'
  OBVIOUS
<1>0. \A k : Legit(k) \subseteq Legit(k)'
  BY GrantedGrows, LegitGrows
<1>1. channel \in Seq(Message) /\ QueueClean
  BY DEF IInv, DataTyped, ContentInv
<1>same. ASSUME UNCHANGED <<channel, writing>> PROVE QueueClean'
  BY <1>0, <1>1, <1>same DEF QueueClean
<1>2. ASSUME NEW r \in Requests, SendToWriter(r) PROVE QueueClean'
  <2>1. resp[r].body \in Legit(req[r].key)
    BY <1>2 DEF SendToWriter, ContentInv, Clean
  <2>2. /\ channel' = Append(channel, [key |-> req[r].key, body |-> resp[r].body])
        /\ writing' = writing
    BY <1>2 DEF SendToWriter
  <2>3. ASSUME NEW i \in 1 .. Len(channel') PROVE channel'[i].body \in Legit(channel'[i].key)
    <3>1. CASE i <= Len(channel)
      BY <1>1, <2>2, <3>1 DEF QueueClean
    <3>2. CASE i = Len(channel) + 1
      <4>1. channel'[i] = [key |-> req[r].key, body |-> resp[r].body]
        BY <1>1, <2>2, <3>2
      <4> QED BY <2>1, <4>1
    <3> QED BY <1>1, <2>2, <3>1, <3>2
  <2> QED BY <1>0, <1>1, <2>2, <2>3 DEF QueueClean
<1>3. CASE WriterReceive
  <2>1. /\ channel # <<>> /\ writing' = channel[1]
        /\ channel' = Tail(channel)
    BY <1>1, <1>3 DEF WriterReceive
  <2>2. Len(channel) >= 1
    BY <1>1, <2>1
  <2>3. \A i \in 1 .. Len(channel') : channel'[i] = channel[i + 1] /\ i + 1 \in 1 .. Len(channel)
    BY <1>1, <2>1
  <2> QED BY <1>0, <1>1, <2>1, <2>2, <2>3 DEF QueueClean
<1>4. CASE WriterStore
  BY <1>0, <1>1, <1>4 DEF WriterStore, QueueClean
<1>5. CASE Crash
  BY <1>5 DEF Crash, QueueClean
<1>6. CASE ~ (WriterReceive \/ WriterStore \/ Crash \/ \E r \in Requests : SendToWriter(r))
  <2>1. UNCHANGED <<channel, writing>>
    BY <1>6 DEF Next, Client, Handler, Downstream, CacheWriter, Purger, Arrive, TryAcquire,
       ServeOverload, OriginAnswers, ForwardFails, ReceiveHead, ReadBody, StoreInMemory,
       LookupMemory, LoadFromStorage, FillMemory, Respond, Disconnect, Invalidate,
       ListObjects, DeleteObject, FinishInvalidate, AdminDisconnect, BackgroundEvict,
       WindowExpires, vars, writerVars
  <2> QED BY <2>1, <1>same
<1> QED BY <1>2, <1>3, <1>4, <1>5, <1>6

\* Nothing enters a cache, and nothing is served from one, that the origin did
\* not grant for that very key.
THEOREM CacheContentIsGranted == Spec => []OnlyGrantedIsCached
<1>1. Init => ContentInv
  BY DEF Init, ContentInv, CachesClean, QueueClean, Clean, NoResp
<1>2. IInv /\ ContentInv /\ [Next]_vars => ContentInv'
  BY HandlersStayClean, CachesStayClean, QueueStaysClean DEF ContentInv
<1>3. IInv /\ ContentInv => OnlyGrantedIsCached
  BY DEF IInv, DataTyped, ContentInv, CachesClean, QueueClean, Clean,
         OnlyGrantedIsCached, OnTheWay
<1> QED
  BY <1>1, <1>2, <1>3, Inductive, PTL DEF Spec

-----------------------------------------------------------------------------
(* Write-behind: what memory can serve is persisted or about to be. *)

Quiet == Faults \cap {"storage", "disconnect"} = {} /\ Admins = {}

\* A fill needs that the object it loaded is still in the backend.
BackedInv ==
  /\ \A k \in Keys : memory[k] # None => Backed(k)
  /\ \A r \in Requests : pc[r] = "fill" => stored[req[r].key] # None

\* The steps that take nothing of k away: no failing storage, no crash, no client
\* that leaves with a message for k unsent, no deletion of k.
Sparing(k) ==
  /\ "storage" \notin Faults /\ ~Crash
  /\ \A r \in Requests : ~(pc[r] = "send" /\ req[r].key = k /\ pc'[r] = "idle")
  /\ \A a \in Admins : k \notin todo[a] \ todo'[a]

\* In a step that spares it an object that is stored stays stored.
LEMMA StoredStays ==
  ASSUME IInv, [Next]_vars, NEW k \in Keys, Sparing(k), stored[k] # None
  PROVE  stored'[k] # None
<1>1. stored \in [Keys -> Bodies \cup {None}] /\ writing \in Message \cup {None}
      /\ todo \in [Admins -> SUBSET Keys]
  BY DEF IInv, DataTyped
<1>2. writing # None => writing.body # None /\ writing.key \in Keys
  BY <1>1, ConstantsAssumption DEF Message, ConstantsAssumption
<1>3. CASE WriterStore
  BY <1>1, <1>2, <1>3 DEF WriterStore, Persist, Sparing
<1>4. ASSUME NEW a \in Admins, DeleteObject(a) PROVE stored'[k] # None
  BY <1>1, <1>4 DEF DeleteObject, Sparing
<1>5. CASE ~ (WriterStore \/ \E a \in Admins : DeleteObject(a))
  <2>1. UNCHANGED stored
    BY <1>5 DEF Sparing, Next, Client, Handler, Downstream, CacheWriter, Purger, Arrive,
       TryAcquire, ServeOverload, OriginAnswers, ForwardFails, ReceiveHead, ReadBody,
       StoreInMemory, SendToWriter, LookupMemory, LoadFromStorage, FillMemory, Respond,
       Disconnect, WriterReceive, Invalidate, ListObjects, FinishInvalidate,
       AdminDisconnect, BackgroundEvict, WindowExpires, vars, writerVars
  <2> QED BY <2>1
<1> QED BY <1>3, <1>4, <1>5

\* A backed key stays backed in a step that spares it.
LEMMA BackedStays ==
  ASSUME IInv, [Next]_vars, NEW k \in Keys, Sparing(k), Backed(k)
  PROVE  Backed(k)'
<1>0. /\ stored \in [Keys -> Bodies \cup {None}] /\ writing \in Message \cup {None}
      /\ channel \in Seq(Message)
      /\ pc \in [Requests -> PCs] /\ req \in [Requests -> Request \cup {None}]
  BY DEF IInv, DataTyped, RequestInv
<1>1. CASE stored[k] # None
  BY <1>1, StoredStays DEF Backed
<1>2. CASE Queued(k)
  <2>1. CASE WriterReceive
    <3>1. channel # <<>> /\ writing = None /\ writing' = channel[1] /\ channel' = Tail(channel)
      BY <1>0, <2>1 DEF WriterReceive
    <3>2. PICK i \in 1 .. Len(channel) : channel[i].key = k
      BY <1>2, <3>1 DEF Queued, OnTheWay
    <3>3. CASE i = 1
      <4>1. channel[1] \in Message
        BY <1>0, <3>2, <3>3
      <4>2. writing' # None /\ writing'.key = k
        BY <3>1, <3>2, <3>3, <4>1, NoneAssumption
      <4> QED BY <4>2 DEF Backed, Queued, OnTheWay
    <3>4. CASE i # 1
      <4>1. i - 1 \in 1 .. Len(channel') /\ channel'[i - 1] = channel[i]
        BY <1>0, <3>1, <3>2, <3>4
      <4> QED BY <3>2, <4>1 DEF Backed, Queued, OnTheWay
    <3> QED BY <3>3, <3>4
  <2>2. CASE WriterStore
    <3>1. writing # None /\ stored' = [stored EXCEPT ![writing.key] = writing.body]
          /\ channel' = channel
      BY <2>2 DEF WriterStore, Persist, Sparing
    <3>2. writing.body # None /\ writing.key \in Keys
      BY <1>0, <3>1, ConstantsAssumption DEF Message, ConstantsAssumption
    <3>3. CASE writing.key = k
      BY <1>0, <3>1, <3>2, <3>3 DEF Backed
    <3>4. CASE writing.key # k
      BY <1>2, <3>1, <3>4 DEF Backed, Queued, OnTheWay
    <3> QED BY <3>3, <3>4
  <2>3. ASSUME NEW r \in Requests, SendToWriter(r) PROVE Backed(k)'
    <3>1. /\ channel' = Append(channel, [key |-> req[r].key, body |-> resp[r].body])
          /\ writing' = writing
      BY <2>3 DEF SendToWriter
    <3>2. \A i \in 1 .. Len(channel) : i \in 1 .. Len(channel') /\ channel'[i] = channel[i]
      BY <1>0, <3>1
    <3> QED BY <1>2, <3>1, <3>2 DEF Backed, Queued, OnTheWay
  <2>4. CASE UNCHANGED <<channel, writing>>
    BY <1>2, <2>4 DEF Backed, Queued, OnTheWay
  <2>5. CASE ~ (WriterReceive \/ WriterStore \/ \E r \in Requests : SendToWriter(r))
    <3>1. UNCHANGED <<channel, writing>>
      BY <2>5 DEF Sparing, Next, Client, Handler, Downstream, CacheWriter, Purger, Arrive,
         TryAcquire, ServeOverload, OriginAnswers, ForwardFails, ReceiveHead, ReadBody,
         StoreInMemory, LookupMemory, LoadFromStorage, FillMemory, Respond, Disconnect,
         Invalidate, ListObjects, DeleteObject, FinishInvalidate, AdminDisconnect,
         BackgroundEvict, WindowExpires, vars, writerVars
    <3> QED BY <2>4, <3>1
  <2> QED BY <2>1, <2>2, <2>3, <2>5
<1>3. ASSUME NEW r \in Requests, pc[r] = "send", req[r].key = k PROVE Backed(k)'
  <2>1. CASE SendToWriter(r)
    <3>1. channel' = Append(channel, [key |-> k, body |-> resp[r].body])
      BY <1>3, <2>1 DEF SendToWriter
    <3>2. Len(channel') \in 1 .. Len(channel') /\ channel'[Len(channel')].key = k
      <4>1. /\ resp[r].body \in Bodies /\ [key |-> k, body |-> resp[r].body] \in Message
        BY <1>3, HandlerTyped DEF Carrying, Message
      <4>2. Len(channel') = Len(channel) + 1 /\ Len(channel) \in Nat
            /\ channel'[Len(channel) + 1] = [key |-> k, body |-> resp[r].body]
        BY <1>0, <3>1, <4>1
      <4> QED BY <4>2
    <3> QED BY <3>2 DEF Backed, Queued, OnTheWay
  <2>2. CASE ~SendToWriter(r)
    <3>1. pc'[r] = pc[r] /\ req'[r] = req[r]
      <4>1. CASE UNCHANGED <<pc, req>>
        BY <4>1
      <4>2. ASSUME NEW s \in Requests, Client(s) \/ Handler(s) \/ Downstream(s)
            PROVE  pc'[r] = pc[r] /\ req'[r] = req[r]
        <5>1. s # r
          BY <1>0, <1>3, <2>2, <4>2 DEF Sparing, Client, Arrive, Handler, Downstream, Disconnect, TryAcquire,
             ServeOverload, OriginAnswers, ForwardFails, ReceiveHead, ReadBody, StoreInMemory,
             LookupMemory, LoadFromStorage, FillMemory, Respond, Finish, Goto
        <5> QED
          BY <1>0, <4>2, <5>1 DEF Client, Arrive, Handler, Downstream, Disconnect, TryAcquire,
             ServeOverload, OriginAnswers, ForwardFails, ReceiveHead, ReadBody, StoreInMemory,
             SendToWriter, LookupMemory, LoadFromStorage, FillMemory, Respond, Answer,
             Finish, Goto
      <4>3. CASE ~ \E s \in Requests : Client(s) \/ Handler(s) \/ Downstream(s)
        <5>1. UNCHANGED <<pc, req>>
          BY <4>3 DEF Sparing, Next, CacheWriter, WriterReceive, WriterStore, Purger,
             Invalidate, ListObjects, DeleteObject, FinishInvalidate, AdminDisconnect,
             BackgroundEvict, WindowExpires, vars, requestVars
        <5> QED BY <5>1
      <4> QED BY <4>2, <4>3
    <3> QED BY <1>3, <3>1 DEF Backed, Pending
  <2> QED BY <2>1, <2>2
<1> QED BY <1>1, <1>2, <1>3 DEF Backed, Pending

\* Without failures and purges, a step keeps memory backed.
LEMMA BackedStep == Quiet /\ IInv /\ BackedInv /\ [Next]_vars => BackedInv'
<1> SUFFICES ASSUME Quiet, IInv, BackedInv, [Next]_vars PROVE BackedInv'
  OBVIOUS
<1>0. /\ memory \in [Keys -> Bodies \cup {None}]
      /\ pc \in [Requests -> PCs] /\ req \in [Requests -> Request \cup {None}]
  BY DEF IInv, DataTyped, RequestInv
<1>1. CASE Crash
  BY <1>1 DEF Crash, BackedInv
<1>sparing. ASSUME ~Crash, NEW k \in Keys PROVE Sparing(k)
  <2>1. ASSUME NEW r \in Requests, pc[r] = "send", pc'[r] = "idle" PROVE FALSE
    <3>1. ASSUME NEW s \in Requests, Client(s) \/ Handler(s) \/ Downstream(s) PROVE FALSE
      BY <1>0, <2>1, <3>1 DEF Quiet, Client, Arrive, Handler, Downstream, Disconnect,
         TryAcquire, ServeOverload, OriginAnswers, ForwardFails, ReceiveHead, ReadBody,
         StoreInMemory, SendToWriter, LookupMemory, LoadFromStorage, FillMemory, Respond,
         Answer, Finish, Goto
    <3>2. CASE ~ \E s \in Requests : Client(s) \/ Handler(s) \/ Downstream(s)
      <4>1. UNCHANGED pc
        BY <1>sparing, <3>2 DEF Quiet, Next, CacheWriter, WriterReceive, WriterStore,
           BackgroundEvict, WindowExpires, vars, requestVars
      <4> QED BY <2>1, <4>1
    <3> QED BY <3>1, <3>2
  <2> QED BY <1>sparing, <2>1 DEF Sparing, Quiet
<1>2. ASSUME ~Crash, NEW k \in Keys, memory'[k] # None PROVE Backed(k)'
  <2>1. CASE memory[k] # None
    BY <1>2, <2>1, BackedStays, <1>sparing DEF BackedInv
  <2>2. ASSUME NEW r \in Requests, StoreInMemory(r) PROVE Backed(k)'
    <3>1. CASE k = req[r].key
      <4>1. pc'[r] = "send" /\ req'[r] = req[r]
        BY <1>0, <2>2 DEF StoreInMemory, Goto
      <4> QED BY <3>1, <4>1 DEF Backed, Pending
    <3>2. CASE k # req[r].key
      <4>1. memory[k] # None
        BY <1>0, <1>2, <2>2, <3>2 DEF StoreInMemory, load_into_memory, Forget
      <4> QED BY <2>1, <4>1
    <3> QED BY <3>1, <3>2
  <2>3. ASSUME NEW r \in Requests, FillMemory(r) PROVE Backed(k)'
    <3>1. CASE k = req[r].key
      <4>1. stored[k] # None
        BY <2>3, <3>1 DEF FillMemory, BackedInv
      <4> QED BY <1>2, <4>1, StoredStays, <1>sparing DEF Backed
    <3>2. CASE k # req[r].key
      <4>1. memory[k] # None
        BY <1>0, <1>2, <2>3, <3>2 DEF FillMemory, load_into_memory, Forget
      <4> QED BY <2>1, <4>1
    <3> QED BY <3>1, <3>2
  <2>4. CASE BackgroundEvict
    <3>1. memory[k] # None
      BY <1>2, <2>4 DEF BackgroundEvict, Forget
    <3> QED BY <2>1, <3>1
  <2>5. CASE ~ (BackgroundEvict \/ \E r \in Requests : StoreInMemory(r) \/ FillMemory(r))
    <3>1. UNCHANGED memory
      BY <1>2, <2>5 DEF Quiet, Next, Client, Handler, Downstream, CacheWriter, Arrive, TryAcquire,
         ServeOverload, OriginAnswers, ForwardFails, ReceiveHead, ReadBody, SendToWriter,
         LookupMemory, LoadFromStorage, Respond, Disconnect, WriterReceive, WriterStore,
         WindowExpires, vars, cacheVars
    <3> QED BY <1>2, <2>1, <3>1
  <2> QED BY <2>2, <2>3, <2>4, <2>5
<1>3. ASSUME ~Crash, NEW r \in Requests, pc'[r] = "fill" PROVE stored'[req'[r].key] # None
  <2>1. CASE pc[r] = "fill" /\ req'[r] = req[r]
    <3>1. req[r].key \in Keys
      BY <2>1, HandlerTyped
    <3> QED BY <1>3, <2>1, <3>1, StoredStays, <1>sparing DEF BackedInv
  <2>2. CASE LoadFromStorage(r)
    <3>1. req[r].key \in Keys
      BY <2>2, HandlerTyped DEF LoadFromStorage
    <3>2. stored[req[r].key] # None /\ req'[r] = req[r]
      BY <1>0, <1>3, <2>2 DEF LoadFromStorage, Answer, Goto
    <3> QED BY <1>3, <3>1, <3>2, StoredStays, <1>sparing
  <2>3. CASE ~LoadFromStorage(r)
    <3>1. pc[r] = "fill" /\ req'[r] = req[r]
      <4>1. ASSUME NEW s \in Requests, s # r,
                   Client(s) \/ Handler(s) \/ Downstream(s)
            PROVE  pc[r] = pc'[r] /\ req'[r] = req[r]
        BY <1>0, <4>1 DEF Client, Arrive, Handler, Downstream, Disconnect, TryAcquire,
           ServeOverload, OriginAnswers, ForwardFails, ReceiveHead, ReadBody, StoreInMemory,
           SendToWriter, LookupMemory, LoadFromStorage, FillMemory, Respond, Answer,
           Finish, Goto
      <4>2. CASE Client(r) \/ Handler(r) \/ Downstream(r)
        BY <1>0, <1>3, <2>3, <4>2 DEF Client, Arrive, Handler, Downstream, Disconnect, TryAcquire,
           ServeOverload, OriginAnswers, ForwardFails, ReceiveHead, ReadBody, StoreInMemory,
           SendToWriter, LookupMemory, FillMemory, Respond, Answer, Finish, Goto
      <4>3. CASE ~ \E s \in Requests : Client(s) \/ Handler(s) \/ Downstream(s)
        <5>1. UNCHANGED <<pc, req>>
          BY <1>3, <4>3 DEF Quiet, Next, CacheWriter, WriterReceive, WriterStore,
             BackgroundEvict, WindowExpires, vars, requestVars
        <5> QED BY <1>3, <5>1
      <4> QED BY <1>3, <4>1, <4>2, <4>3
    <3> QED BY <2>1, <3>1
  <2> QED BY <2>2, <2>3
<1>4. CASE ~Crash
  BY <1>2, <1>3, <1>4 DEF BackedInv
<1> QED BY <1>1, <1>4

\* Write-behind loses nothing by itself, for any number of handlers and keys
\* and any channel capacity, evictions and crashes included.
THEOREM WriteBehindIsLossless == Spec => []MemoryIsBacked
<1>1. CASE Quiet
  <2>1. Init => BackedInv
    BY DEF Init, BackedInv
  <2>2. BackedInv => MemoryIsBacked
    BY DEF BackedInv, MemoryIsBacked
  <2> QED
    BY <1>1, <2>1, <2>2, BackedStep, Inductive, PTL DEF Spec
<1>2. CASE ~Quiet
  <2>1. MemoryIsBacked
    BY <1>2 DEF Quiet, MemoryIsBacked
  <2> QED
    BY <1>2, <2>1, PTL
<1> QED
  BY <1>1, <1>2

\* Whatever clients and admins do, what memory serves loses its place in the
\* backend only to a client that leaves while the channel is full or to a purge
\* whose admin has left: who waits for a purge holds the lock, and memory is
\* empty then.
THEOREM WritesAreNotLost == Spec => WritesAreKept
<1>1. ASSUME IInv, PurgeKeepsMemoryEmpty, PurgeKeepsMemoryEmpty', [Next]_vars,
             NEW k \in Keys, "storage" \notin Faults, memory'[k] # None,
             Backed(k), ~Backed(k)'
      PROVE  \/ \E r \in Requests : pc[r] = "send" /\ req[r].key = k /\ pc'[r] = "idle"
             \/ \E a \in Admins : lock # a /\ k \in todo[a] \ todo'[a]
  <2>1. ~Crash
    BY <1>1 DEF Crash
  <2>2. ~Sparing(k)
    BY <1>1, BackedStays
  <2>3. ASSUME NEW a \in Admins, k \in todo[a] \ todo'[a] PROVE lock # a
    <3>1. PICK b \in Admins : ListObjects(b) \/ DeleteObject(b)
      <4>1. CASE ~ \E b \in Admins : ListObjects(b) \/ DeleteObject(b)
        <5>1. UNCHANGED todo
          BY <1>1, <2>1, <4>1 DEF Next, Client, Handler, Downstream, CacheWriter, Purger,
             Arrive, TryAcquire, ServeOverload, OriginAnswers, ForwardFails, ReceiveHead,
             ReadBody, StoreInMemory, SendToWriter, LookupMemory, LoadFromStorage,
             FillMemory, Respond, Disconnect, WriterReceive, WriterStore, Invalidate,
             FinishInvalidate, AdminDisconnect, BackgroundEvict, WindowExpires, vars,
             purgeVars
        <5> QED BY <2>3, <5>1
      <4> QED BY <4>1
    <3>2. UNCHANGED lock
      BY <3>1 DEF ListObjects, DeleteObject
    <3>3. lock' = None
      BY <1>1 DEF PurgeKeepsMemoryEmpty
    <3> QED BY <3>2, <3>3, ConstantsAssumption DEF ConstantsAssumption
  <2> QED BY <1>1, <2>1, <2>2, <2>3 DEF Sparing
<1>2. IInv /\ PurgeKeepsMemoryEmpty /\ PurgeKeepsMemoryEmpty' /\ [Next]_vars =>
        [\A k \in Keys :
           "storage" \notin Faults /\ memory'[k] # None /\ Backed(k) /\ ~Backed(k)' =>
             \/ \E r \in Requests : pc[r] = "send" /\ req[r].key = k /\ pc'[r] = "idle"
             \/ \E a \in Admins : lock # a /\ k \in todo[a] \ todo'[a]]_vars
  BY <1>1
<1> QED
  BY <1>2, Inductive, PurgedStaysEmpty, PTL DEF Spec, WritesAreKept

-----------------------------------------------------------------------------
(* The proxy uses its backend as CacheBackend describes it. *)

Loading == {"load", "fill"}

LoadOf(r) == [key   |-> IF pc[r] \in Loading THEN req[r].key ELSE None,
              found |-> IF pc[r] = "fill" THEN resp[r].body ELSE None]

\* A step of one handler changes at most its own load.
LEMMA OneLoad ==
  ASSUME NEW r \in Requests,
         \A s \in Requests \ {r} : pc'[s] = pc[s] /\ req'[s] = req[s] /\ resp'[s] = resp[s]
  PROVE  Reading' = [Reading EXCEPT ![r] = LoadOf(r)'] /\ Reading[r] = LoadOf(r)
BY DEF Reading, LoadOf, Loading

\* A step of the handlers and the writer is a step of the backend, or one it does not see.
LEMMA BackendStep == IInv /\ [Next]_vars => [Backend!Next]_(Backend!vars)
<1> SUFFICES ASSUME IInv, [Next]_vars PROVE [Backend!Next]_(Backend!vars)
  OBVIOUS
<1>0. /\ pc \in [Requests -> PCs] /\ req \in [Requests -> Request \cup {None}]
      /\ resp \in [Requests -> Response]
      /\ writing \in Message \cup {None} /\ channel \in Seq(Message)
      /\ todo \in [Admins -> SUBSET Keys]
  BY DEF IInv, DataTyped, RequestInv
<1>same. ASSUME UNCHANGED <<stored, Writing, Reading>> PROVE [Backend!Next]_(Backend!vars)
  BY <1>same DEF Backend!vars
<1>idle. ASSUME UNCHANGED <<pc, req, resp>> PROVE UNCHANGED Reading
  BY <1>idle DEF Reading
<1>message. \A m \in Message : m.key \in Keys /\ m.body \in Bodies /\ m # None
            /\ [key |-> m.key, response |-> m.body] # None
  BY NoneAssumption DEF Message
<1>one. ASSUME NEW r \in Requests, Client(r) \/ Handler(r) \/ Downstream(r)
        PROVE  /\ \A s \in Requests \ {r} :
                    pc'[s] = pc[s] /\ req'[s] = req[s] /\ resp'[s] = resp[s]
               /\ UNCHANGED <<stored, Writing>>
  BY <1>0, <1>one DEF Client, Arrive, Handler, Downstream, Disconnect, TryAcquire,
     ServeOverload, OriginAnswers, ForwardFails, ReceiveHead, ReadBody, StoreInMemory,
     SendToWriter, LookupMemory, LoadFromStorage, FillMemory, Respond, Answer,
     Finish, Goto, writerVars, Writing
<1>1. ASSUME NEW r \in Requests, Client(r) \/ Handler(r) \/ Downstream(r),
             pc[r] \notin Loading, pc'[r] \notin Loading
      PROVE  [Backend!Next]_(Backend!vars)
  <2>1. LoadOf(r)' = LoadOf(r)
    BY <1>1 DEF LoadOf, Loading
  <2>2. Reading' = [Reading EXCEPT ![r] = Reading[r]]
    BY <1>1, <1>one, <2>1, OneLoad
  <2>3. Reading' = Reading
    BY <2>2 DEF Reading
  <2> QED BY <1>1, <1>one, <1>same, <2>3
<1>2. ASSUME NEW r \in Requests, LookupMemory(r), pc'[r] \in Loading
      PROVE  [Backend!Next]_(Backend!vars)
  <2>1. pc[r] = "cache" /\ pc'[r] = "load" /\ req'[r] = req[r]
    BY <1>0, <1>2 DEF LookupMemory, Answer, Goto, Loading
  <2>2. req[r].key \in Keys
    BY <2>1, HandlerTyped
  <2>3. /\ LoadOf(r) = [key |-> None, found |-> None]
        /\ LoadOf(r)' = [key |-> req[r].key, found |-> None]
    BY <2>1 DEF LoadOf, Loading
  <2>4. Handler(r)
    BY <1>2 DEF Handler
  <2>5. /\ Reading[r] = [key |-> None, found |-> None]
        /\ Reading' = [Reading EXCEPT ![r] = [key |-> req[r].key, found |-> None]]
        /\ UNCHANGED <<stored, Writing>>
    BY <1>one, <2>3, <2>4, OneLoad
  <2>6. Reading' = [Reading EXCEPT ![r].key = req[r].key]
    BY <2>5 DEF Reading
  <2>7. Backend!StartLoad(r, req[r].key)
    BY <2>5, <2>6 DEF Backend!StartLoad, Backend!Idle
  <2> QED BY <2>2, <2>7 DEF Backend!Next
<1>3. ASSUME NEW r \in Requests, LoadFromStorage(r), pc'[r] \in Loading
      PROVE  [Backend!Next]_(Backend!vars)
  <2>1. /\ pc[r] = "load" /\ pc'[r] = "fill" /\ req'[r] = req[r]
        /\ resp'[r].body = stored[req[r].key] /\ stored[req[r].key] # None
    BY <1>0, <1>3 DEF LoadFromStorage, Answer, Goto, Loading, Response
  <2>2. req[r].key \in Keys /\ req[r].key # None
    BY <2>1, HandlerTyped, ConstantsAssumption DEF ConstantsAssumption
  <2>3. /\ LoadOf(r) = [key |-> req[r].key, found |-> None]
        /\ LoadOf(r)' = [key |-> req[r].key, found |-> stored[req[r].key]]
    BY <2>1 DEF LoadOf, Loading
  <2>4. Handler(r)
    BY <1>3 DEF Handler
  <2>5. /\ Reading[r] = [key |-> req[r].key, found |-> None]
        /\ Reading' = [Reading EXCEPT ![r] = [key |-> req[r].key, found |-> stored[req[r].key]]]
        /\ UNCHANGED <<stored, Writing>>
    BY <1>one, <2>3, <2>4, OneLoad
  <2>6. Reading' = [Reading EXCEPT ![r].found = stored[Reading[r].key]]
    BY <2>5 DEF Reading
  <2>7. Reading[r].key = req[r].key /\ Reading[r].found = None
    BY <2>5
  <2>8. Backend!Find(r)
    BY <2>1, <2>2, <2>5, <2>6, <2>7 DEF Backend!Find
  <2> QED BY <2>8 DEF Backend!Next
<1>4. ASSUME NEW r \in Requests, Client(r) \/ Handler(r) \/ Downstream(r),
             pc'[r] \notin Loading
      PROVE  [Backend!Next]_(Backend!vars)
  <2>1. LoadOf(r)' = [key |-> None, found |-> None]
    BY <1>4 DEF LoadOf, Loading
  <2>2. Backend!EndLoad(r)
    BY <1>4, <1>one, <2>1, OneLoad DEF Backend!EndLoad, Backend!Idle
  <2> QED BY <2>2 DEF Backend!Next
<1>5. ASSUME NEW r \in Requests, Client(r) \/ Handler(r) \/ Downstream(r),
             pc'[r] \in Loading
      PROVE  [Backend!Next]_(Backend!vars)
  <2>1. LookupMemory(r) \/ LoadFromStorage(r)
    BY <1>0, <1>5 DEF Client, Arrive, Handler, Downstream, Disconnect, TryAcquire,
       ServeOverload, OriginAnswers, ForwardFails, ReceiveHead, ReadBody, StoreInMemory,
       SendToWriter, FillMemory, Respond, Answer, Finish, Goto, Loading
  <2> QED BY <1>2, <1>3, <1>5, <2>1
<1>6. CASE WriterReceive
  <2>1. /\ Head(channel) \in Message /\ writing' = Head(channel)
        /\ writing = None /\ UNCHANGED <<stored, Reading>>
    BY <1>0, <1>6, <1>idle DEF WriterReceive, requestVars
  <2>2. /\ Writing = None
        /\ Writing' = [key |-> Head(channel).key, response |-> Head(channel).body]
    BY <1>message, <2>1 DEF Writing
  <2>3. Backend!StartStore(Head(channel).key, Head(channel).body)
    BY <2>1, <2>2 DEF Backend!StartStore
  <2> QED BY <1>message, <2>1, <2>3 DEF Backend!Next
<1>effect. ASSUME writing # None, Persist(writing) \/ UNCHANGED stored \/ Truncate(writing),
                  writing' = None
           PROVE  Backend!TakesEffect /\ Writing # None
  <2>1. /\ Writing = [key |-> writing.key, response |-> writing.body]
        /\ Writing # None /\ Writing' = None
    BY <1>0, <1>effect, <1>message DEF Writing
  <2> QED BY <1>effect, <2>1 DEF Backend!TakesEffect, Persist, Truncate
<1>7. CASE WriterStore
  <2>1. UNCHANGED Reading
    BY <1>7, <1>idle DEF WriterStore, requestVars
  <2>2. Backend!EndStore
    BY <1>7, <1>effect, <2>1 DEF WriterStore, Backend!EndStore
  <2> QED BY <2>2 DEF Backend!Next
<1>8. ASSUME NEW a \in Admins, DeleteObject(a) PROVE [Backend!Next]_(Backend!vars)
  <2>1. UNCHANGED <<Writing, Reading>>
    BY <1>8, <1>idle DEF DeleteObject, requestVars, Writing
  <2>2. PICK k \in Keys : UNCHANGED stored \/ stored' = [stored EXCEPT ![k] = None]
    BY <1>0, <1>8 DEF DeleteObject
  <2>3. CASE stored' = [stored EXCEPT ![k] = None]
    <3>1. Backend!Delete(k)
      BY <2>1, <2>3 DEF Backend!Delete
    <3> QED BY <3>1 DEF Backend!Next
  <2> QED BY <1>same, <2>1, <2>2, <2>3
<1>9. CASE Crash
  <2>1. Reading' = [r \in Requests |-> [key |-> None, found |-> None]]
    BY <1>9 DEF Crash, Reading
  <2>2. Backend!TakesEffect
    <3>1. CASE writing = None
      BY <1>9, <3>1 DEF Crash, Backend!TakesEffect, Writing
    <3>2. CASE writing # None
      BY <1>9, <1>effect, <3>2 DEF Crash
    <3> QED BY <3>1, <3>2
  <2>3. Backend!Stop
    BY <2>1, <2>2 DEF Backend!Stop, Backend!Idle
  <2> QED BY <2>3 DEF Backend!Next
<1>10. CASE \/ \E a \in Admins : \/ Invalidate(a) \/ ListObjects(a) \/ FinishInvalidate(a)
                                 \/ AdminDisconnect(a)
            \/ BackgroundEvict \/ \E uri \in Uris : WindowExpires(uri)
            \/ UNCHANGED vars
  <2>1. UNCHANGED requestVars /\ UNCHANGED writerVars
    BY <1>10 DEF Invalidate, ListObjects, FinishInvalidate, AdminDisconnect, BackgroundEvict,
       WindowExpires, vars
  <2>2. UNCHANGED <<stored, Writing, Reading>>
    BY <1>idle, <2>1 DEF requestVars, writerVars, Writing
  <2> QED BY <1>same, <2>2
<1> QED
  BY <1>4, <1>5, <1>6, <1>7, <1>8, <1>9, <1>10 DEF Next, CacheWriter, Purger

\* Handlers, the writer, purges and restarts ask no more of a backend than
\* CacheBackend promises, for any number of them.
THEOREM BackendIsUsed == Spec => UsesBackend
<1>1. Init => Backend!Init
  BY DEF Init, Backend!Init, Backend!Idle, Writing, Reading
<1> QED
  BY <1>1, BackendStep, Inductive, PTL DEF Spec, UsesBackend, Backend!Spec

=============================================================================
