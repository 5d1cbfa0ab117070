---------------------------- MODULE ProxyHandler ----------------------------
(***************************************************************************)
(* The life of a request in CacheBolt: proxy_handler and try_cache of      *)
(* src/proxy.rs, with everything the handlers share: the concurrency       *)
(* semaphore, MEMORY_CACHE behind its RwLock, the LATENCY_FAILS map, the   *)
(* bounded channel to the CACHE_WRITER task, the persistent backend and    *)
(* the admin handler that purges both caches.                              *)
(*                                                                         *)
(* The grain is the await point.  A handler runs on one of four worker     *)
(* threads and is interleaved with the others wherever it awaits (a lock,  *)
(* the origin, the storage, the channel) and between two accesses to       *)
(* shared state; each action below is the code between two such points.    *)
(*                                                                         *)
(* Abstractions.  A cached response is the version of the origin's content *)
(* it carries.  The headers that are stored with a body are not told apart *)
(* from it.  The LRU order is left out: whenever the code may evict, any   *)
(* set of keys may go.  The ttl_seconds window is a timer that may run out *)
(* at any moment after the mark.  Whether should_refresh fires for a       *)
(* request is a free choice.                                               *)
(***************************************************************************)
EXTENDS Integers, FiniteSets, Sequences

CONSTANTS
  Requests,               \* handler tasks, one per connection being served
  Keys,                   \* cache keys: sha256(uri | relevant headers)
  Uris,                   \* request URIs
  UriOf,                  \* the URI a cache key was computed from
  Admins,                 \* callers of DELETE /admin/api/cache
  MaxConcurrentRequests,  \* config: max_concurrent_requests
  ChannelCapacity,        \* capacity of the CACHE_WRITER channel (100 in the code)
  StorageBackend,         \* config: "gcs", "azure", "local" or "s3"
  Faults,                 \* what the environment may do wrong, see FaultKinds
  MaxVersion,             \* bound: how many contents the origin has for a key
  None                    \* no entry, no message, nobody

FaultKinds == {
  "disconnect",  \* the client goes away, the handler's future is dropped
  "crash",       \* the process stops and is started again
  "storage",     \* an upload, a download, a listing or a delete fails
  "body"}        \* the origin's response body breaks off

Versions == 1 .. MaxVersion

\* What hyper::body::to_bytes(..).unwrap_or_default() yields for a broken body.
EmptyBody == 0

Bodies == Versions \cup {EmptyBody}

ASSUME ConstantsAssumption ==
  /\ IsFiniteSet(Requests)
  /\ UriOf \in [Keys -> Uris]
  /\ MaxConcurrentRequests \in Nat
  /\ ChannelCapacity \in Nat \ {0}
  /\ StorageBackend \in {"gcs", "azure", "local", "s3"}
  /\ Faults \subseteq FaultKinds
  /\ MaxVersion \in Nat \ {0}
  /\ None \notin Bodies
  /\ None \notin Admins \cup Keys

VARIABLES
  pc,           \* where each handler task stands
  req,          \* the request each task handles
  resp,         \* the response a task is holding on to
  permits,      \* permits left in SEMAPHORE
  holders,      \* the tasks whose frame owns an OwnedSemaphorePermit
  memory,       \* MEMORY_CACHE
  lock,         \* who holds MEMORY_CACHE's write lock across an await
  latencyFails, \* the URIs within ttl_seconds of their last latency mark
  channel,      \* messages sent to CACHE_WRITER and not yet received
  writing,      \* the message CACHE_WRITER is persisting
  stored,       \* the persistent backend
  purge,        \* state of each admin's call and of the tasks it spawned
  todo,         \* the objects a purge has listed and not yet deleted
  granted       \* history: the <<key, version>> pairs the origin answered with
                \* 2xx to a request that did not ask to bypass the cache

requestVars == <<pc, req, resp, permits, holders>>
cacheVars   == <<memory, latencyFails>>
writerVars  == <<channel, writing, stored>>
purgeVars   == <<lock, purge, todo>>
vars == <<requestVars, cacheVars, writerVars, purgeVars, granted>>

PCs == {"idle", "acquire", "overload", "forward", "answered", "body",
        "store", "send", "cache", "load", "fill", "respond"}

Statuses == {"none",         \* no response yet
             "success",      \* the downstream's own response, 2xx
             "failure",      \* the downstream's own response, any other status
             "cached",       \* 200 built from a cached response
             "unavailable",  \* 502
             "error"}        \* 500

Request  == [key : Keys, bypass : BOOLEAN]
Message  == [key : Keys, body : Bodies]
Response == [status : Statuses, body : Bodies \cup {None}, slow : BOOLEAN]
NoResp   == [status |-> "none", body |-> None, slow |-> FALSE]

ASSUME NoneAssumption ==
  None \notin Request \cup Message \cup [key : Keys, response : Bodies]

-----------------------------------------------------------------------------
(* MEMORY_CACHE *)

MemoryFree == lock = None

Forget(m, evicted) == [k \in Keys |-> IF k \in evicted THEN None ELSE m[k]]

\* Mutant: the entry is put without waiting for the lock.
load_into_memory_unlocked(k, body) == memory' = [memory EXCEPT ![k] = body]

\* Mutant: the headers are left out of the key, and the entry is there for all
\* keys of the URI.
load_into_memory_uri(k, body) ==
  /\ MemoryFree
  /\ \E evicted \in SUBSET Keys :
        memory' = Forget([j \in Keys |-> IF UriOf[j] = UriOf[k] THEN body ELSE memory[j]],
                         evicted)

\* put under the write lock, then maybe_evict_if_needed before it is released:
\* memory pressure may take any entry, the new one included.
load_into_memory(k, body) ==
  /\ MemoryFree
  /\ \E evicted \in SUBSET Keys :
        memory' = Forget([memory EXCEPT ![k] = body], evicted)

\* The lookup takes the write lock, for cache.get promotes the entry.
get_from_memory(k) == memory[k]

(* LATENCY_FAILS *)

should_failover(uri) == uri \in latencyFails

mark_latency_fail(uri) == latencyFails' = latencyFails \cup {uri}

(* SEMAPHORE *)

Goto(r, label) == pc' = [pc EXCEPT ![r] = label]

\* Mutant: every handler that ends gives a permit back.
ReleasePermit_unowned(r) ==
  /\ holders' = holders \ {r}
  /\ permits' = permits + 1

\* The permit is released when the frame that owns it is dropped.
ReleasePermit(r) ==
  /\ holders' = holders \ {r}
  /\ permits' = IF r \in holders THEN permits + 1 ELSE permits

\* The handler returns a response, which hyper then writes to the client: the
\* permit, if any, is dropped with the frame.
Answer(r, status, body) ==
  /\ Goto(r, "respond")
  /\ resp' = [resp EXCEPT ![r] = [NoResp EXCEPT !.status = status, !.body = body]]
  /\ ReleasePermit(r)
  /\ UNCHANGED req

-----------------------------------------------------------------------------
(* proxy_handler *)

\* The request comes in: bypass header, should_refresh, should_failover.
Arrive(r) ==
  /\ pc[r] = "idle"
  /\ \E k \in Keys, bypass, refresh \in BOOLEAN :
       /\ req' = [req EXCEPT ![r] = [key |-> k, bypass |-> bypass]]
       /\ Goto(r, IF should_failover(UriOf[k]) /\ ~(refresh \/ bypass)
                    THEN "cache" ELSE "acquire")
  /\ UNCHANGED <<resp, permits, holders, cacheVars, writerVars, purgeVars, granted>>

\* Mutant: the permit is dropped on the spot (Ok(_) instead of Ok(_permit)).
TryAcquire_dropped(r) ==
  /\ pc[r] = "acquire"
  /\ Goto(r, IF permits > 0 THEN "forward" ELSE "overload")
  /\ UNCHANGED <<req, resp, permits, holders, cacheVars, writerVars, purgeVars, granted>>

\* try_acquire_owned never waits.
TryAcquire(r) ==
  /\ pc[r] = "acquire"
  /\ \/ /\ permits > 0
        /\ permits' = permits - 1
        /\ holders' = holders \cup {r}
        /\ Goto(r, "forward")
     \/ /\ permits = 0
        /\ Goto(r, "overload")
        /\ UNCHANGED <<permits, holders>>
  /\ UNCHANGED <<req, resp, cacheVars, writerVars, purgeVars, granted>>

\* Over the concurrency limit: memory or nothing.
ServeOverload(r) ==
  /\ pc[r] = "overload"
  /\ MemoryFree
  /\ LET cached == get_from_memory(req[r].key) IN
       \/ cached # None /\ Answer(r, "cached", cached)
       \/ cached = None /\ Answer(r, "unavailable", None)
  /\ UNCHANGED <<cacheVars, writerVars, purgeVars, granted>>

\* The downstream service produces its response; its status is 2xx or not, its
\* content any version it has.
OriginAnswers(r) ==
  /\ pc[r] = "forward"
  /\ \E status \in {"success", "failure"}, version \in Versions :
       /\ resp' = [resp EXCEPT ![r] =
                     [NoResp EXCEPT !.status = status, !.body = version]]
       /\ granted' = IF status = "success" /\ ~req[r].bypass
                       THEN granted \cup {<<req[r].key, version>>} ELSE granted
  /\ Goto(r, "answered")
  /\ UNCHANGED <<req, permits, holders, cacheVars, writerVars, purgeVars>>

\* forward_request fails: try_cache, with the permit still held.
ForwardFails(r) ==
  /\ pc[r] = "forward"
  /\ Goto(r, "cache")
  /\ UNCHANGED <<req, resp, permits, holders, cacheVars, writerVars, purgeVars, granted>>

\* The response head is there: measure the latency, mark the URI if too slow.
ReceiveHead(r) ==
  /\ pc[r] = "answered"
  /\ \E slow \in BOOLEAN :
       /\ resp' = [resp EXCEPT ![r].slow = slow]
       /\ IF slow THEN mark_latency_fail(UriOf[req[r].key]) ELSE UNCHANGED latencyFails
  /\ Goto(r, "body")
  /\ UNCHANGED <<req, permits, holders, memory, writerVars, purgeVars, granted>>

\* Mutant: the bypass header is honoured for reading only.
Cacheable_bypassed(r) ==
  /\ resp[r].status = "success"
  /\ resp[r].slow \/ ~should_failover(UriOf[req[r].key])

\* Mutant: an error response of a slow downstream is cached too.
Cacheable_failures(r) ==
  /\ ~req[r].bypass
  /\ resp[r].slow \/ ~should_failover(UriOf[req[r].key])

\* Which responses go into the caches.
Cacheable(r) ==
  /\ ~req[r].bypass
  /\ resp[r].status = "success"
  /\ resp[r].slow \/ ~should_failover(UriOf[req[r].key])

\* The body is read to its end, or breaks off and becomes the empty body; the
\* response is then cached or passed on as it is.
ReadBody(r) ==
  /\ pc[r] = "body"
  /\ \E body \in {resp[r].body} \cup (IF "body" \in Faults THEN {EmptyBody} ELSE {}) :
       \/ /\ Cacheable(r)
          /\ resp' = [resp EXCEPT ![r].body = body, ![r].slow = FALSE]
          /\ Goto(r, "store")
          /\ UNCHANGED <<req, permits, holders>>
       \/ /\ ~Cacheable(r)
          /\ Answer(r, resp[r].status, body)
  /\ UNCHANGED <<cacheVars, writerVars, purgeVars, granted>>

StoreInMemory(r) ==
  /\ pc[r] = "store"
  /\ load_into_memory(req[r].key, resp[r].body)
  /\ Goto(r, "send")
  /\ UNCHANGED <<req, resp, permits, holders, latencyFails, writerVars, purgeVars, granted>>

\* Mutant: try_send, which drops the message when the channel is full.
SendToWriter_try(r) ==
  /\ pc[r] = "send"
  /\ channel' = IF Len(channel) < ChannelCapacity
                  THEN Append(channel, [key |-> req[r].key, body |-> resp[r].body])
                  ELSE channel
  /\ Answer(r, resp[r].status, resp[r].body)
  /\ UNCHANGED <<cacheVars, writing, stored, purgeVars, granted>>

\* Mutant: the future that send returns is dropped without an await.
SendToWriter_unawaited(r) ==
  /\ pc[r] = "send"
  /\ Answer(r, resp[r].status, resp[r].body)
  /\ UNCHANGED <<cacheVars, writerVars, purgeVars, granted>>

\* Mutant: the failure to queue the message is returned to the client.
SendToWriter_failing(r) ==
  /\ pc[r] = "send"
  /\ IF Len(channel) < ChannelCapacity
       THEN /\ channel' = Append(channel, [key |-> req[r].key, body |-> resp[r].body])
            /\ Answer(r, resp[r].status, resp[r].body)
       ELSE Answer(r, "unavailable", None) /\ UNCHANGED channel
  /\ UNCHANGED <<cacheVars, writing, stored, purgeVars, granted>>

\* CACHE_WRITER.send(..).await: waits while the channel is full, permit in hand.
SendToWriter(r) ==
  /\ pc[r] = "send"
  /\ Len(channel) < ChannelCapacity
  /\ channel' = Append(channel, [key |-> req[r].key, body |-> resp[r].body])
  /\ Answer(r, resp[r].status, resp[r].body)
  /\ UNCHANGED <<cacheVars, writing, stored, purgeVars, granted>>

-----------------------------------------------------------------------------
(* try_cache *)

LookupMemory(r) ==
  /\ pc[r] = "cache"
  /\ MemoryFree
  /\ LET cached == get_from_memory(req[r].key) IN
       \/ cached # None /\ Answer(r, "cached", cached)
       \/ /\ cached = None
          /\ Goto(r, "load")
          /\ UNCHANGED <<req, resp, permits, holders>>
  /\ UNCHANGED <<cacheVars, writerVars, purgeVars, granted>>

\* How a load that yields nothing is answered.  gcs, azure and local return
\* None, whatever went wrong; s3 returns Err for a missing object as for any
\* failed call, and None only when the circuit breaker skips the call.
NothingLoaded == IF StorageBackend = "s3" THEN "error" ELSE "unavailable"

\* local creates the file, which truncates it, and then writes it: until that
\* is done it loads as nothing.
Torn(k) == StorageBackend = "local" /\ writing # None /\ writing.key = k

LoadFromStorage(r) ==
  /\ pc[r] = "load"
  /\ LET found == stored[req[r].key] IN
       \/ /\ found # None
          /\ resp' = [resp EXCEPT ![r].body = found]
          /\ Goto(r, "fill")
          /\ UNCHANGED <<req, permits, holders>>
       \/ /\ found = None \/ "storage" \in Faults \/ Torn(req[r].key)
          /\ Answer(r, NothingLoaded, None)
       \/ \* the breaker is open
          /\ StorageBackend = "s3" /\ "storage" \in Faults
          /\ Answer(r, "unavailable", None)
  /\ UNCHANGED <<cacheVars, writerVars, purgeVars, granted>>

FillMemory(r) ==
  /\ pc[r] = "fill"
  /\ load_into_memory(req[r].key, resp[r].body)
  /\ Answer(r, "cached", resp[r].body)
  /\ UNCHANGED <<latencyFails, writerVars, purgeVars, granted>>

\* Mutant: a permit that was forgotten does not come back.
Finish_leaky(r) ==
  /\ Goto(r, "idle")
  /\ req' = [req EXCEPT ![r] = None]
  /\ resp' = [resp EXCEPT ![r] = NoResp]
  /\ holders' = holders \ {r}
  /\ UNCHANGED permits

\* Nothing is left of the request.
Finish(r) ==
  /\ Goto(r, "idle")
  /\ req' = [req EXCEPT ![r] = None]
  /\ resp' = [resp EXCEPT ![r] = NoResp]
  /\ ReleasePermit(r)

\* The response has reached the client.
Respond(r) ==
  /\ pc[r] = "respond"
  /\ Finish(r)
  /\ UNCHANGED <<cacheVars, writerVars, purgeVars, granted>>

\* The client disconnects: hyper drops the handler's future at the await it is
\* suspended in, and with it the permit.
Disconnect(r) ==
  /\ "disconnect" \in Faults
  /\ pc[r] \notin {"idle", "acquire", "respond"}
  /\ Finish(r)
  /\ UNCHANGED <<cacheVars, writerVars, purgeVars, granted>>

-----------------------------------------------------------------------------
(* The CACHE_WRITER task *)

\* Mutant: every message is persisted by a task of its own.
WriterReceive_spawned ==
  /\ channel # <<>>
  /\ writing' = Head(channel)
  /\ channel' = Tail(channel)
  /\ UNCHANGED <<requestVars, cacheVars, stored, purgeVars, granted>>

WriterReceive ==
  /\ writing = None
  /\ channel # <<>>
  /\ writing' = Head(channel)
  /\ channel' = Tail(channel)
  /\ UNCHANGED <<requestVars, cacheVars, stored, purgeVars, granted>>

Persist(m) == stored' = [stored EXCEPT ![m.key] = m.body]

\* What a local write that breaks off leaves behind: a file that does not load.
Truncate(m) ==
  /\ StorageBackend = "local"
  /\ stored' = [stored EXCEPT ![m.key] = None]

\* store_in_cache of the configured backend.  A failed or skipped upload is
\* logged and forgotten; a failed local write takes the old file with it.
WriterStore ==
  /\ writing # None
  /\ \/ Persist(writing)
     \/ "storage" \in Faults /\ UNCHANGED stored
     \/ "storage" \in Faults /\ Truncate(writing)
  /\ writing' = None
  /\ UNCHANGED <<requestVars, cacheVars, channel, purgeVars, granted>>

-----------------------------------------------------------------------------
(* invalidate_handler, and the deletion task it spawns for the backend *)

\* Mutant: the guard is dropped before the deletion tasks are joined.
Invalidate_unlocked(a) ==
  /\ purge[a] = "idle"
  /\ MemoryFree
  /\ memory' = Forget(memory, Keys)
  /\ \E backend \in BOOLEAN :
       purge' = IF backend THEN [purge EXCEPT ![a] = "listing"] ELSE purge
  /\ UNCHANGED <<requestVars, latencyFails, lock, writerVars, todo, granted>>

\* Memory is cleared at once; with backend=true the guard on MEMORY_CACHE lives
\* until the deletion tasks are joined.
Invalidate(a) ==
  /\ purge[a] = "idle"
  /\ MemoryFree
  /\ memory' = Forget(memory, Keys)
  /\ \E backend \in BOOLEAN :
       IF backend
         THEN lock' = a /\ purge' = [purge EXCEPT ![a] = "listing"]
         ELSE UNCHANGED <<lock, purge>>
  /\ UNCHANGED <<requestVars, latencyFails, writerVars, todo, granted>>

\* delete_all_from_cache lists the objects of this application.  When the
\* listing fails the task ends with an Err that nobody looks at.
ListObjects(a) ==
  /\ purge[a] = "listing"
  /\ \E listed \in {{k \in Keys : stored[k] # None}}
                     \cup (IF "storage" \in Faults THEN {{}} ELSE {}) :
       todo' = [todo EXCEPT ![a] = listed]
  /\ purge' = [purge EXCEPT ![a] = "deleting"]
  /\ UNCHANGED <<requestVars, cacheVars, lock, writerVars, granted>>

\* One delete call; a failed one is logged and skipped.
DeleteObject(a) ==
  /\ purge[a] = "deleting"
  /\ \E k \in todo[a] :
       /\ todo' = [todo EXCEPT ![a] = @ \ {k}]
       /\ \/ stored' = [stored EXCEPT ![k] = None]
          \/ "storage" \in Faults /\ UNCHANGED stored
  /\ UNCHANGED <<requestVars, cacheVars, lock, purge, channel, writing, granted>>

\* Mutant: the handler returns with the guard leaked.
FinishInvalidate_locked(a) ==
  /\ purge[a] = "deleting"
  /\ todo[a] = {}
  /\ purge' = [purge EXCEPT ![a] = "idle"]
  /\ UNCHANGED <<requestVars, cacheVars, lock, writerVars, todo, granted>>

\* The tasks are joined and the handler returns 200, whatever they returned.
FinishInvalidate(a) ==
  /\ purge[a] = "deleting"
  /\ todo[a] = {}
  /\ purge' = [purge EXCEPT ![a] = "idle"]
  /\ lock' = IF lock = a THEN None ELSE lock
  /\ UNCHANGED <<requestVars, cacheVars, writerVars, todo, granted>>

\* The admin's client disconnects: the guard is dropped, but the deletion tasks
\* are detached and go on.
AdminDisconnect(a) ==
  /\ "disconnect" \in Faults
  /\ lock = a
  /\ lock' = None
  /\ UNCHANGED <<requestVars, cacheVars, writerVars, purge, todo, granted>>

-----------------------------------------------------------------------------
(* The environment *)

\* The background eviction task takes the lock and finds memory over the limit.
BackgroundEvict ==
  /\ MemoryFree
  /\ \E evicted \in SUBSET Keys : memory' = Forget(memory, evicted)
  /\ UNCHANGED <<requestVars, latencyFails, writerVars, purgeVars, granted>>

\* ttl_seconds have passed since the last mark of this URI.
WindowExpires(uri) ==
  /\ uri \in latencyFails
  /\ latencyFails' = latencyFails \ {uri}
  /\ UNCHANGED <<requestVars, memory, writerVars, purgeVars, granted>>

\* The process dies and is started again: of what it knew, only the persistent
\* backend is left.  A write under way may have reached the backend or
\* not, or broken off.
Crash ==
  /\ "crash" \in Faults
  /\ pc' = [r \in Requests |-> "idle"]
  /\ req' = [r \in Requests |-> None]
  /\ resp' = [r \in Requests |-> NoResp]
  /\ permits' = MaxConcurrentRequests
  /\ holders' = {}
  /\ memory' = [k \in Keys |-> None]
  /\ lock' = None
  /\ latencyFails' = {}
  /\ channel' = <<>>
  /\ writing' = None
  /\ purge' = [a \in Admins |-> "idle"]
  /\ todo' = [a \in Admins |-> {}]
  /\ \/ UNCHANGED stored
     \/ writing # None /\ (Persist(writing) \/ Truncate(writing))
  /\ UNCHANGED granted

-----------------------------------------------------------------------------

Init ==
  /\ pc = [r \in Requests |-> "idle"]
  /\ req = [r \in Requests |-> None]
  /\ resp = [r \in Requests |-> NoResp]
  /\ permits = MaxConcurrentRequests
  /\ holders = {}
  /\ memory = [k \in Keys |-> None]
  /\ lock = None
  /\ latencyFails = {}
  /\ channel = <<>>
  /\ writing = None
  /\ purge = [a \in Admins |-> "idle"]
  /\ todo = [a \in Admins |-> {}]
  /\ stored = [k \in Keys |-> None]
  /\ granted = {}

\* The client sends its request, takes the response or goes away.
Client(r) == Arrive(r) \/ Respond(r) \/ Disconnect(r)

\* The origin answers and sends its body, or the connection to it fails.
Downstream(r) == OriginAnswers(r) \/ ForwardFails(r) \/ ReadBody(r)

\* The steps a handler task takes by itself.
Handler(r) ==
  \/ TryAcquire(r) \/ ServeOverload(r)
  \/ ReceiveHead(r) \/ StoreInMemory(r) \/ SendToWriter(r)
  \/ LookupMemory(r) \/ LoadFromStorage(r) \/ FillMemory(r)

CacheWriter == WriterReceive \/ WriterStore

Purger(a) == ListObjects(a) \/ DeleteObject(a) \/ FinishInvalidate(a)

Next ==
  \/ \E r \in Requests : Client(r) \/ Handler(r) \/ Downstream(r)
  \/ CacheWriter
  \/ \E a \in Admins : Invalidate(a) \/ Purger(a) \/ AdminDisconnect(a)
  \/ BackgroundEvict
  \/ \E uri \in Uris : WindowExpires(uri)
  \/ Crash

Spec == Init /\ [][Next]_vars

(***************************************************************************)
(* Fairness.  tokio polls every task that can run.  The queues of its      *)
(* RwLock and of its bounded channel are FIFO, so a task that waits for    *)
(* the lock or for room in the channel gets its turn although others take  *)
(* them in between: strong fairness for the handlers.  The storage and its *)
(* delete calls are assumed to come back, with an answer or an error.  Of  *)
(* the downstream nothing is assumed, neither that it answers nor that the *)
(* body follows the head: the code puts no timeout on either wait, and a   *)
(* request that was forwarded may hang in both.  Nor is anything assumed   *)
(* of the client, who may leave a response unread.                         *)
(***************************************************************************)
Fairness ==
  /\ \A r \in Requests : SF_vars(Handler(r))
  /\ WF_vars(CacheWriter)
  /\ \A a \in Admins : WF_vars(Purger(a))

FairSpec == Spec /\ Fairness

-----------------------------------------------------------------------------
(* The backend as CacheBackend has it: a register per key, one store at a    *)
(* time, a load by each handler that has missed memory.                      *)

Writing == IF writing = None THEN None ELSE [key |-> writing.key, response |-> writing.body]
Reading ==
  [r \in Requests |->
    [key   |-> IF pc[r] \in {"load", "fill"} THEN req[r].key ELSE None,
     found |-> IF pc[r] = "fill" THEN resp[r].body ELSE None]]

Backend == INSTANCE CacheBackend WITH
  Responses <- Bodies, Readers <- Requests,
  writing <- Writing, reading <- Reading

(* The whole proxy as Gateway has it: what clients and downstream see of it. *)

PhaseOf == [
  idle     |-> "away",     acquire |-> "arrived",  forward |-> "origin",
  answered |-> "answered", body    |-> "answered", store   |-> "answered",
  send     |-> "answered", cache   |-> "fallback", load    |-> "fallback",
  fill     |-> "fallback", overload |-> "fallback", respond |-> "replied"]

\* A fallback after a failed call still has its permit, the others have none.
Phase(r) == IF PhaseOf[pc[r]] = "fallback" /\ r \in holders THEN "failed" ELSE PhaseOf[pc[r]]

Reply(r) ==
  IF PhaseOf[pc[r]] \in {"answered", "replied"}
    THEN [status |-> resp[r].status, body |-> resp[r].body]
    ELSE [status |-> "none", body |-> None]

Service == INSTANCE Gateway WITH
  Clients <- Requests, Limit <- MaxConcurrentRequests,
  phase <- [r \in Requests |-> Phase(r)], asked <- req,
  reply <- [r \in Requests |-> Reply(r)]

-----------------------------------------------------------------------------
(* Properties *)

\* The handler waits for something only the downstream can give.
Waiting(r) == pc[r] \in {"forward", "body"}

OnTheWay == {channel[i] : i \in 1 .. Len(channel)} \cup ({writing} \ {None})

\* What was cached for k is in the backend, on its way there or about to be sent.
Queued(k)  == \E m \in OnTheWay : m.key = k
Pending(k) == \E r \in Requests : pc[r] = "send" /\ req[r].key = k
Backed(k)  == stored[k] # None \/ Queued(k) \/ Pending(k)

\* Content that may be served for a key: what the origin granted for it, or
\* what is left of a granted response whose body broke off.
Legit(k) == LET versions == {v \in Versions : <<k, v>> \in granted} IN
              versions \cup (IF versions = {} THEN {} ELSE {EmptyBody})

\* Every variable has the type the code gives it; a task that is busy with a
\* response holds one, and the channel respects its capacity.
TypeOK ==
  /\ pc \in [Requests -> PCs]
  /\ req \in [Requests -> Request \cup {None}]
  /\ resp \in [Requests -> Response]
  /\ permits \in 0 .. MaxConcurrentRequests
  /\ holders \subseteq Requests
  /\ memory \in [Keys -> Bodies \cup {None}]
  /\ lock \in Admins \cup {None}
  /\ latencyFails \subseteq Uris
  /\ channel \in Seq(Message) /\ Len(channel) <= ChannelCapacity
  /\ writing \in Message \cup {None}
  /\ stored \in [Keys -> Bodies \cup {None}]
  /\ purge \in [Admins -> {"idle", "listing", "deleting"}]
  /\ todo \in [Admins -> SUBSET Keys]
  /\ granted \subseteq Keys \X Versions
  /\ \A r \in Requests :
       /\ pc[r] # "idle" => req[r] # None
       /\ pc[r] \in {"answered", "body", "store", "send", "fill"} => resp[r].body # None

\* No permit is leaked and none is returned twice, whichever way a handler ends
\* (answer, error, fallback, disconnect): the semaphore's count and the permits
\* owned by handlers always add up to max_concurrent_requests, and only a
\* handler that went to the downstream and has not returned yet owns one.
PermitsConserved ==
  /\ permits + Cardinality(holders) = MaxConcurrentRequests
  /\ \A r \in holders : pc[r] \notin {"idle", "acquire", "overload", "respond"}

\* max_concurrent_requests bounds the requests the downstream is working on or
\* is sending a body for (config.rs: "Max number of concurrent requests").
OriginLoadBounded ==
  Cardinality({r \in Requests : pc[r] \in {"forward", "answered", "body"}})
    <= MaxConcurrentRequests

\* Whatever is in memory, on its way to the backend, in the backend or served
\* from a cache was granted for that very key: a 2xx response of the origin to
\* a request that did not ask to bypass the cache, never an error response,
\* another key's content or a bypassing client's response.  It survives
\* crashes, evictions, purges and broken connections.
OnlyGrantedIsCached ==
  /\ \A k \in Keys : {memory[k], stored[k]} \subseteq Legit(k) \cup {None}
  /\ \A m \in OnTheWay : m.body \in Legit(m.key)
  /\ \A r \in Requests :
       resp[r].status = "cached" => resp[r].body \in Legit(req[r].key)

\* From the moment an invalidation has cleared MEMORY_CACHE until its handler
\* lets go of the lock, nothing enters it: no fallback can carry an object that
\* is being deleted from the backend back into memory meanwhile.
PurgeKeepsMemoryEmpty == lock # None => \A k \in Keys : memory[k] = None

\* Write-behind loses nothing by itself: as long as no storage call fails, no
\* client disconnects and nobody purges, every key that memory can serve is
\* in the backend or on its way there, however the handlers, the writer, the
\* evictions and restarts interleave.
MemoryIsBacked ==
  (Faults \cap {"storage", "disconnect"} = {} /\ Admins = {}) =>
    \A k \in Keys : memory[k] # None => Backed(k)

\* With disconnects and purges, and as long as no storage call fails, there are
\* just two ways in which a key that memory serves loses its place in the
\* backend: the client whose response is being cached leaves while its handler
\* waits for room in the channel (proxy.rs:298), or a purge deletes the object
\* that no longer holds the lock because its admin left.  A full channel, the
\* writer, other clients that leave and purges that are waited for cost nothing.
WritesAreKept ==
  [][\A k \in Keys :
       "storage" \notin Faults /\ memory'[k] # None /\ Backed(k) /\ ~Backed(k)' =>
         \/ \E r \in Requests : pc[r] = "send" /\ req[r].key = k /\ pc'[r] = "idle"
         \/ \E a \in Admins : lock # a /\ k \in todo[a] \ todo'[a]]_vars

\* Handlers, CACHE_WRITER, purges and restarts together use the backend as
\* CacheBackend describes it, and need no more of it: there is never a second
\* store beside the first, and a fallback answers with what one key held at one
\* moment of its load.  S3Store and ObjectStore show the other half, that the
\* backends behave like that.
UsesBackend == Backend!Spec

\* The whole of proxy_handler and try_cache keeps what Gateway promises: one
\* call to the downstream per request and never more than the limit, nobody
\* turned away while a permit is free, the downstream's answer handed through
\* even if caching it has to wait or fails, no content in its place, and in a
\* fallback only content granted for the client's own key.
ImplementsGateway == Service!Spec

\* Every request that is not waiting for the downstream, for its head or for its
\* body, gets its response, or its client is gone, or it comes to wait for the
\* downstream: neither the lock a purge holds nor a full channel nor other
\* requests that hang at the downstream with their permits can stop it, and
\* what is over the limit or in failover never waits for a permit.
Answered ==
  \A r \in Requests : ~Waiting(r) /\ pc[r] # "respond" ~>
                        Waiting(r) \/ pc[r] \in {"idle", "respond"}

-----------------------------------------------------------------------------
(* What the documentation says and the code does not do *)

\* memory.rs: a CachedResponse includes the full response body.
CachedBodyIsFull == \A k \in Keys : memory[k] # EmptyBody

=============================================================================
