# CacheBolt in TLA+

CacheBolt is a reverse proxy that caches the responses of one downstream service
in memory and in a persistent backend, and answers from these caches when the
downstream is slow, down or overloaded. This directory holds TLA+ models of it,
TLC configurations that check them on small instances, and proofs, checked with
TLAPS, of the properties for every instance. All of it is written from the Rust
source under `src/src/`; line numbers below refer to it.

```
tlc -workers 2 -config MCBreaker.cfg MCCircuitBreaker.tla    # a run
tlapm CircuitBreakerProofs.tla                               # a proof module
```

`PROJECT.json` has the index: components, runs, the seeded bug (mutant) each
property is known to catch, the source lines of every definition, the findings,
the hazards and the theorems.

## 1. Inventory

| Component | State | Operations | Hard behaviour | Correct when |
|---|---|---|---|---|
| Proxy handler (`proxy.rs`) | one future per request | `proxy_handler`, `try_cache`, `forward_request` | interleaving at every await, cancellation when the client leaves, no downstream timeout | every request is answered, only what may be cached is cached |
| Semaphore (`proxy.rs` 51) | permits | `try_acquire_owned`, drop | release on every path out of the handler | never leaks, bounds the downstream's load |
| Memory cache (`memory.rs`) | `MEMORY_CACHE`, an LRU behind a tokio `RwLock` | get, put and evict, clear | lock held across awaits, eviction at any time | content belongs to its key and is backed by the backend |
| Background eviction (`eviction.rs`) | last usage percentage | once a second | races every other use of the lock | the cache shrinks under pressure |
| Latency rule (`rules/latency.rs`) | `LATENCY_FAILS`, URI to time of the last mark | mark, should_failover | read twice per request, before and after the forward | degraded URIs are served from cache for `ttl_seconds` |
| Refresh and bypass (`rules/refresh.rs`, `bypass.rs`) | hit counter per key | should_refresh, should_bypass_cache | integer edge cases | the configured share of requests refreshes |
| CACHE_WRITER (`proxy.rs` 94) | channel of 100 messages, one in hand | receive, store | back-pressure on handlers, lost on restart | what memory serves gets persisted |
| Circuit breaker and health checker (`proxy.rs`, `s3.rs`) | `CIRCUIT_BREAKER`, `BUCKET_ACCESS_ERRORS`, checker tasks | count, trip, reset, spawn, check, close | two atomics, four threads, overlapping checkers | an open breaker is looked after, it closes when the bucket is back |
| S3 backend (`s3.rs`) | two objects per key | store, load, delete_all | several calls per operation, each may fail, pages | body and headers belong together, purges are complete |
| GCS, Azure, local backends (`gcs.rs`, `azure.rs`, `local.rs`) | one object or file per key, several applications in one bucket | store, load, delete_all | the local file is truncated before it is written and may be unlinked in between; pages of a listing; Azure's names have no prefix | an entry is whole or absent, purges are complete and stay within the application |
| Invalidation (`admin/clean.rs`) | the lock, spawned deletion tasks | `invalidate_handler` | lock held for a whole purge, tasks outlive a disconnected admin | nothing comes back during a purge, and what was at rest not after it either |
| Status endpoint, admin UI, configuration, routing, metrics, key hashing | - | - | none | not modelled or only as constants, see section 7 |

How they interact: handlers call the rules and the memory cache and send to
CACHE_WRITER, which alone stores into the backend; handlers load from the backend
themselves in `try_cache`; both count S3 errors into the breaker and start its
health checkers, which write it back; `invalidate_handler`, the eviction task and
the handlers share the memory lock; purges, uploads and loads share the backend
with no lock at all.

## 2. Modules

| Module | What it is |
|---|---|
| `ProxyHandler` | the request path with everything handlers share: semaphore, memory and its lock, failover marks, channel and writer, backend, purge, restarts; uses the backend as `CacheBackend`, refines `Gateway` |
| `Gateway` | abstract: what clients and the downstream see of the whole proxy |
| `Purging` | `ProxyHandler` with a record of what each purge has promised |
| `MemoryCache` | the memory cache from the inside: LRU order, eviction loop, memory usage, background task, write lock; refines `ForgetfulCache` |
| `ForgetfulCache` | abstract: what `ProxyHandler` takes the memory cache for |
| `Rules` | the refresh rule with its arithmetic and its panic, the failover window with the time that passes |
| `CircuitBreaker` | the breaker, the error counter, the callers that trip it, the health checkers |
| `CacheBackend` | abstract: what the proxy relies on in any backend, one register per key |
| `S3Store` | the S3 backend call by call; refines `CacheBackend` |
| `ObjectStore` | the GCS, Azure and local backends, used by several applications; refines `CacheBackend` |
| `ProxyHandlerProofs`, `GatewayProofs`, `PurgingProofs`, `MemoryCacheProofs`, `RulesProofs`, `CircuitBreakerProofs`, `S3StoreProofs`, `ObjectStoreProofs` | theorems about them |
| `MC*` | instances for TLC |

The models meet in three abstractions. `CacheBackend` stands between the proxy and
the storage: `ProxyHandler` uses its backend as `CacheBackend` allows
(`UsesBackend`), and `S3Store` and `ObjectStore` are shown to behave like it
(`ImplementsBackend`). `ForgetfulCache` stands between the proxy and the memory
cache: `ProxyHandler`'s `load_into_memory` and `Forget` are its `Put` and
`Forget`, written out, so there is nothing to check on that side; that the real cache with its
list, lock and eviction loop does no more than that is `ImplementsForgetful` of
`MemoryCache`. `Gateway`
stands between the proxy and its users: `ProxyHandler` is shown to keep what
it promises (`ImplementsGateway`).

Operators whose name is an action's with a suffix (`Finish_leaky`,
`ListPage_first`) are mutants: the same code with a plausible bug. No
specification uses them.

### ProxyHandler

One action is the code between two points where another task can intervene: an
await, or two accesses to shared state on different threads.

| Action | Code |
|---|---|
| `Arrive` | `proxy_handler` 165-232: key, bypass, refresh, the failover decision |
| `TryAcquire`, `ServeOverload` | 234-241 and 338-351 |
| `OriginAnswers`, `ForwardFails` | the two results of `forward_request`; the downstream's steps |
| `ReceiveHead` | 244-267, latency measured, URI marked |
| `ReadBody` | 269-319 up to the next await: the end of the body, which the downstream sends when it likes, and the decision to cache (`Cacheable`) |
| `StoreInMemory`, `SendToWriter` | 297-302 |
| `LookupMemory`, `LoadFromStorage`, `FillMemory` | `try_cache` 356-427 |
| `Answer`, `Respond`, `Finish` | the handler returns, its frame and the permit are dropped; hyper writes the response |
| `Disconnect` | hyper drops the handler's future at an await |
| `WriterReceive`, `WriterStore` | the CACHE_WRITER task 97-146 |
| `Invalidate`, `ListObjects`, `DeleteObject`, `FinishInvalidate`, `AdminDisconnect` | `clean.rs` 36-72 and the deletion task |
| `BackgroundEvict`, `WindowExpires`, `Crash` | eviction task, the end of `ttl_seconds`, restart |

`pc[r]` names the await a handler stands at. `holders` is the set of frames that
own a permit; `lock` is the owner of the memory lock where it is held across an
await (only a purge does that; everyone else takes and releases it in one step).
Data is abstracted: a response is the number of the version of the content it
carries, 0 being the empty body that `unwrap_or_default` makes of one that broke
off. The origin may answer with any version at any time, an old one again
included. The headers travel with the body. The backend is one register per key here;
what S3's two objects add is in `S3Store`, what the
others' names and pages add is in `ObjectStore`. `load_into_memory` may evict any set
of keys, the one just put included, since the threshold is about the memory of
the whole system. The local backend's `File::create` truncates: while it is
being written, a load of that key finds nothing (`Torn`), and a write that breaks
off leaves nothing that loads (`Truncate`). `NothingLoaded` is the answer when
the backend yields nothing: 502, but 500 on S3, whose load returns Err for a
missing object.

### Gateway

What a client and the downstream see of the proxy, without semaphore, locks,
channel, caches or purges. A request is in a phase: away, arrived, at the
downstream (`origin`), its answer on the way to the client (`answered`), in the
fallback that follows a failed call (`failed`), in any other `fallback`, or
`replied`. The phases `origin`, `answered` and `failed` count against `Limit`, the
others do not: a request goes to the downstream at most once and only when fewer
than `Limit` are counted, and it is turned away only when `Limit` are, so that
fallbacks of a slow URI and of requests turned away themselves are no reason to turn
another one away; an answer is handed through as it is, or cut off to the
empty body; a fallback gives content the downstream has granted for the key of
the request, or an error. `granted` is the only memory the abstraction has: it
keeps what the downstream has answered to requests that did not bypass the
cache, with a success. The mapping is `Phase`, a table from the await a
handler stands at to its phase (a fallback is `failed` when its frame still has a
permit), and `Reply`, the response in its hands once
there is one. Storing, sending to the writer, evictions, purges and the writer
are stutters of `Gateway`: the client's answer must not depend on them.

### Purging

`Purging` takes every action of `ProxyHandler` as it is and adds two history
variables. When a purge of both caches has cleared memory, `gone` records the
content that is at rest (in memory or in the backend) and that no task carries:
no handler has it in hand or is loading it, it is neither in the channel nor in
the writer's hands. `era` follows the purge to its 200 ("over"); a failed
listing, a failed delete, a disconnected admin or a restart before that take the
promise back. The origin's answer with a version takes it out of every promise.
`PurgedContentIsGone` says that after the 200 nothing in `gone` is cached or
carried: what a late message or a fallback that had loaded before can bring back
is what was on its way, and no more.

### MemoryCache and ForgetfulCache

| Action | Code |
|---|---|
| `get_from_memory` | a hit moves the key to the recent end, `memory.rs` |
| `load_into_memory`, `CheckUsage`, `PopLru`, `StopEvicting` | put, then `maybe_evict_if_needed`: a look at the usage, pops with a look before each, under one write lock |
| `Clear`, `EndPurge` | `invalidate_handler` clears and keeps the lock until its tasks are joined |
| `Observe`, `EvictorLocks` | the background task, `eviction.rs` 30-50: reads the usage, waits for the lock if it has risen, remembers what it had read |
| `Fluctuate` | the memory in use in the whole system changes, at any moment and whatever the cache does |

`entry` is the map, `lru` the list. `recent` and `before` are history: all keys
ever used in the order of their last use, and the entries when the lock was last
free. The mapping to `ForgetfulCache` shows the entries while the lock is free and
`before` while it is not, so that a put and its evictions are one step to others.

### Rules

`should_refresh` is computed as the code does: `100 / max(percentage, 1)` in `u8`,
a counter per key, and the remainder, which panics for a modulus of 0 with the
mutex locked. Every later call finds the mutex poisoned and panics too.
`should_failover` compares the age of a URI's mark with `ttl_seconds`; `Tick` lets a
second pass. `Decide`, `Forwarded` and `TryCache` are what `proxy_handler` does with
the two rules. `percentage` and `ttl` are chosen in `Init` from what the
configuration file may contain, which for the percentage is any `u8`.

### CircuitBreaker

The grain is one access to one of the two atomics, because the code that trips
the breaker has no await but runs on four threads. `Begin`, `CallEnds`,
`CallFails`, `CountError`, `Trip`, `Reset`, `Spawn` are the steps of
`CACHE_WRITER` 108-141 and, the same code a second time, `try_cache` 369-404.
`Check`, `Close`, `KeepOpen`, `Wake` are the health checker, `s3.rs` 354-389; the
verdict of `head_bucket` and the write to the breaker are separate steps. The two
settings, `threshold` and `retryInterval`, are variables that `Init` chooses and
nothing changes: one run has the breaker disabled, without retries, and in use.

### S3Store and CacheBackend

Every S3 call is an action: `StoreHead`, `PutBody`, `PutMeta` (`s3.rs` 94-178),
`LoadHead`, `GetBody`, `GetMeta` (184-275), `ListPage`, `DeleteObject`, `EndPage`
(282-327). A call that fails may have had its effect. A page of a listing is any
nonempty set of names not passed before. `unsettled`, `remains` and `disturbed` are
history variables for the properties: a load is disturbed when it began on a key
whose last upload was not completed, or when an upload of its key has written an
object since. `s3_torn_load` shows that a disturbed load may mix two responses;
`UndisturbedLoadIsWhole` says that nothing else can do that, neither purges nor
failed calls. `CacheBackend` is what `proxy.rs` uses: a store
replaces the entry of its key at one moment, or keeps it, or loses it; a load
that finds something finds what was stored at one moment; there is one store at a
time. The mapping: the register of a key is its `.gz` object, a store takes
effect with the upload of the body, a load with its download.

### ObjectStore

One module for three backends, since they differ in little: `Name` (the prefix
`cache/{app_id}/`, which Azure's names lack), `Listed` (what a purge sees),
`Upload` against `CreateFile` and `WriteFile` (`File::create` truncates the file;
a purge may unlink it before the write, which then succeeds on a file without a
name). `ListPage` takes any nonempty part of what is left of a listing; the
directory stream of the local file system, which is read while its files are
removed, is taken for a listing in such parts, too. A page that cannot be listed
ends a purge with an Err on GCS and Azure. On the local file system only a directory
that cannot be opened does; an error further on is dropped by `entries.flatten()`
(`local.rs` 196), and the purge ends there with Ok, having `skipped` something, as it
has after a failed delete. `Self` is the application the properties are about;
one of its loads is followed, and of the others only what changes the storage.
`SharedContainer` says whether the applications use one Azure container, `Nested` which
`app_id`s begin with another one and a slash: GCS lists by prefix, so that a purge of
`a` takes the entries of `a/b`. `Apart` is the case in which neither gives another
application a way to `Self`'s objects.

## 3. Runs

| Run | Instance | Distinct states | Shows |
|---|---|---|---|
| `cache` | 2 requests, 2 keys of one URI, channel of 1, local, restarts | 0.32 M | `MemoryIsBacked`, `OnlyGrantedIsCached`, `UsesBackend`, `ImplementsGateway` |
| `purge` | 1 request, 1 key with 2 versions, 2 admins, local, every fault | 1.2 M | `TypeOK`, `PurgeKeepsMemoryEmpty`, `PermitsConserved`, `OnlyGrantedIsCached`, `PurgedContentIsGone` |
| `answered` | 2 requests, 1 permit, channel of 1, 1 admin, S3, disconnects | 0.17 M | `OriginLoadBounded`, `WritesAreKept`, `ImplementsGateway`, `Answered` |
| `memory` | 3 keys, 2 contents, 2 tasks, 4 amounts of memory, threshold 66 % | 0.19 M | `TypeOK`, `LeastRecentlyUsedGoFirst`, `ImplementsForgetful`, `LockIsReleased`, `RiseIsActedOn` |
| `rules` | 2 requests, 2 keys of one URI, percentages 0, 26, 34, 60, 100, 101, 255, ttl 0 to 2 | 0.68 M | `TypeOK`, `PanicsOnlyAbove100`, `RefreshShare`, `FailoverEnds` |
| `objects` | 2 applications, the other one nested in `Self`, 2 keys, the three backends, failing calls and restarts | 0.66 M | `TypeOK`, `PurgeIsComplete`, `PurgeStaysHome`, `ImplementsBackend` |
| `breaker` | 2 callers, 3 checkers, threshold 0 and 1, retry interval 0 and 10 | 7 626 | `TypeOK`, `OpenHasChecker`, `TripNotMissed`, `ZeroDisables`, `NoRetryStaysOpen`, `Recovers` |
| `s3_store` | 2 keys, 2 responses, 1 reader, 1 purger, failures and restarts | 0.67 M | `TypeOK`, `HeadersBelongToBody`, `PurgeIsComplete`, `UndisturbedLoadIsWhole`, `ImplementsBackend` |

Bounds of the runs of `ProxyHandler`. Two requests for one permit is the least that
has one over the limit while the other holds it; a channel of one message is the
least that fills. Two requests are enough for any race between a store and a store
or a load; more of them only repeat roles, and they are interchangeable (symmetry,
where no liveness is checked). Two keys are needed for one key's content to show up
under another, and for a message lost at a full channel to be missed. `Gateway` is
checked twice: in `cache` for what a fallback may serve, in `answered` for the
limit, for who is turned away, and for disconnects. Two admins
let a purge begin while the deletion tasks of a disconnected one still run. One
request at a time is enough in `purge`, where the races are between it, the
writer and the purges. `MaxVersion` bounds how many contents a key has: two tell a
purged one from a new one.

Bounds of the others. `memory`: three keys are the least whose order can go wrong
by a promotion; with 4 amounts of memory and a threshold of 66 % the percentages
are 0, 33, 66 and 100, so that usage can be below, at and above the threshold and
rise above it twice. `rules`: the percentages are the ones around each change of
the modulus that matters (3, 2, 1, 0), with 0 as the exception; six hits go twice
round the longest modulus; `MaxAge` is the longest ttl. `objects`: one purge per
application at a time and one followed load; the other application asks for one of
the two keys, so that one is contended and one is not; its `app_id` begins with
`Self`'s, so that `Self`'s purges on GCS have more on their list than their own. `s3_store`: `MaxResponses`
bounds how many responses are stored; two are the least that can be mixed.
`breaker`: 0 and one other value of each setting are all the code tells apart; three checker slots let two trips
overlap with a checker that is closing; `Begin` keeps a slot free for every call
that may trip, so that a trip is never blocked by the bound. `MaxErrors` only bounds
the counter when the breaker is disabled. Every safety property of these runs is
also proved for all values of the constants (those of `objects` that need it, for
applications that are `Apart`, as in the run), so that the
bounds matter for the liveness properties only.

Deadlock is checked in every run: no reachable state of any of them is without a
successor.

Fairness. tokio polls every task that can run: weak fairness for the writer, the
deletion tasks, callers and checkers. The queues of tokio's `RwLock` and bounded
channel are FIFO, so a handler that waits for them gets its turn although others
take them in between: strong fairness for the handlers. Storage calls are assumed
to come back, with an answer or an error. In `MemoryCache` the holder of the lock,
which awaits nothing but the deletion tasks of a purge, and the background task,
which a timer wakes and which queues for the lock, are weakly fair. Other tasks may
take the lock before the background task gets it; `RiseIsActedOn` holds all the
same, because whoever puts something evicts, too. In `Rules` only
time is fair. Nothing is assumed of the downstream: there is no timeout on its answer nor
on the body that follows the head (`proxy.rs` 271), so neither `OriginAnswers` nor
`ReadBody` is fair, and `Answered` speaks of the requests that are not waiting for one of
the two (`Waiting`): they reach their response or come to wait for the
downstream. Nothing is assumed of the client either, who may never take the response. `Recovers` assumes of the bucket only that it stays
reachable from some moment on.

## 4. What the code does not do (violation runs)

| Run | What is said | What happens |
|---|---|---|
| `full_body` | a cached response "includes the full response body" (`memory.rs` 27) | a body that breaks off is cached as an empty one (`proxy.rs` 271) |
| `breaker_reopened` | a failed check keeps the breaker at true (`s3.rs` 351) | a checker with a stale verdict opens a breaker another one has closed |
| `s3_torn_load` | a load returns body and headers, or no headers (`s3.rs` 181-182) | a load that overlaps an upload mixes two responses |
| `failed_delete` | a purge of S3 ends with Ok "if all deletions succeeded" and with Err "if any error occurred during listing or deletion" (`s3.rs` 280-281; `gcs.rs` 192, `azure.rs` 190 and `local.rs` 185 say the same) | a delete that fails is logged, the purge ends with Ok and the object stays (`s3.rs` 312); the other three backends do the same |

Noticed while reading, not among the runs:

- `azure.rs` 186 says a purge deletes the entries with the prefix `cache/{app_id}/`; it lists
  and deletes every blob of the container (204), those of other applications
  included. With `SharedContainer = TRUE` in `MCObjects.cfg` TLC finds `PurgeStaysHome`
  violated; the theorem assumes `Apart`. The same happens on GCS, where the comment has the
  prefix right, to an application whose `app_id` begins with another one's and a slash.
- `local.rs` 185 says Err "if reading or deleting fails"; an error of the directory after
  it has been opened is dropped (196), and the purge ends with Ok.
- Outside failover memory is not looked up before the downstream is asked, where
  the repository's README (111-117) has a lookup before the semaphore;
  `COMMENT.md` notes it, too.
- A miss on S3 is answered with 500 where README line 106 says 502.
- On overload and after a failed forward a bypassing request does read memory
  (`bypass.rs` 20 says it is skipped for read and write).
- A slow response is cached although the URI has just entered failover, and a fast
  one that a refresh gets during failover is not: README 131-132 (in failover
  skip caching) and 153 (a refreshed response is stored again) contradict each
  other, and the code does neither in full (`proxy.rs` 293-296).
- `ttl_seconds` is the length of the failover window, not a time-to-live of cached
  responses (`config.rs` 39). Entries never expire; the status endpoint reports a
  remaining time of 0 for entries that are still served. Left out, it is 0, so
  that the sample configuration in the README disables latency failover, although
  `latency.rs` 27-29 speaks of 300 seconds.
- The share of refreshing requests is rounded up: 34 to 50 percent refresh every
  second request, 51 to 100 percent every one. Above 100 the first request panics
  and leaves the counters' mutex poisoned for good (`refresh.rs` 39).
- The background task does not act on a usage that has climbed back to the value
  it remembers (`eviction.rs` 43 and 48), however far above the threshold.
- The comment on `CIRCUIT_BREAKER` (`proxy.rs` 88-89) has the polarity reversed.

## 5. What is proved

The constants are arbitrary: any finite set of requests, any keys, URIs and
admins, any number of permits, any channel capacity above 0, any backend, any
faults. The assumptions are the named ASSUMEs of the modules
(`ConstantsAssumption`, `NoneAssumption`, `MemoryAssumption`, `RulesAssumption`,
`BreakerAssumption`, `ObjectAssumption`, and the assumptions on the records of the
stores): the configuration's ranges, and that `None` is none of the values it is the
absence of. TLC evaluates them in every run.

**ProxyHandlerProofs.** `TypeCorrect`, `PermitsAreConserved` and
`OriginIsProtected` come from one induction over the request side. The count of
permits alone is not inductive: giving one back must not exceed the limit, so
`RequestInv` also says which positions own a permit (`Admitted`) and which do not
(`Outside`). `OriginIsProtected` then is a cardinality argument: whoever is at the
downstream is among the holders. `PurgedStaysEmpty` is
inductive as it stands. `CacheContentIsGranted` needs the content of every
place it passes through (the response in a handler's hands, the channel, the
writer, the backend, memory) to be granted, by induction on where it moves.
`WriteBehindIsLossless` needs that a fallback about to fill memory (`pc` is "fill")
has found an object that is still stored, which in turn rests on a lemma: without
storage failures and purges nothing leaves the backend while the process lives.
`BackendIsUsed` is the refinement: the channel and the single writer make the
handlers' stores one at a time, a load is a fallback's, and every other step is a
stutter.

`WritesAreNotLost` is an action property. What backs up an entry is the object in the
backend, the message in the writer's hands, in the channel or in the hands of a
handler that waits to send it, or a handler about to. The proof goes through the
steps: each hands an entry on to the next place (`StoredStays`, `BackedStays`), a
purge that holds the lock leaves memory empty, and what remains are the two
exceptions the property names. The disconnect is among them because the code
does lose an entry to it; `SendToWriter_unawaited`, a handler that answers without
waiting for room in the channel, is the bug the property rejects.

**GatewayProofs.** `ProxyImplementsGateway` is the refinement of the whole. Two of its
obligations need an invariant. That a request is forwarded only below the limit,
and turned away only at it, needs the permits: `PermitsAreTheLimit` says that the
frames that own a permit are those `Gateway` counts (`InProgress`), by `RequestInv`: a
fallback is counted if and only if it follows a failed call. That a fallback gives only granted content needs
`ContentInv`, the induction of `CacheContentIsGranted`, since memory, the backend and
the object a handler has loaded are all hidden from `Gateway`. Then there is one lemma
for each of `Gateway`'s actions. A step of a handler that stays in its phase and does not
change its reply is a stutter (`HiddenSteps`), and so is every step of the writer, a
purge, an eviction or a window that ends.

**PurgingProofs.** `PurgedStaysAway` is an argument about flow. Content gets into
the backend only from the writer, into memory only from a handler, into the
channel only from a handler, and into a handler's hands only from the origin or,
by a lookup that had the lock of memory, from the backend (`StoredFlow`,
`MemoryFlow`, `QueueFlow`, `HandlerFlow`). So what nobody carried when a purge took
the lock can only be picked up by a fallback, and none sets off while the lock is
held. `PromiseInv` says, for a purge that runs, that nothing in `gone` is carried and
what of it is stored is on the purge's list; memory is empty by `PurgedStaysEmpty`.
At the end of the list nothing in `gone` is stored either, and from then on the
flow lemmas alone keep it away. The theorem is about `PurgingSpec`, whose steps are
steps of `ProxyHandler` (`PurgingImplements`).

**MemoryCacheProofs.** That `lru` is the end of `recent` is inductive once neither
has repetitions: a use moves the key to the end of both, from the same place
(`PromoteEnd`), and a pop shortens `lru` at the front. `MemoryImplementsForgetful`
needs `Batch`: what the holder of the lock has done since it took it is a put or
nothing, and evictions.

**RulesProofs.** `RefreshShare` rests on the modulus being the greatest number of
shares that fits into 100, and on `refreshes` being the quotient of the counter by
it, which the induction carries as two inequalities.

**CircuitBreakerProofs.** `NeverOrphaned` is inductive with the type invariant:
the breaker is opened by callers that are about to spawn and by checkers that go
on. `NoTripIsMissed` counts the callers between their `fetch_add` and their reset.
`DisabledStaysClosed`: with threshold 0 no caller ever trips.
`OpenIsFinalWithoutRetry`: with an interval of 0 no health checker is ever alive
(`UnattendedInv`), and only a checker closes the breaker.

**S3StoreProofs.** `HeadersMatch` needs what an upload between its two objects
means for them, and that a purge only removes objects. `PurgesAreComplete` needs
that what remains of the objects that were there when the purge began is still to
be listed or on the current page, as long as no delete has failed (`skipped`).
`UndisturbedLoadsAreWhole` rests on `HeadersMatch` at the moment the body is read, and
on `LoadInv`: between the two calls each of the two objects is that of the
response that was read, or has been purged.
`S3ImplementsBackend` shows step by step that an action is a step of
`CacheBackend` under the mapping or changes nothing of it.

**ObjectStoreProofs.** `LinkedIsTorn`, a file that is being written is torn as long
as its name is there, is what makes the local write one step of the abstract
backend. `PurgesAreComplete` is S3's argument again, for any paging; it speaks of the purges that
end with Ok and passed over no failed call, for Ok alone promises less: a failed delete
and, on the local file system, an error of the directory end with Ok, too.
`PurgesStayHome` and `ObjectsImplementBackend` are theorems under the assumption
`Apart` (no shared Azure container, no `app_id` that `Self`'s begins with), without
which they do not hold; they rest on
`OwnObjects`, nobody else's list has a name of `Self`, and on `NamesApart`.

**Only model-checked:** `Answered`, `Recovers`, `LockIsReleased`, `RiseIsActedOn` and
`FailoverEnds`. They are liveness properties under fairness, out of the prover's
reach. The violation runs are counterexamples and have nothing to prove.

## 6. What is left to do

1. The breaker composed with the writer and the fallback, so that a skipped store
   or load is decided by the breaker and not by a free choice.
2. `Rules` composed with `ProxyHandler`: a panic of the refresh rule with several
   handlers under way, and the window's end against the caching decision.
3. When memory and the backend agree: which overlaps of stores and fallbacks of one
   key leave them with different versions, and that without these they agree
   once nothing is on the way.

## 7. Not modelled, and why

The status endpoint (a read-only snapshot), the admin UI (static files),
configuration parsing (sequential; the accepted ranges are ASSUMEs), logging,
metrics, CORS, argument parsing. The regular expressions that choose a latency
threshold: a response is slow or it is not. SHA-256 and the canonical form of the
headers: a key stands for URI and headers. Compression, base64 and JSON, and the
failures that only they can have. The clients' initialisation and the buckets'
credentials. An upload that times out at the client and is applied by the
service after a later one. Which configurations `from_file` rejects: the example
in the repository's README lacks the two fields of the circuit breaker, which have
no default.
