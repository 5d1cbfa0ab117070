------------------------------- MODULE S3Store ------------------------------
(***************************************************************************)
(* The S3 backend, src/storage/s3.rs.  Unlike the other backends it keeps  *)
(* a cached response in two objects, the body under <key>.gz and the       *)
(* headers under <key>.meta.gz, each written, read and deleted by a call   *)
(* of its own.  An upload (CACHE_WRITER runs one at a time), the loads of  *)
(* the fallback handlers and the purges of the admin interleave between    *)
(* any two calls.                                                          *)
(*                                                                         *)
(* The responses that are stored are numbered; an object is the number of  *)
(* the response it was made from.  Compression and serialisation are left  *)
(* out, with the failures that only they can have.                         *)
(***************************************************************************)
EXTENDS Integers, FiniteSets

CONSTANTS
  Keys,          \* cache keys
  Readers,       \* fallback handlers that load from S3
  Purgers,       \* deletion tasks spawned by invalidate_handler
  Faults,        \* "call": an S3 call fails; "crash": the process restarts
  MaxResponses,  \* bound: how many responses are stored
  None

Responses == 1 .. MaxResponses
Kinds     == {"body", "meta"}
Objects   == Keys \X Kinds
Body(k)   == <<k, "body">>  \* <key>.gz
Meta(k)   == <<k, "meta">>  \* <key>.meta.gz

ASSUME StoreAssumption ==
  /\ Faults \subseteq {"call", "crash"}
  /\ MaxResponses \in Nat
  /\ None \notin Keys
  /\ None \notin Responses

VARIABLES
  bucket,     \* the objects under cache/{app_id}/
  next,       \* the number of the next response that is stored
  upload,     \* CACHE_WRITER's store_in_cache
  load,       \* each reader's load_from_cache
  purge,      \* each purger's delete_all_from_cache; "done" is Ok, and skipped
              \* says whether a delete has failed
  unsettled,  \* history: the keys whose last upload has written the body and
              \* was not, or not yet, completed
  remains,    \* history: the objects that were there when a purge began and
              \* were neither deleted nor overwritten since
  disturbed   \* history: the readers whose load began on an unsettled key, or
              \* had an upload of its key write an object since

vars == <<bucket, next, upload, load, purge, unsettled, remains, disturbed>>

Upload == [step : {"head", "body", "meta"}, key : Keys, response : Responses]
Load   == [step : {"idle", "head", "body", "meta", "done"}, key : Keys \cup {None},
           body : Responses \cup {None}, headers : Responses \cup {None}]
Purge  == [step : {"idle", "list", "delete", "done"}, passed : SUBSET Objects,
           todo : SUBSET Objects, more : BOOLEAN, skipped : BOOLEAN]

ASSUME UploadAssumption == None \notin Upload \cup [key : Keys, response : Responses]

NoLoad  == [step |-> "idle", key |-> None, body |-> None, headers |-> None]
NoPurge == [step |-> "idle", passed |-> {}, todo |-> {}, more |-> FALSE, skipped |-> FALSE]

Present  == {o \in Objects : bucket[o] # None}
MayFail  == "call" \in Faults

\* The readers whose load of the key is under way.
Loading(k) == {r \in Readers : load[r].key = k}

\* An object is uploaded, or (None) deleted: what was there before is gone.
Write(o, response) ==
  /\ bucket' = [bucket EXCEPT ![o] = response]
  /\ remains' = [p \in Purgers |-> remains[p] \ {o}]
  /\ disturbed' = IF response = None THEN disturbed ELSE disturbed \cup Loading(o[1])

Untouched == UNCHANGED <<bucket, remains, disturbed>>

-----------------------------------------------------------------------------
(* store_in_cache *)

StartStore(k) ==
  /\ upload = None
  /\ next \in Responses
  /\ upload' = [step |-> "head", key |-> k, response |-> next]
  /\ next' = next + 1
  /\ UNCHANGED <<bucket, load, purge, unsettled, remains, disturbed>>

\* head_bucket comes first: nothing is uploaded to a bucket out of reach.
StoreHead ==
  /\ upload # None /\ upload.step = "head"
  /\ \/ upload' = [upload EXCEPT !.step = "body"]
     \/ MayFail /\ upload' = None
  /\ UNCHANGED <<bucket, next, load, purge, unsettled, remains, disturbed>>

\* Mutant: a failed upload of the body is logged and the headers are uploaded.
PutBody_ignored ==
  /\ upload # None /\ upload.step = "body"
  /\ \/ /\ Write(Body(upload.key), upload.response)
        /\ unsettled' = unsettled \cup {upload.key}
     \/ MayFail /\ Untouched /\ UNCHANGED unsettled
  /\ upload' = [upload EXCEPT !.step = "meta"]
  /\ UNCHANGED <<next, load, purge>>

\* A call that fails may have had its effect all the same.
PutBody ==
  /\ upload # None /\ upload.step = "body"
  /\ \/ /\ Write(Body(upload.key), upload.response)
        /\ unsettled' = unsettled \cup {upload.key}
        /\ \/ upload' = [upload EXCEPT !.step = "meta"]
           \/ MayFail /\ upload' = None
     \/ /\ MayFail
        /\ upload' = None
        /\ Untouched
        /\ UNCHANGED unsettled
  /\ UNCHANGED <<next, load, purge>>

PutMeta ==
  /\ upload # None /\ upload.step = "meta"
  /\ \/ /\ Write(Meta(upload.key), upload.response)
        /\ unsettled' = unsettled \ {upload.key}
     \/ /\ MayFail
        /\ Write(Meta(upload.key), upload.response) \/ Untouched
        /\ UNCHANGED unsettled
  /\ upload' = None
  /\ UNCHANGED <<next, load, purge>>

-----------------------------------------------------------------------------
(* load_from_cache *)

StartLoad(r, k) ==
  /\ load[r].step = "idle"
  /\ load' = [load EXCEPT ![r] = [NoLoad EXCEPT !.step = "head", !.key = k]]
  /\ disturbed' = IF k \in unsettled THEN disturbed \cup {r} ELSE disturbed \ {r}
  /\ UNCHANGED <<bucket, next, upload, purge, unsettled, remains>>

LoadHead(r) ==
  /\ load[r].step = "head"
  /\ \/ load' = [load EXCEPT ![r].step = "body"]
     \/ MayFail /\ load' = [load EXCEPT ![r] = NoLoad]
  /\ UNCHANGED <<bucket, next, upload, purge, unsettled, remains, disturbed>>

\* Mutant: the paths of the two objects are mixed up.
GetBody_meta(r) ==
  /\ load[r].step = "body"
  /\ LET object == bucket[Meta(load[r].key)] IN
       \/ /\ object # None
          /\ load' = [load EXCEPT ![r].step = "meta", ![r].body = object]
       \/ /\ object = None \/ MayFail
          /\ load' = [load EXCEPT ![r] = NoLoad]
  /\ UNCHANGED <<bucket, next, upload, purge, unsettled, remains, disturbed>>

\* Mutant: a body that is missing is not an error.
GetBody_unchecked(r) ==
  /\ load[r].step = "body"
  /\ load' = [load EXCEPT ![r].step = "meta", ![r].body = bucket[Body(load[r].key)]]
  /\ UNCHANGED <<bucket, next, upload, purge, unsettled, remains, disturbed>>

\* No body, no entry: the load ends with an Err.
GetBody(r) ==
  /\ load[r].step = "body"
  /\ LET object == bucket[Body(load[r].key)] IN
       \/ /\ object # None
          /\ load' = [load EXCEPT ![r].step = "meta", ![r].body = object]
       \/ /\ object = None \/ MayFail
          /\ load' = [load EXCEPT ![r] = NoLoad]
  /\ UNCHANGED <<bucket, next, upload, purge, unsettled, remains, disturbed>>

\* Headers that are missing or cannot be fetched are empty headers.
GetMeta(r) ==
  /\ load[r].step = "meta"
  /\ \E headers \in {bucket[Meta(load[r].key)]} \cup (IF MayFail THEN {None} ELSE {}) :
       load' = [load EXCEPT ![r].step = "done", ![r].headers = headers]
  /\ UNCHANGED <<bucket, next, upload, purge, unsettled, remains, disturbed>>

\* The handler takes the pair.
EndLoad(r) ==
  /\ load[r].step = "done"
  /\ load' = [load EXCEPT ![r] = NoLoad]
  /\ UNCHANGED <<bucket, next, upload, purge, unsettled, remains, disturbed>>

-----------------------------------------------------------------------------
(* delete_all_from_cache *)

StartPurge(p) ==
  /\ purge[p].step \in {"idle", "done"}
  /\ purge' = [purge EXCEPT ![p] = [NoPurge EXCEPT !.step = "list"]]
  /\ remains' = [remains EXCEPT ![p] = Present]
  /\ UNCHANGED <<bucket, next, upload, load, unsettled, disturbed>>

\* Mutant: the continuation token is not followed.
ListPage_first(p) ==
  /\ purge[p].step = "list"
  /\ \E page \in SUBSET Objects \ {{}} :
       purge' = [purge EXCEPT ![p].step = "delete", ![p].todo = page \cap Present]
  /\ UNCHANGED <<bucket, next, upload, load, unsettled, remains, disturbed>>

\* A page is the objects among some more names; it is truncated when there are
\* objects beyond.  A listing that fails ends the purge with an Err.
ListPage(p) ==
  /\ purge[p].step = "list"
  /\ \/ \E page \in SUBSET (Objects \ purge[p].passed) \ {{}} :
          purge' = [purge EXCEPT
            ![p].step = "delete", ![p].todo = page \cap Present,
            ![p].passed = @ \cup page,
            ![p].more = Present \ (purge[p].passed \cup page) # {}]
     \/ MayFail /\ purge' = [purge EXCEPT ![p] = NoPurge]
  /\ UNCHANGED <<bucket, next, upload, load, unsettled, remains, disturbed>>

\* A delete that fails is logged and skipped; it may have had its effect.
DeleteObject(p) ==
  /\ purge[p].step = "delete"
  /\ \E o \in purge[p].todo :
       \/ /\ Write(o, None)
          /\ purge' = [purge EXCEPT ![p].todo = @ \ {o}]
       \/ /\ MayFail
          /\ purge' = [purge EXCEPT ![p].todo = @ \ {o}, ![p].skipped = TRUE]
          /\ Untouched
  /\ UNCHANGED <<next, upload, load, unsettled>>

\* The page is done: the next one, or Ok(deleted_count).
EndPage(p) ==
  /\ purge[p].step = "delete"
  /\ purge[p].todo = {}
  /\ purge' = [purge EXCEPT ![p].step = IF purge[p].more THEN "list" ELSE "done"]
  /\ UNCHANGED <<bucket, next, upload, load, unsettled, remains, disturbed>>

-----------------------------------------------------------------------------

\* The process restarts.  The call that was under way may have had its effect.
Crash ==
  /\ "crash" \in Faults
  /\ upload' = None
  /\ load' = [r \in Readers |-> NoLoad]
  /\ purge' = [p \in Purgers |-> NoPurge]
  /\ remains' = [p \in Purgers |-> {}]
  /\ disturbed' = {}
  /\ \/ UNCHANGED <<bucket, unsettled>>
     \/ /\ upload # None /\ upload.step = "body"
        /\ bucket' = [bucket EXCEPT ![Body(upload.key)] = upload.response]
        /\ unsettled' = unsettled \cup {upload.key}
     \/ /\ upload # None /\ upload.step = "meta"
        /\ bucket' = [bucket EXCEPT ![Meta(upload.key)] = upload.response]
        /\ UNCHANGED unsettled
  /\ UNCHANGED next

Init ==
  /\ bucket = [o \in Objects |-> None]
  /\ next = 1
  /\ upload = None
  /\ load = [r \in Readers |-> NoLoad]
  /\ purge = [p \in Purgers |-> NoPurge]
  /\ unsettled = {}
  /\ remains = [p \in Purgers |-> {}]
  /\ disturbed = {}

Next ==
  \/ \E k \in Keys : StartStore(k)
  \/ StoreHead \/ PutBody \/ PutMeta
  \/ \E r \in Readers :
       \/ \E k \in Keys : StartLoad(r, k)
       \/ LoadHead(r) \/ GetBody(r) \/ GetMeta(r) \/ EndLoad(r)
  \/ \E p \in Purgers : StartPurge(p) \/ ListPage(p) \/ DeleteObject(p) \/ EndPage(p)
  \/ Crash

Spec == Init /\ [][Next]_vars

-----------------------------------------------------------------------------
(* Properties *)

\* Every variable has the type the code gives it; a load goes on to the
\* headers when it has found a body, and only then.
TypeOK ==
  /\ bucket \in [Objects -> Responses \cup {None}]
  /\ next \in 1 .. MaxResponses + 1
  /\ upload \in Upload \cup {None}
  /\ load \in [Readers -> Load]
  /\ purge \in [Purgers -> Purge]
  /\ unsettled \subseteq Keys
  /\ remains \in [Purgers -> SUBSET Objects]
  /\ disturbed \subseteq Readers
  /\ \A r \in Readers :
       /\ load[r].step # "idle" <=> load[r].key # None
       /\ load[r].step \in {"meta", "done"} <=> load[r].body # None

\* The two objects of an entry are made from one response, or its headers are
\* missing, unless the last upload of that key is under way or broke off:
\* purges that delete one object and then the other, at any moment of an
\* upload, never leave a body with the headers of another response.
HeadersBelongToBody ==
  \A k \in Keys \ unsettled :
    bucket[Body(k)] # None => bucket[Meta(k)] \in {bucket[Body(k)], None}

\* load_from_cache fetches the two objects by two calls.  When no upload wrote
\* an object of the key meanwhile, and the last one before it was completed, the
\* handler gets the body and the headers of one response, or no headers,
\* whatever the purges delete and whichever calls fail between the two.
UndisturbedLoadIsWhole ==
  \A r \in Readers \ disturbed :
    load[r].step = "done" => load[r].headers \in {load[r].body, None}

\* delete_all_from_cache, when it ends with Ok and no delete failed, leaves
\* nothing behind that was there when it began, whatever is uploaded or deleted
\* by others between its pages.  Ok alone does not: see OkMeansDeleted.
PurgeIsComplete ==
  \A p \in Purgers : purge[p].step = "done" /\ ~purge[p].skipped => remains[p] = {}

\* The bodies are a register per key that an upload changes at one moment and a
\* load reads at one moment: what the proxy relies on in any backend.
Stored  == [k \in Keys |-> bucket[Body(k)]]
Writing == IF upload # None /\ upload.step \in {"head", "body"}
             THEN [key |-> upload.key, response |-> upload.response] ELSE None
Reading == [r \in Readers |-> [key |-> load[r].key, found |-> load[r].body]]

Backend == INSTANCE CacheBackend WITH
  stored <- Stored, writing <- Writing, reading <- Reading

ImplementsBackend == Backend!Spec

-----------------------------------------------------------------------------
(* What the documentation says and the code does not do *)

\* s3.rs, load_from_cache: it "loads both body and headers", and headers that
\* are missing or invalid are an empty list: never those of another response.
LoadedPairIsOneResponse ==
  \A r \in Readers : load[r].step = "done" => load[r].headers \in {load[r].body, None}

\* s3.rs, delete_all_from_cache: "Ok(count) if all deletions succeeded", "Err(_) if
\* any error occurred during listing or deletion".
OkMeansDeleted == \A p \in Purgers : purge[p].step = "done" => remains[p] = {}

=============================================================================
