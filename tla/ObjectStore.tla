---------------------------- MODULE ObjectStore -----------------------------
(***************************************************************************)
(* The backends that keep an entry in one object: Google Cloud Storage     *)
(* (src/storage/gcs.rs), Azure Blob Storage (azure.rs) and the local file  *)
(* system (local.rs), used by several applications at once.  Each          *)
(* application is one CacheBolt process: one store at a time, for there is *)
(* one CACHE_WRITER, loads by fallback handlers and a purge.  They differ  *)
(* in what an object is called, in how it is written and in what a purge   *)
(* lists.                                                                  *)
(*                                                                         *)
(* The properties are about one application, Self.  A load changes nothing *)
(* in the storage, so those of the others are left out, and of Self one    *)
(* handler is followed.                                                    *)
(*                                                                         *)
(* Left out: base64, JSON and gzip with the failures that only they can    *)
(* have, and the clients' initialisation.                                  *)
(***************************************************************************)
EXTENDS FiniteSets

CONSTANTS
  Apps,             \* config: app_id of each application
  Self,             \* the application the properties are about
  Backends,         \* values of storage_backend to look at
  SharedContainer,  \* do the applications share one Azure container?
  Nested,           \* <<b, a>>: b's app_id is a's, a slash and something more
  Keys,             \* cache keys: the same request has the same key everywhere
  Asked,            \* the keys the clients of each application ask for
  Contents,         \* responses
  Faults,           \* "call": a call of the storage fails; "crash": restarts
  Torn,             \* a file that has been created and not, or not all, written
  None

ASSUME ObjectAssumption ==
  /\ Self \in Apps
  /\ Backends \subseteq {"gcs", "azure", "local"}
  /\ SharedContainer \in BOOLEAN
  /\ Nested \subseteq Apps \X Apps
  /\ Asked \in [Apps -> SUBSET Keys]
  /\ Faults \subseteq {"call", "crash"}
  /\ {None, Torn} \cap Contents = {} /\ None # Torn
  /\ None \notin Apps \cup Keys

VARIABLES
  backend,  \* config: storage_backend
  objects,  \* what the storage holds, by name
  writing,  \* store_in_cache of each application's CACHE_WRITER
  reading,  \* load_from_cache of a fallback handler of Self
  purge,    \* delete_all_from_cache of each application; "done" is Ok, and
            \* skipped says whether it went on after a failed call
  remains   \* history: the objects of Self that were there when its purge began
            \* and were neither deleted nor overwritten since

taskVars == <<writing, reading, purge>>
vars == <<backend, objects, taskVars, remains>>

Names == (Apps \cup {None}) \X Keys

Store == [key : Keys, response : Contents, file : {"none", "linked", "unlinked"}]
Load  == [key : Keys \cup {None}, found : Contents \cup {None}]
Purge == [step : {"idle", "list", "delete", "done"}, passed : SUBSET Names,
          todo : SUBSET Names, more : BOOLEAN, skipped : BOOLEAN]

ASSUME StoreAssumption == None \notin Store \cup [key : Keys, response : Contents]

NoRead  == [key |-> None, found |-> None]
NoPurge == [step |-> "idle", passed |-> {}, todo |-> {}, more |-> FALSE, skipped |-> FALSE]

\* Ok(deleted): nothing but the result is left of a purge.
Ended(skipped) == [NoPurge EXCEPT !.step = "done", !.skipped = skipped]

MayFail == "call" \in Faults

\* An Azure container is used by Self alone, unless it is shared.
Active(a) == backend # "azure" \/ SharedContainer \/ a = Self

\* Mutant: the path is made from the key alone.
Name_bare(a, k) == <<None, k>>

\* cache/{app_id}/{key}; in Azure the bare key.
Name(a, k) == <<IF backend = "azure" THEN None ELSE a, k>>

Present == {n \in Names : objects[n] # None}

\* Mutant: no prefix.
Listed_all(a) == Present

\* What a listing for this application returns: in gcs the names with its prefix,
\* in local the files of its own directory, in azure all there is.
Listed(a) ==
  {n \in Present : \/ n[1] = a
                   \/ backend = "gcs" /\ <<n[1], a>> \in Nested
                   \/ backend = "azure"}

Write(n, content) ==
  /\ objects' = [objects EXCEPT ![n] = content]
  /\ remains' = remains \ {n}

Untouched == UNCHANGED <<objects, remains>>

EndStore(a) == writing' = [writing EXCEPT ![a] = None]

-----------------------------------------------------------------------------
(* store_in_cache *)

StartStore(a, k, c) ==
  /\ writing[a] = None
  /\ writing' = [writing EXCEPT ![a] = [key |-> k, response |-> c, file |-> "none"]]
  /\ UNCHANGED <<backend, objects, reading, purge, remains>>

\* gcs, azure: one call, which may fail, and may have had its effect then.
Upload(a) ==
  /\ writing[a] # None /\ backend # "local"
  /\ \/ Write(Name(a, writing[a].key), writing[a].response)
     \/ MayFail /\ Untouched
  /\ EndStore(a)
  /\ UNCHANGED <<backend, reading, purge>>

\* Mutant: the file is opened without being truncated.
CreateFile_kept(a) ==
  /\ writing[a] # None /\ backend = "local"
  /\ writing[a].file = "none"
  /\ writing' = [writing EXCEPT ![a].file = "linked"]
  /\ Untouched
  /\ UNCHANGED <<backend, reading, purge>>

\* local: File::create makes an empty file of the old one, if there was one.
CreateFile(a) ==
  /\ writing[a] # None /\ backend = "local"
  /\ writing[a].file = "none"
  /\ \/ /\ Write(Name(a, writing[a].key), Torn)
        /\ writing' = [writing EXCEPT ![a].file = "linked"]
     \/ MayFail /\ Untouched /\ EndStore(a)
  /\ UNCHANGED <<backend, reading, purge>>

\* write_all goes to the file that was created, which a purge may have removed
\* from its directory since.
WriteFile(a) ==
  /\ writing[a] # None
  /\ \/ /\ writing[a].file = "linked"
        /\ \/ Write(Name(a, writing[a].key), writing[a].response)
           \/ MayFail /\ Untouched
     \/ writing[a].file = "unlinked" /\ Untouched
  /\ EndStore(a)
  /\ UNCHANGED <<backend, reading, purge>>

-----------------------------------------------------------------------------
(* load_from_cache *)

\* What a load of this key would find.
Entry(k) ==
  LET object == objects[Name(Self, k)] IN IF object = Torn THEN None ELSE object

StartLoad(k) ==
  /\ reading = NoRead
  /\ reading' = [reading EXCEPT !.key = k]
  /\ UNCHANGED <<backend, objects, writing, purge, remains>>

\* The object is fetched and decoded; whatever goes wrong, the load is None.
Fetch ==
  /\ reading.key # None /\ reading.found = None
  /\ LET entry == Entry(reading.key) IN
       \/ entry # None /\ reading' = [reading EXCEPT !.found = entry]
       \/ (entry = None \/ MayFail) /\ reading' = NoRead
  /\ UNCHANGED <<backend, objects, writing, purge, remains>>

\* The handler takes the response.
EndLoad ==
  /\ reading.found # None
  /\ reading' = NoRead
  /\ UNCHANGED <<backend, objects, writing, purge, remains>>

-----------------------------------------------------------------------------
(* delete_all_from_cache *)

StartPurge(a) ==
  /\ purge[a].step \in {"idle", "done"}
  /\ purge' = [purge EXCEPT ![a] = [NoPurge EXCEPT !.step = "list"]]
  /\ remains' = IF a = Self THEN Present \cap {Name(a, k) : k \in Keys} ELSE remains
  /\ UNCHANGED <<backend, objects, writing, reading>>

\* Mutant: the page token is not followed.
ListPage_first(a) ==
  /\ purge[a].step = "list"
  /\ \E page \in SUBSET Listed(a) :
       purge' = [purge EXCEPT ![a].step = "delete", ![a].todo = page]
  /\ UNCHANGED <<backend, objects, writing, reading, remains>>

\* A page, or some more of the directory.  A call to list a page that fails ends
\* the purge with an Err, and so does a directory that cannot be opened; an error
\* further on ends the stream of its entries, and flatten() drops it: then the
\* purge is over, with Ok.
ListPage(a) ==
  /\ purge[a].step = "list"
  /\ \/ \E page \in SUBSET (Listed(a) \ purge[a].passed) :
          LET beyond == Listed(a) \ (purge[a].passed \cup page) IN
            /\ page = {} => beyond = {}
            /\ purge' = [purge EXCEPT
                 ![a].step = "delete", ![a].todo = page,
                 ![a].passed = @ \cup page, ![a].more = beyond # {}]
     \/ /\ backend # "local" \/ purge[a].passed = {}
        /\ MayFail \/ (backend = "local" /\ Listed(a) = {})
        /\ purge' = [purge EXCEPT ![a] = NoPurge]
     \/ /\ MayFail /\ backend = "local"
        /\ purge' = [purge EXCEPT ![a] = Ended(TRUE)]
  /\ UNCHANGED <<backend, objects, writing, reading, remains>>

\* Whoever is writing this file goes on writing, to no name.
Unlinked(n) ==
  [b \in Apps |->
    IF writing[b] # None /\ writing[b].file = "linked" /\ Name(b, writing[b].key) = n
      THEN [writing[b] EXCEPT !.file = "unlinked"] ELSE writing[b]]

\* A delete that fails is logged and skipped; it may have had its effect.
DeleteObject(a) ==
  /\ purge[a].step = "delete"
  /\ \E n \in purge[a].todo :
       \/ /\ Write(n, None)
          /\ writing' = Unlinked(n)
          /\ purge' = [purge EXCEPT ![a].todo = @ \ {n}]
       \/ /\ MayFail
          /\ Untouched
          /\ purge' = [purge EXCEPT ![a].todo = @ \ {n}, ![a].skipped = TRUE]
          /\ UNCHANGED writing
  /\ UNCHANGED <<backend, reading>>

\* The page is done: the next one, or Ok(deleted).
EndPage(a) ==
  /\ purge[a].step = "delete"
  /\ purge[a].todo = {}
  /\ purge' = [purge EXCEPT ![a] =
       IF purge[a].more THEN [@ EXCEPT !.step = "list"] ELSE Ended(@.skipped)]
  /\ UNCHANGED <<backend, objects, writing, reading, remains>>

-----------------------------------------------------------------------------

\* An application restarts.  The write that was under way may have had its
\* effect.
Crash(a) ==
  /\ "crash" \in Faults
  /\ EndStore(a)
  /\ reading' = IF a = Self THEN NoRead ELSE reading
  /\ purge' = [purge EXCEPT ![a] = NoPurge]
  /\ \/ Untouched
     \/ /\ writing[a] # None
        /\ writing[a].file = IF backend = "local" THEN "linked" ELSE "none"
        /\ Write(Name(a, writing[a].key), writing[a].response)
  /\ UNCHANGED backend

Init ==
  /\ backend \in Backends
  /\ objects = [n \in Names |-> None]
  /\ writing = [a \in Apps |-> None]
  /\ reading = NoRead
  /\ purge = [a \in Apps |-> NoPurge]
  /\ remains = {}

Next ==
  \/ \E k \in Asked[Self] : StartLoad(k)
  \/ Fetch \/ EndLoad
  \/ \E a \in Apps :
       /\ Active(a)
       /\ \/ \E k \in Asked[a], c \in Contents : StartStore(a, k, c)
          \/ Upload(a) \/ CreateFile(a) \/ WriteFile(a)
          \/ StartPurge(a) \/ ListPage(a) \/ DeleteObject(a) \/ EndPage(a)
          \/ Crash(a)

Spec == Init /\ [][Next]_vars

-----------------------------------------------------------------------------
(* Properties *)

\* Types; a file that is being written loads as nothing.
TypeOK ==
  /\ backend \in Backends
  /\ objects \in [Names -> Contents \cup {Torn, None}]
  /\ writing \in [Apps -> Store \cup {None}]
  /\ reading \in Load
  /\ purge \in [Apps -> Purge]
  /\ remains \subseteq Names
  /\ reading.found # None => reading.key # None
  /\ \A a \in Apps :
       writing[a] # None /\ writing[a].file = "linked"
         => objects[Name(a, writing[a].key)] = Torn

\* delete_all_from_cache, when it ends with Ok and has passed over no failed call
\* (a delete that was logged, an error of the directory that was dropped), leaves
\* nothing behind of its application that was there when it began, whatever is
\* stored or deleted by others between its pages.  Ok alone promises less.
PurgeIsComplete ==
  purge[Self].step = "done" /\ ~purge[Self].skipped => remains = {}

\* Nobody else lists what belongs to Self: no container is shared, and no other
\* app_id is the beginning of Self's.
Apart == ~SharedContainer /\ \A a \in Apps : <<Self, a>> \notin Nested

\* An entry of an application goes away only by a purge or by a store of that
\* application: none deletes what another one has cached.  azure.rs, on
\* delete_all_from_cache: "prefix: cache/{app_id}/".
PurgeStaysHome ==
  [][\A k \in Keys : Entry(k) # None /\ Entry(k)' = None =>
       \/ purge[Self].step = "delete"
       \/ writing[Self] # None /\ writing[Self].key = k]_vars

\* To an application its backend is a register per key which only its own
\* CACHE_WRITER fills, whatever others do in the same bucket or directory.
Stored  == [k \in Keys |-> Entry(k)]
Writing == IF writing[Self] = None THEN None
           ELSE [key |-> writing[Self].key, response |-> writing[Self].response]
Reading == [r \in {Self} |-> reading]

Backend == INSTANCE CacheBackend WITH
  Responses <- Contents, Readers <- {Self},
  stored <- Stored, writing <- Writing, reading <- Reading

ImplementsBackend == Backend!Spec

=============================================================================
