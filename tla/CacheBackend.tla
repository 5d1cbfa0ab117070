---------------------------- MODULE CacheBackend ----------------------------
(***************************************************************************)
(* What the proxy relies on when it uses a persistent backend, whichever   *)
(* of gcs, azure, local and s3 the configuration names: store_in_cache,    *)
(* load_from_cache and delete_all_from_cache on a register per key.  A     *)
(* store replaces the entry of its key at one moment, keeps it or, cut     *)
(* short, loses it.  A load that finds something finds what was stored at  *)
(* one moment of the call.  There is one store at a time, for there is one *)
(* CACHE_WRITER.                                                           *)
(***************************************************************************)

CONSTANTS
  Keys,       \* cache keys
  Responses,  \* what may be stored
  Readers,    \* tasks that load
  None

VARIABLES
  stored,   \* the entry of each key
  writing,  \* the store that is under way and has not taken effect
  reading   \* the load of each reader

vars == <<stored, writing, reading>>

Idle == [key |-> None, found |-> None]

Init ==
  /\ stored = [k \in Keys |-> None]
  /\ writing = None
  /\ reading = [r \in Readers |-> Idle]

StartStore(k, response) ==
  /\ writing = None
  /\ writing' = [key |-> k, response |-> response]
  /\ UNCHANGED <<stored, reading>>

TakesEffect ==
  /\ writing' = None
  /\ \/ UNCHANGED stored
     \/ /\ writing # None
        /\ \E entry \in {writing.response, None} :
             stored' = [stored EXCEPT ![writing.key] = entry]

EndStore == writing # None /\ TakesEffect /\ UNCHANGED reading

Delete(k) ==
  /\ stored' = [stored EXCEPT ![k] = None]
  /\ UNCHANGED <<writing, reading>>

StartLoad(r, k) ==
  /\ reading[r] = Idle
  /\ reading' = [reading EXCEPT ![r].key = k]
  /\ UNCHANGED <<stored, writing>>

Find(r) ==
  /\ reading[r].key # None
  /\ reading[r].found = None
  /\ stored[reading[r].key] # None
  /\ reading' = [reading EXCEPT ![r].found = stored[reading[r].key]]
  /\ UNCHANGED <<stored, writing>>

\* With what was found, or with nothing.
EndLoad(r) ==
  /\ reading' = [reading EXCEPT ![r] = Idle]
  /\ UNCHANGED <<stored, writing>>

\* The process stops: the backend keeps what it has.
Stop == TakesEffect /\ reading' = [r \in Readers |-> Idle]

Next ==
  \/ \E k \in Keys, response \in Responses : StartStore(k, response)
  \/ EndStore
  \/ \E k \in Keys : Delete(k)
  \/ \E r \in Readers : (\E k \in Keys : StartLoad(r, k)) \/ Find(r) \/ EndLoad(r)
  \/ Stop

Spec == Init /\ [][Next]_vars

=============================================================================
