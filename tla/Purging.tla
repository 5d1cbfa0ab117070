------------------------------ MODULE Purging -------------------------------
(***************************************************************************)
(* ProxyHandler with a record of what each purge of both caches has        *)
(* promised.  An admin is told 200 when invalidate_handler has joined its  *)
(* deletion tasks.  Tasks that were under way when the purge cleared       *)
(* memory still carry content and may cache it afterwards; everything that *)
(* was merely at rest must be gone, and only the origin can bring it back. *)
(***************************************************************************)
EXTENDS ProxyHandler

VARIABLES
  era,   \* history: how far the last purge of each admin has got
  gone   \* history: the content that purge removes, as pairs of key and version

historyVars == <<era, gone>>

Places == {"answered", "body", "store", "send", "fill"}

\* Content some task is about to cache: a handler with a response in hand or
\* with a load under way, a message, the writer.
Carried ==
  {<<req[r].key, resp[r].body>> : r \in {x \in Requests : pc[x] \in Places}}
    \cup {<<req[r].key, stored[req[r].key]>> : r \in {x \in Requests : pc[x] = "load"}}
    \cup {<<m.key, m.body>> : m \in OnTheWay}

AtRest == {<<k, memory[k]>> : k \in Keys} \cup {<<k, stored[k]>> : k \in Keys}

Cached == (Keys \X Versions) \cap (AtRest \cup Carried)

Objects == {k \in Keys : stored[k] # None}

-----------------------------------------------------------------------------

Abandon(a) ==
  /\ era' = [era EXCEPT ![a] = "none"]
  /\ gone' = [gone EXCEPT ![a] = {}]

\* The purge of a promises nothing any more unless ok.
KeepIf(ok, a) ==
  IF ok \/ era[a] # "running" THEN UNCHANGED historyVars ELSE Abandon(a)

TrackInvalidate(a) ==
  /\ Invalidate(a)
  /\ IF purge'[a] = "listing"
       THEN /\ era' = [era EXCEPT ![a] = "running"]
            /\ gone' = [gone EXCEPT ![a] = Cached \ Carried]
       ELSE Abandon(a)

TrackListing(a) == ListObjects(a) /\ KeepIf(todo'[a] = Objects, a)

TrackDelete(a) ==
  /\ DeleteObject(a)
  /\ KeepIf(\A k \in todo[a] \ todo'[a] : stored'[k] = None, a)

TrackFinish(a) ==
  /\ FinishInvalidate(a)
  /\ era' = [era EXCEPT ![a] = IF @ = "running" THEN "over" ELSE @]
  /\ UNCHANGED gone

TrackDisconnect(a) == AdminDisconnect(a) /\ KeepIf(FALSE, a)

\* The origin serves a version again, to whomever: it may be cached again.
TrackAnswer(r) ==
  /\ OriginAnswers(r)
  /\ gone' = [a \in Admins |-> gone[a] \ {<<req[r].key, resp'[r].body>>}]
  /\ UNCHANGED era

\* A purge that a crash cuts short has answered nobody.
TrackCrash ==
  /\ Crash
  /\ era' = [a \in Admins |-> IF era[a] = "running" THEN "none" ELSE era[a]]
  /\ gone' = [a \in Admins |-> IF era[a] = "running" THEN {} ELSE gone[a]]

\* Everything else neither makes nor breaks a promise.
Untracked ==
  \/ \E r \in Requests : Client(r) \/ Handler(r) \/ ForwardFails(r) \/ ReadBody(r)
  \/ CacheWriter
  \/ BackgroundEvict
  \/ \E uri \in Uris : WindowExpires(uri)

PurgingInit ==
  /\ Init
  /\ era = [a \in Admins |-> "none"]
  /\ gone = [a \in Admins |-> {}]

PurgingNext ==
  \/ Untracked /\ UNCHANGED historyVars
  \/ \E r \in Requests : TrackAnswer(r)
  \/ \E a \in Admins :
       \/ TrackInvalidate(a) \/ TrackListing(a) \/ TrackDelete(a)
       \/ TrackFinish(a) \/ TrackDisconnect(a)
  \/ TrackCrash

PurgingSpec == PurgingInit /\ [][PurgingNext]_<<vars, historyVars>>

-----------------------------------------------------------------------------

\* When a purge of both caches has answered 200 (its admin stayed, the listing
\* and every delete worked), what was at rest when it began is in neither cache
\* nor on its way into one, and nothing but a new answer of the origin brings
\* it back: no fallback that ran during the purge, no late message, no other
\* purge and no restart.  README.md, admin API: "clear the entire cache".
PurgedContentIsGone ==
  \A a \in Admins : era[a] = "over" => gone[a] \cap Cached = {}

=============================================================================
