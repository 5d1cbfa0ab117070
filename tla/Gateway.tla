------------------------------- MODULE Gateway -------------------------------
(***************************************************************************)
(* What CacheBolt promises to its clients and to the downstream service,   *)
(* without a word about semaphores, locks, channels and caches: a request  *)
(* goes to the downstream at most once and never beyond the limit, an      *)
(* answer of the downstream reaches the client as it is, and who cannot    *)
(* have one gets content that was granted for its key, or an error.        *)
(***************************************************************************)
EXTENDS Integers, FiniteSets

CONSTANTS
  Clients,   \* connections, one request at a time on each
  Keys,      \* cache keys
  Versions,  \* contents the downstream may answer with
  EmptyBody, \* what is left of a body that breaks off
  Limit,     \* how many requests may be at the downstream
  None

VARIABLES
  phase,   \* how far each client's request has got
  asked,   \* the request of each client
  reply,   \* the reply the client has or is about to get
  granted  \* <<key, version>> pairs the downstream let everybody see

vars == <<phase, asked, reply, granted>>

NoReply == [status |-> "none", body |-> None]

\* The requests that count against the limit: from the call to the downstream
\* until the client's reply is ready, a failed call included.
InProgress == {c \in Clients : phase[c] \in {"origin", "answered", "failed"}}

\* Content a client may be given in place of an answer of the downstream.
Legit(k) == LET versions == {v \in Versions : <<k, v>> \in granted} IN
              versions \cup (IF versions = {} THEN {} ELSE {EmptyBody})

Turn(c, p) == phase' = [phase EXCEPT ![c] = p]

Init ==
  /\ phase = [c \in Clients |-> "away"]
  /\ asked = [c \in Clients |-> None]
  /\ reply = [c \in Clients |-> NoReply]
  /\ granted = {}

\* The failover of a slow URI may keep a request from the downstream, unless the
\* client bypasses the cache.
Ask(c) ==
  /\ phase[c] = "away"
  /\ \E p \in {"arrived", "fallback"} :
       /\ Turn(c, p)
       /\ \E k \in Keys, bypass \in BOOLEAN :
            /\ p = "fallback" => ~bypass
            /\ asked' = [asked EXCEPT ![c] = [key |-> k, bypass |-> bypass]]
  /\ UNCHANGED <<reply, granted>>

Forward(c) ==
  /\ phase[c] = "arrived"
  /\ Cardinality(InProgress) < Limit
  /\ Turn(c, "origin")
  /\ UNCHANGED <<asked, reply, granted>>

\* Only when the limit is used up: a request in failover or one turned away
\* itself does not count.
TurnAway(c) ==
  /\ phase[c] = "arrived"
  /\ Cardinality(InProgress) >= Limit
  /\ Turn(c, "fallback")
  /\ UNCHANGED <<asked, reply, granted>>

OriginAnswers(c) ==
  /\ phase[c] = "origin"
  /\ Turn(c, "answered")
  /\ \E status \in {"success", "failure"}, v \in Versions :
       /\ reply' = [reply EXCEPT ![c] = [status |-> status, body |-> v]]
       /\ granted' = IF status = "success" /\ ~asked[c].bypass
                       THEN granted \cup {<<asked[c].key, v>>} ELSE granted
  /\ UNCHANGED asked

OriginFails(c) ==
  /\ phase[c] = "origin"
  /\ Turn(c, "failed")
  /\ UNCHANGED <<asked, reply, granted>>

\* The answer is handed through, whole or broken off, and nothing else.
PassOn(c) ==
  /\ phase[c] = "answered"
  /\ \E p \in {"answered", "replied"} : Turn(c, p)
  /\ \E body \in {reply[c].body, EmptyBody} : reply' = [reply EXCEPT ![c].body = body]
  /\ UNCHANGED <<asked, granted>>

FallBack(c) ==
  /\ phase[c] \in {"fallback", "failed"}
  /\ Turn(c, "replied")
  /\ \/ \E body \in Legit(asked[c].key) :
          reply' = [reply EXCEPT ![c] = [status |-> "cached", body |-> body]]
     \/ \E status \in {"unavailable", "error"} :
          reply' = [reply EXCEPT ![c] = [status |-> status, body |-> None]]
  /\ UNCHANGED <<asked, granted>>

\* The reply is delivered, or the client goes away before.
Leave(c) ==
  /\ phase[c] # "away"
  /\ Turn(c, "away")
  /\ asked' = [asked EXCEPT ![c] = None]
  /\ reply' = [reply EXCEPT ![c] = NoReply]
  /\ UNCHANGED granted

Restart ==
  /\ phase' = [c \in Clients |-> "away"]
  /\ asked' = [c \in Clients |-> None]
  /\ reply' = [c \in Clients |-> NoReply]
  /\ UNCHANGED granted

Next ==
  \/ \E c \in Clients :
       \/ Ask(c) \/ Forward(c) \/ TurnAway(c) \/ OriginAnswers(c) \/ OriginFails(c)
       \/ PassOn(c) \/ FallBack(c) \/ Leave(c)
  \/ Restart

Spec == Init /\ [][Next]_vars

=============================================================================
