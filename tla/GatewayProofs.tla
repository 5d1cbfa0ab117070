---------------------------- MODULE GatewayProofs ----------------------------
(***************************************************************************)
(* ProxyHandler implements Gateway, for any number of handlers, keys and   *)
(* contents, any limit and any combination of faults.                      *)
(***************************************************************************)
EXTENDS ProxyHandlerProofs

-----------------------------------------------------------------------------
(* What clients and downstream see of a handler. *)

Phases  == [r \in Requests |-> Phase(r)]
Replies == [r \in Requests |-> Reply(r)]

\* The phase of each state of a handler.
LEMMA PhaseTable ==
  /\ PhaseOf["idle"] = "away" /\ PhaseOf["acquire"] = "arrived"
  /\ PhaseOf["forward"] = "origin" /\ PhaseOf["respond"] = "replied"
  /\ \A p \in {"answered", "body", "store", "send"} : PhaseOf[p] = "answered"
  /\ \A p \in {"overload", "cache", "load", "fill"} : PhaseOf[p] = "fallback"
BY DEF PhaseOf

\* A handler that the step of another one leaves alone.
Untouched(s) == pc'[s] = pc[s] /\ resp'[s] = resp[s] /\ (s \in holders' <=> s \in holders)

\* A step of one handler changes at most its own session.
LEMMA OneSession ==
  ASSUME NEW r \in Requests, NEW p, Phase(r)' = p, \A s \in Requests \ {r} : Untouched(s)
  PROVE  /\ Service!Turn(r, p)
         /\ Replies' = [Replies EXCEPT ![r] = Reply(r)']
         /\ Phases[r] = Phase(r) /\ Replies[r] = Reply(r)
<1>1. \A s \in Requests \ {r} : Phase(s)' = Phase(s) /\ Reply(s)' = Reply(s)
  BY DEF Untouched, Phase, Reply
<1> QED BY <1>1 DEF Service!Turn, Phases, Replies

\* A handler that returns a response replies with its status and its body.
LEMMA AnswerReplies ==
  ASSUME IInv, NEW r \in Requests, NEW status, NEW body, Answer(r, status, body)
  PROVE  /\ Service!Turn(r, "replied")
         /\ Replies' = [Replies EXCEPT ![r] = [status |-> status, body |-> body]]
         /\ UNCHANGED req
<1>1. pc \in [Requests -> PCs] /\ resp \in [Requests -> Response]
  BY DEF IInv, RequestInv
<1>2. /\ pc'[r] = "respond" /\ req' = req
      /\ resp'[r] = [NoResp EXCEPT !.status = status, !.body = body]
      /\ \A s \in Requests \ {r} : Untouched(s)
  BY <1>1 DEF Answer, Goto, ReleasePermit, Untouched
<1>3. resp'[r].status = status /\ resp'[r].body = body
  BY <1>2 DEF NoResp
<1>4. PhaseOf[pc'[r]] = "replied" /\ Phase(r)' = "replied"
  BY <1>2, PhaseTable DEF Phase
<1>5. Reply(r)' = [status |-> status, body |-> body]
  BY <1>3, <1>4 DEF Reply
<1> QED BY <1>2, <1>4, <1>5, OneSession

\* A handler that goes on without a response the client could see changes the
\* phase of its session only.
LEMMA MoveTurns ==
  ASSUME IInv, NEW r \in Requests, NEW label, NEW p,
         Goto(r, label), Phase(r)' = p,
         UNCHANGED req,
         \A s \in Requests \ {r} :
           resp'[s] = resp[s] /\ (s \in holders' <=> s \in holders),
         Reply(r)' = Reply(r)
  PROVE  Service!Turn(r, p) /\ UNCHANGED Replies
<1>1. pc \in [Requests -> PCs]
  BY DEF IInv, RequestInv
<1>2. /\ pc'[r] = label
      /\ \A s \in Requests \ {r} : Untouched(s)
  BY <1>1 DEF Goto, Untouched
<1>3. Replies' = [Replies EXCEPT ![r] = Replies[r]]
  BY <1>2, OneSession
<1>4. Replies' = Replies
  BY <1>3 DEF Replies
<1> QED BY <1>2, <1>4, OneSession

\* A turn into the phase a session is in anyway changes nothing.
LEMMA SamePhase ==
  ASSUME NEW r \in Requests, NEW p, Phase(r) = p, Service!Turn(r, p)
  PROVE  UNCHANGED Phases
BY DEF Service!Turn, Phases

\* Gateway and ProxyHandler agree on what may be served for a key.
LEMMA SameLegit == \A k : Service!Legit(k) = Legit(k)
BY DEF Service!Legit, Legit

\* A handler that falls back replies with an error or with legitimate content.
LEMMA FallsBack ==
  ASSUME IInv, NEW r \in Requests, pc[r] \in {"overload", "cache", "load", "fill"},
         NEW status, NEW body, Answer(r, status, body), UNCHANGED granted,
         \/ status = "cached" /\ body \in Legit(req[r].key)
         \/ status \in {"unavailable", "error"} /\ body = None
  PROVE  Service!FallBack(r)
<1>1. /\ Service!Turn(r, "replied")
      /\ Replies' = [Replies EXCEPT ![r] = [status |-> status, body |-> body]]
      /\ UNCHANGED req
  BY AnswerReplies
<1>2. Phases[r] \in {"fallback", "failed"}
  BY PhaseTable DEF Phases, Phase
<1> QED BY <1>1, <1>2, SameLegit DEF Service!FallBack, Phases, Replies

\* Gateway counts as FiniteSets does.
LEMMA SameCardinality == \A S : Service!Cardinality(S) = Cardinality(S)
BY DEF Service!Cardinality, Cardinality

\* Gateway's requests in progress are the owners of permits.
LEMMA PermitsAreTheLimit ==
  ASSUME IInv
  PROVE  /\ permits > 0 => Service!Cardinality(Service!InProgress) < MaxConcurrentRequests
         /\ permits = 0 => Service!Cardinality(Service!InProgress) >= MaxConcurrentRequests
<1>1. /\ permits \in Nat /\ MaxConcurrentRequests \in Nat
      /\ IsFiniteSet(holders) /\ Cardinality(holders) \in Nat
      /\ permits + Cardinality(holders) = MaxConcurrentRequests
  BY HoldersFinite, ConstantsAssumption DEF IInv, RequestInv, ConstantsAssumption
<1>2. Service!InProgress \subseteq holders
  <2> SUFFICES ASSUME NEW r \in Requests, Phase(r) \in {"origin", "answered", "failed"}
               PROVE  r \in holders
    BY DEF Service!InProgress
  <2>1. CASE PhaseOf[pc[r]] \in {"origin", "answered"}
    <3>1. pc[r] \in Admitted
      BY <2>1, PhaseTable DEF IInv, RequestInv, PCs, Admitted
    <3> QED BY <3>1 DEF IInv, RequestInv
  <2>2. PhaseOf[pc[r]] # "failed"
    BY PhaseTable DEF IInv, RequestInv, PCs
  <2> QED BY <2>1, <2>2 DEF Phase
<1>3. holders \subseteq Service!InProgress
  <2> SUFFICES ASSUME NEW r \in holders
               PROVE  r \in Requests /\ Phase(r) \in {"origin", "answered", "failed"}
    BY DEF Service!InProgress
  <2>1. r \in Requests /\ pc[r] \in PCs \ Outside
    BY DEF IInv, RequestInv
  <2> QED BY <2>1, PhaseTable DEF PCs, Outside, Phase
<1> QED BY <1>1, <1>2, <1>3, SameCardinality

-----------------------------------------------------------------------------
(* Every step of the proxy is a step of Gateway or one that nobody outside sees. *)

\* A request comes in.
LEMMA ArriveIsAsk == ASSUME IInv, NEW r \in Requests, Arrive(r) PROVE Service!Ask(r)
<1>1. /\ pc \in [Requests -> PCs] /\ pc[r] = "idle" /\ r \notin holders
      /\ UNCHANGED <<resp, holders, granted>>
  BY DEF IInv, RequestInv, Arrive, Outside
<1>2. PICK k \in Keys, bypass, refresh \in BOOLEAN :
        /\ req' = [req EXCEPT ![r] = [key |-> k, bypass |-> bypass]]
        /\ Goto(r, IF should_failover(UriOf[k]) /\ ~(refresh \/ bypass)
                     THEN "cache" ELSE "acquire")
  BY DEF Arrive
<1>3. PICK label \in {"cache", "acquire"} :
        /\ Goto(r, label)
        /\ label = "cache" => ~bypass
  BY <1>2
<1>4. PICK p \in {"arrived", "fallback"} : PhaseOf[label] = p /\ (p = "fallback" => ~bypass)
  BY <1>3, PhaseTable
<1>5. pc'[r] = label /\ \A s \in Requests \ {r} : Untouched(s)
  BY <1>1, <1>3 DEF Goto, Untouched
<1>phase. Phase(r)' = p
  BY <1>1, <1>4, <1>5 DEF Phase
<1>6. Reply(r)' = Reply(r)
  BY <1>1, <1>4, <1>5, PhaseTable DEF Reply
<1>7. Replies' = [Replies EXCEPT ![r] = Replies[r]] /\ Service!Turn(r, p)
  BY <1>phase, <1>5, <1>6, OneSession
<1>8. Replies' = Replies
  BY <1>7 DEF Replies
<1>9. Phases[r] = "away"
  BY <1>1, PhaseTable DEF Phases, Phase
<1> QED
  BY <1>1, <1>2, <1>4, <1>7, <1>8, <1>9 DEF Service!Ask, Phases, Replies

\* The semaphore decides between the downstream and the cache.
LEMMA AcquireIsForwardOrTurnAway ==
  ASSUME IInv, NEW r \in Requests, TryAcquire(r)
  PROVE  Service!Forward(r) \/ Service!TurnAway(r)
<1>1. /\ pc \in [Requests -> PCs] /\ pc[r] = "acquire" /\ r \notin holders
      /\ UNCHANGED <<req, resp, granted>>
      /\ \A s \in Requests \ {r} : s \in holders' <=> s \in holders
  BY DEF IInv, RequestInv, TryAcquire, Outside
<1>2. Phases[r] = "arrived"
  BY <1>1, PhaseTable DEF Phases, Phase
<1>3. PICK label \in {"forward", "overload"} :
        /\ Goto(r, label)
        /\ label = "forward" => permits > 0
        /\ label = "overload" => permits = 0 /\ UNCHANGED holders
  BY DEF TryAcquire
<1>4. pc'[r] = label
  BY <1>1, <1>3 DEF Goto
<1>5. Reply(r)' = Reply(r)
  BY <1>1, <1>4, PhaseTable DEF Reply
<1>6. CASE label = "forward"
  <2>0. Phase(r)' = "origin"
    BY <1>4, <1>6, PhaseTable DEF Phase
  <2>1. Service!Turn(r, "origin") /\ UNCHANGED Replies
    BY <1>1, <1>3, <1>5, <1>6, <2>0, MoveTurns
  <2> QED
    BY <1>1, <1>2, <1>3, <1>6, <2>1, PermitsAreTheLimit DEF Service!Forward, Phases, Replies
<1>7. CASE label = "overload"
  <2>0. Phase(r)' = "fallback"
    BY <1>1, <1>3, <1>4, <1>7, PhaseTable DEF Phase
  <2>1. Service!Turn(r, "fallback") /\ UNCHANGED Replies
    BY <1>1, <1>3, <1>5, <1>7, <2>0, MoveTurns
  <2> QED
    BY <1>1, <1>2, <1>3, <1>7, <2>1, PermitsAreTheLimit DEF Service!TurnAway, Phases, Replies
<1> QED BY <1>6, <1>7

\* The downstream answers.
LEMMA AnswerIsAnswer ==
  ASSUME IInv, NEW r \in Requests, OriginAnswers(r) PROVE Service!OriginAnswers(r)
<1>1. /\ pc \in [Requests -> PCs] /\ resp \in [Requests -> Response]
      /\ pc[r] = "forward" /\ Goto(r, "answered") /\ UNCHANGED <<req, holders>>
  BY DEF IInv, RequestInv, OriginAnswers
<1>2. PICK status \in {"success", "failure"}, version \in Versions :
        /\ resp' = [resp EXCEPT ![r] = [NoResp EXCEPT !.status = status, !.body = version]]
        /\ granted' = IF status = "success" /\ ~req[r].bypass
                        THEN granted \cup {<<req[r].key, version>>} ELSE granted
  BY DEF OriginAnswers
<1>3. /\ pc'[r] = "answered"
      /\ \A s \in Requests \ {r} : Untouched(s)
      /\ resp'[r].status = status /\ resp'[r].body = version
  BY <1>1, <1>2 DEF Goto, NoResp, Untouched
<1>4. Phase(r)' = "answered" /\ Phase(r) = "origin"
  BY <1>1, <1>3, PhaseTable DEF Phase
<1>5. Reply(r)' = [status |-> status, body |-> version]
  BY <1>3, PhaseTable DEF Reply
<1>6. /\ Service!Turn(r, "answered") /\ Phases[r] = "origin"
      /\ Replies' = [Replies EXCEPT ![r] = [status |-> status, body |-> version]]
  BY <1>3, <1>4, <1>5, OneSession
<1> QED
  BY <1>1, <1>2, <1>6 DEF Service!OriginAnswers, Phases, Replies

\* The response is read: its body may break off, nothing else happens to it.
LEMMA ReadIsPassOn == ASSUME IInv, NEW r \in Requests, ReadBody(r) PROVE Service!PassOn(r)
<1>1. /\ pc \in [Requests -> PCs] /\ resp \in [Requests -> Response]
      /\ pc[r] = "body" /\ UNCHANGED granted
  BY DEF IInv, RequestInv, ReadBody
<1>2. PhaseOf[pc[r]] = "answered"
  BY <1>1, PhaseTable
<1>3. Phases[r] = "answered" /\ Replies[r] = [status |-> resp[r].status, body |-> resp[r].body]
  BY <1>2 DEF Phases, Phase, Replies, Reply
<1>4. PICK body \in {resp[r].body, EmptyBody} :
        \/ /\ resp' = [resp EXCEPT ![r].body = body, ![r].slow = FALSE]
           /\ Goto(r, "store")
           /\ UNCHANGED <<req, holders>>
        \/ Answer(r, resp[r].status, body)
  BY DEF ReadBody
<1>5. body \in {Replies[r].body, EmptyBody}
  BY <1>3, <1>4
<1>6. ASSUME NEW p \in {"answered", "replied"}, Service!Turn(r, p), UNCHANGED req,
             Replies' = [Replies EXCEPT ![r] = [status |-> resp[r].status, body |-> body]]
      PROVE  Service!PassOn(r)
  <2>1. [Replies[r] EXCEPT !.body = body] = [status |-> resp[r].status, body |-> body]
    BY <1>3
  <2>2. Replies' = [Replies EXCEPT ![r] = [Replies[r] EXCEPT !.body = body]]
    BY <1>6, <2>1
  <2> QED
    BY <1>1, <1>3, <1>5, <1>6, <2>2 DEF Service!PassOn, Phases, Replies
<1>7. CASE Answer(r, resp[r].status, body)
  BY <1>6, <1>7, AnswerReplies
<1>8. CASE /\ resp' = [resp EXCEPT ![r].body = body, ![r].slow = FALSE]
           /\ Goto(r, "store")
           /\ UNCHANGED <<req, holders>>
  <2>1. /\ pc'[r] = "store"
        /\ \A s \in Requests \ {r} : Untouched(s)
        /\ resp'[r].status = resp[r].status /\ resp'[r].body = body
    BY <1>1, <1>8 DEF Goto, Response, Untouched
  <2>2. PhaseOf[pc'[r]] = "answered" /\ Phase(r)' = "answered"
    BY <2>1, PhaseTable DEF Phase
  <2>3. Reply(r)' = [status |-> resp[r].status, body |-> body]
    BY <2>1, <2>2 DEF Reply
  <2> QED BY <1>6, <1>8, <2>1, <2>2, <2>3, OneSession
<1> QED BY <1>4, <1>7, <1>8

\* What was cached is returned once there is room in the channel.
LEMMA SendIsPassOn == ASSUME IInv, NEW r \in Requests, SendToWriter(r) PROVE Service!PassOn(r)
<1>1. /\ pc \in [Requests -> PCs] /\ resp \in [Requests -> Response]
      /\ pc[r] = "send" /\ UNCHANGED granted /\ Answer(r, resp[r].status, resp[r].body)
  BY DEF IInv, RequestInv, SendToWriter
<1>2. PhaseOf[pc[r]] = "answered"
  BY <1>1, PhaseTable
<1>3. Phases[r] = "answered" /\ Replies[r] = [status |-> resp[r].status, body |-> resp[r].body]
  BY <1>2 DEF Phases, Phase, Replies, Reply
<1>4. /\ Service!Turn(r, "replied") /\ UNCHANGED req
      /\ Replies' = [Replies EXCEPT ![r] = [status |-> resp[r].status, body |-> resp[r].body]]
  BY <1>1, AnswerReplies
<1>5. Replies' = [Replies EXCEPT ![r].body = Replies[r].body]
  BY <1>3, <1>4 DEF Replies
<1> QED BY <1>1, <1>3, <1>4, <1>5 DEF Service!PassOn, Phases, Replies

\* The request is over, or its client has gone.
LEMMA FinishIsLeave ==
  ASSUME IInv, NEW r \in Requests, pc[r] # "idle", Finish(r), UNCHANGED granted
  PROVE  Service!Leave(r)
<1>1. /\ pc \in [Requests -> PCs] /\ resp \in [Requests -> Response]
  BY DEF IInv, RequestInv
<1>2. /\ pc'[r] = "idle" /\ req' = [req EXCEPT ![r] = None]
      /\ \A s \in Requests \ {r} : Untouched(s)
  BY <1>1 DEF Finish, Goto, ReleasePermit, Untouched
<1>3. PhaseOf[pc'[r]] = "away" /\ Phase(r)' = "away"
  BY <1>2, PhaseTable DEF Phase
<1>4. Reply(r)' = [status |-> "none", body |-> None]
  BY <1>3 DEF Reply
<1>5. /\ Service!Turn(r, "away")
      /\ Replies' = [Replies EXCEPT ![r] = [status |-> "none", body |-> None]]
  BY <1>2, <1>3, <1>4, OneSession
<1>6. Phases[r] # "away"
  <2>1. PhaseOf[pc[r]] # "away"
    BY <1>1, PhaseTable DEF PCs
  <2> QED BY <2>1 DEF Phases, Phase
<1> QED
  BY <1>2, <1>5, <1>6 DEF Service!Leave, Service!NoReply, Phases, Replies

\* Restarting ends all sessions.
LEMMA CrashIsRestart == ASSUME Crash PROVE Service!Restart
<1>1. \A r \in Requests : pc'[r] = "idle"
  BY DEF Crash
<1>2. \A r \in Requests :
        Phase(r)' = "away" /\ Reply(r)' = [status |-> "none", body |-> None]
  BY <1>1, PhaseTable DEF Phase, Reply
<1>3. /\ Phases' = [r \in Requests |-> "away"]
      /\ Replies' = [r \in Requests |-> [status |-> "none", body |-> None]]
  BY <1>2 DEF Phases, Replies
<1> QED BY <1>3 DEF Crash, Service!Restart, Service!NoReply, Phases, Replies

\* Steps of a handler between two moments that its client or the downstream
\* could tell apart.
LEMMA HiddenSteps ==
  ASSUME IInv, NEW r \in Requests, NEW label, NEW p, Goto(r, label),
         PhaseOf[label] = p, PhaseOf[pc[r]] = p,
         Reply(r)' = Reply(r),
         UNCHANGED <<req, holders, granted>>,
         \A s \in Requests \ {r} : resp'[s] = resp[s]
  PROVE  UNCHANGED Service!vars
<1>0. Phase(r)' = Phase(r)
  BY DEF IInv, RequestInv, Goto, Phase
<1>1. Service!Turn(r, Phase(r)) /\ UNCHANGED Replies
  BY <1>0, MoveTurns
<1>2. UNCHANGED Phases
  BY <1>1, SamePhase
<1> QED BY <1>1, <1>2 DEF Service!vars, Phases, Replies

\* What a fallback may serve has been granted.
LEMMA FallbackStep ==
  ASSUME IInv, ContentInv, NEW r \in Requests,
         ServeOverload(r) \/ LookupMemory(r) \/ LoadFromStorage(r) \/ FillMemory(r)
  PROVE  Service!FallBack(r) \/ UNCHANGED Service!vars
<1>0. /\ pc \in [Requests -> PCs] /\ resp \in [Requests -> Response]
      /\ UNCHANGED granted
      /\ pc[r] \in {"overload", "cache", "load", "fill"}
  BY DEF IInv, RequestInv, ServeOverload, LookupMemory, LoadFromStorage, FillMemory
<1>1. req[r].key \in Keys
  BY <1>0, HandlerTyped
<1>2. memory[req[r].key] # None => memory[req[r].key] \in Legit(req[r].key)
  BY <1>1 DEF ContentInv, CachesClean
<1>3. pc[r] = "fill" => resp[r].body \in Legit(req[r].key)
  BY DEF ContentInv, Clean
<1>served. ASSUME NEW body \in Legit(req[r].key), Answer(r, "cached", body)
           PROVE  Service!FallBack(r)
  BY <1>0, <1>served, FallsBack
<1>failed. ASSUME NEW status \in {"unavailable", "error"}, Answer(r, status, None)
           PROVE  Service!FallBack(r)
  BY <1>0, <1>failed, FallsBack
<1>hidden. ASSUME NEW label \in {"load", "fill"}, Goto(r, label), UNCHANGED <<req, holders>>,
                  \A s \in Requests \ {r} : resp'[s] = resp[s]
           PROVE  UNCHANGED Service!vars
  <2>1. PhaseOf[label] = "fallback" /\ PhaseOf[pc[r]] = "fallback"
    BY <1>0, <1>hidden, PhaseTable
  <2>2. pc'[r] = label
    BY <1>0, <1>hidden DEF Goto
  <2>3. Reply(r)' = Reply(r)
    BY <2>1, <2>2 DEF Reply
  <2> QED BY <1>0, <1>hidden, <2>1, <2>3, HiddenSteps
<1>4. CASE ServeOverload(r)
  BY <1>2, <1>4, <1>served, <1>failed DEF ServeOverload, get_from_memory
<1>5. CASE LookupMemory(r)
  BY <1>2, <1>5, <1>served, <1>hidden DEF LookupMemory, get_from_memory
<1>6. CASE LoadFromStorage(r)
  <2>1. CASE Answer(r, NothingLoaded, None) \/ Answer(r, "unavailable", None)
    BY <2>1, <1>failed DEF NothingLoaded
  <2>2. CASE /\ resp' = [resp EXCEPT ![r].body = stored[req[r].key]]
             /\ Goto(r, "fill")
             /\ UNCHANGED <<req, holders>>
    BY <1>0, <2>2, <1>hidden
  <2> QED BY <1>6, <2>1, <2>2 DEF LoadFromStorage
<1>7. CASE FillMemory(r)
  BY <1>3, <1>7, <1>served DEF FillMemory
<1> QED BY <1>4, <1>5, <1>6, <1>7

\* The head of a response is measured, the response is put into memory: neither
\* changes what the client gets.
LEMMA AnsweredStep ==
  ASSUME IInv, NEW r \in Requests, ReceiveHead(r) \/ StoreInMemory(r)
  PROVE  UNCHANGED Service!vars
<1>0. /\ pc \in [Requests -> PCs] /\ resp \in [Requests -> Response]
      /\ UNCHANGED <<req, holders, granted>>
  BY DEF IInv, RequestInv, ReceiveHead, StoreInMemory
<1>1. PICK label \in {"body", "send"} :
        Goto(r, label) /\ pc[r] \in {"answered", "store"}
  BY DEF ReceiveHead, StoreInMemory
<1>2. PhaseOf[label] = "answered" /\ PhaseOf[pc[r]] = "answered"
  BY <1>1, PhaseTable
<1>3. /\ pc'[r] = label
      /\ resp'[r].status = resp[r].status /\ resp'[r].body = resp[r].body
      /\ \A s \in Requests \ {r} : resp'[s] = resp[s]
  BY <1>0, <1>1 DEF Goto, ReceiveHead, StoreInMemory, Response
<1>4. Reply(r)' = Reply(r)
  BY <1>2, <1>3 DEF Reply
<1> QED BY <1>0, <1>1, <1>2, <1>3, <1>4, HiddenSteps

\* The downstream cannot be reached.
LEMMA FailureIsFailure ==
  ASSUME IInv, NEW r \in Requests, ForwardFails(r) PROVE Service!OriginFails(r)
<1>1. /\ pc \in [Requests -> PCs] /\ pc[r] = "forward" /\ Goto(r, "cache") /\ r \in holders
      /\ UNCHANGED <<req, resp, holders, granted>>
  BY DEF IInv, RequestInv, Admitted, ForwardFails
<1>2. Phases[r] = "origin" /\ Phase(r)' = "failed"
  BY <1>1, PhaseTable DEF Phases, Phase, Goto
<1>3. Reply(r)' = Reply(r)
  BY <1>1, PhaseTable DEF Reply, Goto
<1>4. Service!Turn(r, "failed") /\ UNCHANGED Replies
  BY <1>1, <1>2, <1>3, MoveTurns
<1> QED BY <1>1, <1>2, <1>4 DEF Service!OriginFails, Phases, Replies

\* Each step maps to a step or a stutter.
LEMMA ServiceStep == IInv /\ ContentInv /\ [Next]_vars => [Service!Next]_(Service!vars)
<1> SUFFICES ASSUME IInv, ContentInv, [Next]_vars PROVE [Service!Next]_(Service!vars)
  OBVIOUS
<1>1. ASSUME NEW r \in Requests, Client(r) \/ Handler(r) \/ Downstream(r)
      PROVE  \/ \/ Service!Ask(r) \/ Service!Forward(r) \/ Service!TurnAway(r)
                \/ Service!OriginAnswers(r) \/ Service!OriginFails(r)
                \/ Service!PassOn(r) \/ Service!FallBack(r) \/ Service!Leave(r)
             \/ UNCHANGED Service!vars
  <2>1. CASE Respond(r) \/ Disconnect(r)
    <3>1. pc[r] # "idle" /\ Finish(r) /\ UNCHANGED granted
      BY <2>1 DEF Respond, Disconnect
    <3> QED BY <3>1, FinishIsLeave
  <2> QED
    BY <1>1, <2>1, ArriveIsAsk, AcquireIsForwardOrTurnAway, AnswerIsAnswer, FailureIsFailure,
       ReadIsPassOn, SendIsPassOn, FallbackStep, AnsweredStep DEF Client, Handler, Downstream
<1>2. CASE Crash
  BY <1>2, CrashIsRestart DEF Service!Next
<1>3. CASE \/ CacheWriter \/ BackgroundEvict
           \/ \E a \in Admins : Invalidate(a) \/ Purger(a) \/ AdminDisconnect(a)
           \/ \E uri \in Uris : WindowExpires(uri)
           \/ UNCHANGED vars
  <2>1. UNCHANGED requestVars /\ UNCHANGED granted
    BY <1>3 DEF CacheWriter, WriterReceive, WriterStore, BackgroundEvict, Invalidate,
       Purger, ListObjects, DeleteObject, FinishInvalidate, AdminDisconnect,
       WindowExpires, vars
  <2> QED BY <2>1 DEF requestVars, Service!vars, Phase, Reply
<1>4. CASE \E r \in Requests : Client(r) \/ Handler(r) \/ Downstream(r)
  BY <1>1, <1>4 DEF Service!Next
<1> QED BY <1>2, <1>3, <1>4 DEF Next

\* CacheBolt is the gateway that Gateway describes: with every handler, purge,
\* eviction, crash and fault there is, a client sees its own answer of the
\* downstream or granted content of its own key or an error, and the
\* downstream sees each request at most once and never too many.
THEOREM ProxyImplementsGateway == Spec => ImplementsGateway
<1>1. Init => Service!Init
  <2> SUFFICES ASSUME Init PROVE Service!Init
    OBVIOUS
  <2>1. \A r \in Requests :
          Phase(r) = "away" /\ Reply(r) = [status |-> "none", body |-> None]
    BY PhaseTable DEF Init, Phase, Reply
  <2> QED BY <2>1 DEF Init, Service!Init, Service!NoReply
<1>2. Init => ContentInv
  BY DEF Init, ContentInv, CachesClean, QueueClean, Clean, NoResp
<1>3. IInv /\ ContentInv /\ [Next]_vars => ContentInv'
  BY HandlersStayClean, CachesStayClean, QueueStaysClean DEF ContentInv
<1> QED
  BY <1>1, <1>2, <1>3, ServiceStep, Inductive, PTL DEF Spec, ImplementsGateway, Service!Spec

=============================================================================
