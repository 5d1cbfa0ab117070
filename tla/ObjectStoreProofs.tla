------------------------- MODULE ObjectStoreProofs --------------------------
(***************************************************************************)
(* Proofs about ObjectStore for any number of applications and keys, any   *)
(* of the three backends and any combination of faults.                    *)
(***************************************************************************)
EXTENDS ObjectStore, TLAPS

-----------------------------------------------------------------------------
(* Names and values *)

\* A key of an application has a name.
LEMMA NamesTyped == \A a \in Apps, k \in Keys : Name(a, k) \in Names
BY DEF Name, Names

\* Names tell keys apart, and applications, unless they are Azure's.
LEMMA NamesApart ==
  /\ \A a \in Apps, k, x \in Keys : Name(a, k) = Name(a, x) => k = x
  /\ backend # "azure" =>
       \A a, b \in Apps, k, x \in Keys : Name(a, k) = Name(b, x) => a = b
BY DEF Name

\* What is told apart in the values.
LEMMA Distinct ==
  /\ Self \in Apps /\ None \notin Contents /\ Torn \notin Contents /\ None # Torn
  /\ \A s \in Store : s # None
  /\ \A k \in Keys, c \in Contents : [key |-> k, response |-> c] # None
BY ObjectAssumption, StoreAssumption DEF ObjectAssumption

\* What a store in progress consists of.
LEMMA StoreFields ==
  ASSUME NEW s \in Store
  PROVE  s.key \in Keys /\ s.response \in Contents /\ s.file \in {"none", "linked", "unlinked"}
BY DEF Store

-----------------------------------------------------------------------------
(* Types *)

Typed ==
  /\ backend \in Backends
  /\ objects \in [Names -> Contents \cup {Torn, None}]
  /\ writing \in [Apps -> Store \cup {None}]
  /\ reading \in Load
  /\ purge \in [Apps -> Purge]
  /\ remains \subseteq Names
  /\ reading.found # None => reading.key # None

\* A file whose name is still there is torn until it is written.
LinkedIsTorn ==
  \A a \in Apps :
    writing[a] # None /\ writing[a].file = "linked"
      => backend = "local" /\ objects[Name(a, writing[a].key)] = Torn

\* Deleting a name leaves every store what it was, but for its open file.
LEMMA UnlinkedTyped ==
  ASSUME Typed, NEW n
  PROVE  /\ Unlinked(n) \in [Apps -> Store \cup {None}]
         /\ \A a \in Apps :
              /\ (Unlinked(n)[a] = None) <=> (writing[a] = None)
              /\ writing[a] # None =>
                   /\ Unlinked(n)[a].key = writing[a].key
                   /\ Unlinked(n)[a].response = writing[a].response
                   /\ Unlinked(n)[a].file = "linked" =>
                        writing[a].file = "linked" /\ Name(a, writing[a].key) # n
<1> SUFFICES ASSUME NEW a \in Apps
             PROVE  /\ Unlinked(n)[a] \in Store \cup {None}
                    /\ (Unlinked(n)[a] = None) <=> (writing[a] = None)
                    /\ writing[a] # None =>
                         /\ Unlinked(n)[a].key = writing[a].key
                         /\ Unlinked(n)[a].response = writing[a].response
                         /\ Unlinked(n)[a].file = "linked" =>
                              writing[a].file = "linked" /\ Name(a, writing[a].key) # n
  BY DEF Unlinked
<1>1. writing[a] \in Store \cup {None}
  BY DEF Typed
<1>2. CASE writing[a] # None /\ writing[a].file = "linked" /\ Name(a, writing[a].key) = n
  <2>1. Unlinked(n)[a] = [writing[a] EXCEPT !.file = "unlinked"] /\ writing[a] \in Store
    BY <1>1, <1>2 DEF Unlinked
  <2>2. [writing[a] EXCEPT !.file = "unlinked"] \in Store
    BY <2>1 DEF Store
  <2>3. /\ Unlinked(n)[a].key = writing[a].key
        /\ Unlinked(n)[a].response = writing[a].response
        /\ Unlinked(n)[a].file = "unlinked"
    BY <2>1 DEF Store
  <2> QED BY <1>2, <2>1, <2>2, <2>3, Distinct
<1>3. CASE ~ (writing[a] # None /\ writing[a].file = "linked" /\ Name(a, writing[a].key) = n)
  <2>1. Unlinked(n)[a] = writing[a]
    BY <1>3 DEF Unlinked
  <2> QED BY <1>1, <1>3, <2>1
<1> QED BY <1>2, <1>3

\* Completing an object leaves the objects typed.
LEMMA WriteTyped ==
  ASSUME Typed, NEW n, NEW c \in Contents \cup {Torn, None}, Write(n, c)
  PROVE  /\ objects' \in [Names -> Contents \cup {Torn, None}]
         /\ remains' \subseteq Names
BY DEF Typed, Write

\* Every step keeps the types.
LEMMA TypedStep == Typed /\ [Next]_vars => Typed'
<1> SUFFICES ASSUME Typed, [Next]_vars PROVE Typed'
  OBVIOUS
<1> USE NamesTyped, Distinct
<1>1. ASSUME NEW k \in Asked[Self], StartLoad(k) PROVE Typed'
  BY <1>1, ObjectAssumption DEF StartLoad, Typed, Load, NoRead, ObjectAssumption
<1>2. CASE Fetch \/ EndLoad
  <2>1. reading' \in Load /\ (reading'.found # None => reading'.key # None)
    <3>1. reading' \in {NoRead, [reading EXCEPT !.found = Entry(reading.key)]}
      BY <1>2 DEF Fetch, EndLoad
    <3>2. NoRead \in Load /\ NoRead.found = None
      BY DEF NoRead, Load
    <3>3. CASE reading' = [reading EXCEPT !.found = Entry(reading.key)] /\ Fetch
      <4>1. reading.key \in Keys /\ reading.key # None
        BY <3>3 DEF Fetch, Typed, Load
      <4>2. objects[Name(Self, reading.key)] \in Contents \cup {Torn, None}
        BY <4>1 DEF Typed
      <4>3. Entry(reading.key) \in Contents \cup {None}
        BY <4>2 DEF Entry
      <4> QED BY <3>3, <4>1, <4>3 DEF Typed, Load
    <3> QED BY <1>2, <3>1, <3>2, <3>3 DEF EndLoad
  <2> QED BY <1>2, <2>1 DEF Fetch, EndLoad, Typed
<1>3. ASSUME NEW a \in Apps, NEW k \in Asked[a], NEW c \in Contents, StartStore(a, k, c)
      PROVE  Typed'
  <2>1. [key |-> k, response |-> c, file |-> "none"] \in Store
    BY ObjectAssumption DEF Store, ObjectAssumption
  <2> QED BY <1>3, <2>1 DEF StartStore, Typed
<1>4. ASSUME NEW a \in Apps, Upload(a) \/ CreateFile(a) \/ WriteFile(a) PROVE Typed'
  <2>1. writing[a] \in Store
    BY <1>4 DEF Upload, CreateFile, WriteFile, Typed
  <2>2. writing[a].response \in Contents
    BY <2>1, StoreFields
  <2>3. objects' \in [Names -> Contents \cup {Torn, None}] /\ remains' \subseteq Names
    BY <1>4, <2>2, WriteTyped DEF Upload, CreateFile, WriteFile, Untouched, Typed
  <2>4. [writing[a] EXCEPT !.file = "linked"] \in Store
    BY <2>1 DEF Store
  <2>5. writing' \in [Apps -> Store \cup {None}]
    BY <1>4, <2>4 DEF Upload, CreateFile, WriteFile, EndStore, Typed
  <2> QED BY <1>4, <2>3, <2>5 DEF Upload, CreateFile, WriteFile, Typed
<1>5. ASSUME NEW a \in Apps, StartPurge(a) \/ ListPage(a) \/ EndPage(a) PROVE Typed'
  <2>1. purge[a] \in Purge /\ NoPurge \in Purge
    BY DEF Typed, NoPurge, Purge
  <2>2. Listed(a) \subseteq Names /\ Present \subseteq Names
    BY DEF Listed, Present
  <2>4. \A skipped \in BOOLEAN : Ended(skipped) \in Purge
    BY DEF Ended, NoPurge, Purge
  <2>3. purge' \in [Apps -> Purge] /\ remains' \subseteq Names
    <3>1. CASE StartPurge(a)
      <4>1. [NoPurge EXCEPT !.step = "list"] \in Purge
        BY DEF NoPurge, Purge
      <4> QED BY <2>2, <3>1, <4>1 DEF StartPurge, Typed
    <3>2. CASE ListPage(a)
      <4>1. CASE purge' = [purge EXCEPT ![a] = NoPurge]
        BY <2>1, <3>2, <4>1 DEF ListPage, Typed
      <4>2. ASSUME NEW page \in SUBSET (Listed(a) \ purge[a].passed),
                   NEW more \in BOOLEAN,
                   purge' = [purge EXCEPT ![a].step = "delete", ![a].todo = page,
                               ![a].passed = @ \cup page, ![a].more = more]
            PROVE  purge' \in [Apps -> Purge]
        <5>1. [purge[a] EXCEPT !.step = "delete", !.todo = page,
                               !.passed = purge[a].passed \cup page, !.more = more] \in Purge
          BY <2>1, <2>2 DEF Purge
        <5>2. purge' = [purge EXCEPT ![a] =
                 [purge[a] EXCEPT !.step = "delete", !.todo = page,
                               !.passed = purge[a].passed \cup page, !.more = more]]
          BY <4>2 DEF Typed
        <5> QED BY <5>1, <5>2 DEF Typed
      <4>3. CASE purge' = [purge EXCEPT ![a] = Ended(TRUE)]
        BY <2>4, <3>2, <4>3 DEF ListPage, Typed
      <4> QED BY <3>2, <4>1, <4>2, <4>3 DEF ListPage, Typed
    <3>3. CASE EndPage(a)
      <4>1. [purge[a] EXCEPT !.step = "list"] \in Purge /\ Ended(purge[a].skipped) \in Purge
        BY <2>1, <2>4 DEF Purge
      <4> QED BY <3>3, <4>1 DEF EndPage, Typed
    <3> QED BY <1>5, <3>1, <3>2, <3>3
  <2> QED BY <1>5, <2>3 DEF StartPurge, ListPage, EndPage, Typed
<1>6. ASSUME NEW a \in Apps, DeleteObject(a) PROVE Typed'
  <2>1. purge[a] \in Purge
    BY DEF Typed
  <2>2. PICK n \in purge[a].todo :
          \/ /\ Write(n, None)
             /\ writing' = Unlinked(n)
             /\ purge' = [purge EXCEPT ![a].todo = @ \ {n}]
          \/ /\ Untouched
             /\ purge' = [purge EXCEPT ![a].todo = @ \ {n}, ![a].skipped = TRUE]
             /\ UNCHANGED writing
    BY <1>6 DEF DeleteObject
  <2>3. /\ [purge[a] EXCEPT !.todo = purge[a].todo \ {n}] \in Purge
        /\ [purge[a] EXCEPT !.todo = purge[a].todo \ {n}, !.skipped = TRUE] \in Purge
    BY <2>1 DEF Purge
  <2>4. purge' \in [Apps -> Purge]
    <3>1. purge' \in {[purge EXCEPT ![a] = [purge[a] EXCEPT !.todo = purge[a].todo \ {n}]],
                      [purge EXCEPT ![a] = [purge[a] EXCEPT !.todo = purge[a].todo \ {n}, !.skipped = TRUE]]}
      BY <2>2 DEF Typed
    <3> QED BY <2>3, <3>1 DEF Typed
  <2>5. writing' \in [Apps -> Store \cup {None}]
    BY <2>2, UnlinkedTyped DEF Typed
  <2>6. objects' \in [Names -> Contents \cup {Torn, None}] /\ remains' \subseteq Names
    BY <2>2, WriteTyped DEF Untouched, Typed
  <2> QED BY <1>6, <2>4, <2>5, <2>6 DEF DeleteObject, Typed
<1>7. ASSUME NEW a \in Apps, Crash(a) PROVE Typed'
  <2>1. NoRead \in Load /\ NoRead.found = None /\ NoPurge \in Purge
    BY DEF NoRead, Load, NoPurge, Purge
  <2>2. writing[a] # None => writing[a].response \in Contents
    BY StoreFields DEF Typed
  <2>3. objects' \in [Names -> Contents \cup {Torn, None}] /\ remains' \subseteq Names
    BY <1>7, <2>2, WriteTyped DEF Crash, Untouched, Typed
  <2>4. writing' \in [Apps -> Store \cup {None}] /\ purge' \in [Apps -> Purge]
    BY <1>7, <2>1 DEF Crash, EndStore, Typed
  <2>5. reading' \in Load /\ (reading'.found # None => reading'.key # None)
    BY <1>7, <2>1 DEF Crash, Typed
  <2> QED BY <1>7, <2>3, <2>4, <2>5 DEF Crash, Typed
<1>8. CASE UNCHANGED vars
  BY <1>8 DEF vars, taskVars, Typed
<1> QED BY <1>1, <1>2, <1>3, <1>4, <1>5, <1>6, <1>7, <1>8 DEF Next


\* A step of one application that touches only files of its own keeps the files
\* of the others as they are.
LEMMA LinkedKeeps ==
  ASSUME Typed, LinkedIsTorn, NEW a \in Apps,
         UNCHANGED backend,
         \A b \in Apps \ {a} : writing'[b] = writing[b],
         \/ UNCHANGED objects
         \/ \E k \in Keys : \E c : Write(Name(a, k), c),
         writing'[a] # None /\ writing'[a].file = "linked" =>
           backend = "local" /\ objects'[Name(a, writing'[a].key)] = Torn
  PROVE  LinkedIsTorn'
<1>1. SUFFICES ASSUME NEW b \in Apps, writing'[b] # None, writing'[b].file = "linked"
               PROVE  backend = "local" /\ objects'[Name(b, writing'[b].key)] = Torn
  BY DEF LinkedIsTorn, Name
<1>2. CASE b = a
  BY <1>1, <1>2
<1>3. CASE b # a
  <2>1. /\ writing'[b] = writing[b] /\ backend = "local"
        /\ objects[Name(b, writing[b].key)] = Torn
        /\ writing[b].key \in Keys
    BY <1>1, <1>3, StoreFields DEF LinkedIsTorn, Typed
  <2>2. \A k \in Keys : Name(a, k) # Name(b, writing[b].key)
    BY <1>3, <2>1, NamesApart
  <2>3. objects'[Name(b, writing[b].key)] = objects[Name(b, writing[b].key)]
    BY <2>1, <2>2, NamesTyped DEF Typed, Write
  <2> QED BY <2>1, <2>3
<1> QED BY <1>2, <1>3

\* Every step keeps a file that is being written torn.
LEMMA LinkedStep == Typed /\ LinkedIsTorn /\ [Next]_vars => LinkedIsTorn'
<1> SUFFICES ASSUME Typed, LinkedIsTorn, [Next]_vars PROVE LinkedIsTorn'
  OBVIOUS
<1>fields. \A b \in Apps : writing[b] # None =>
             writing[b] \in Store /\ writing[b].key \in Keys
  BY StoreFields DEF Typed
<1>1. CASE UNCHANGED <<backend, objects, writing>>
  BY <1>1 DEF LinkedIsTorn, Name
<1>2. CASE \/ \E k \in Asked[Self] : StartLoad(k)
           \/ Fetch \/ EndLoad
           \/ \E a \in Apps : StartPurge(a) \/ ListPage(a) \/ EndPage(a)
           \/ UNCHANGED vars
  BY <1>1, <1>2 DEF StartLoad, Fetch, EndLoad, StartPurge, ListPage, EndPage, vars, taskVars
<1>3. ASSUME NEW a \in Apps, NEW k \in Asked[a], NEW c \in Contents, StartStore(a, k, c)
      PROVE  LinkedIsTorn'
  <2>1. /\ writing'[a].file = "none" /\ \A b \in Apps \ {a} : writing'[b] = writing[b]
        /\ UNCHANGED <<backend, objects>>
    BY <1>3 DEF StartStore, Typed
  <2> QED BY <2>1, LinkedKeeps
<1>4. ASSUME NEW a \in Apps, Upload(a) PROVE LinkedIsTorn'
  <2>1. \A b \in Apps : writing'[b] # None => writing'[b].file # "linked"
    BY <1>4 DEF Upload, EndStore, LinkedIsTorn, Typed
  <2> QED BY <2>1 DEF LinkedIsTorn
<1>5. ASSUME NEW a \in Apps, CreateFile(a) PROVE LinkedIsTorn'
  <2>1. /\ writing[a] # None /\ backend = "local" /\ UNCHANGED backend
        /\ writing[a] \in Store /\ writing[a].key \in Keys
    BY <1>5, <1>fields DEF CreateFile
  <2>2. CASE /\ Write(Name(a, writing[a].key), Torn)
             /\ writing' = [writing EXCEPT ![a].file = "linked"]
    <3>1. /\ writing'[a].key = writing[a].key
          /\ \A b \in Apps \ {a} : writing'[b] = writing[b]
      BY <2>1, <2>2 DEF Typed, Store
    <3>2. objects'[Name(a, writing[a].key)] = Torn
      BY <2>1, <2>2, NamesTyped DEF Write, Typed
    <3> QED BY <2>1, <2>2, <3>1, <3>2, LinkedKeeps
  <2>3. CASE Untouched /\ EndStore(a)
    <3>1. writing'[a] = None /\ \A b \in Apps \ {a} : writing'[b] = writing[b]
      BY <2>3 DEF EndStore, Typed
    <3> QED BY <2>1, <2>3, <3>1, LinkedKeeps DEF Untouched
  <2> QED BY <1>5, <2>2, <2>3 DEF CreateFile
<1>6. ASSUME NEW a \in Apps, WriteFile(a) \/ Crash(a) PROVE LinkedIsTorn'
  <2>1. /\ UNCHANGED backend
        /\ writing'[a] = None /\ \A b \in Apps \ {a} : writing'[b] = writing[b]
    BY <1>6 DEF WriteFile, Crash, EndStore, Typed
  <2>2. \/ UNCHANGED objects
        \/ writing[a] # None /\ Write(Name(a, writing[a].key), writing[a].response)
    BY <1>6 DEF WriteFile, Crash, Untouched
  <2> QED BY <1>fields, <2>1, <2>2, LinkedKeeps
<1>7. ASSUME NEW a \in Apps, DeleteObject(a) PROVE LinkedIsTorn'
  <2>1. PICK n \in purge[a].todo :
          \/ Write(n, None) /\ writing' = Unlinked(n)
          \/ Untouched /\ UNCHANGED writing
    BY <1>7 DEF DeleteObject
  <2>2. CASE Untouched /\ UNCHANGED writing
    BY <1>1, <1>7, <2>2 DEF DeleteObject, Untouched
  <2>3. CASE Write(n, None) /\ writing' = Unlinked(n)
    <3> SUFFICES ASSUME NEW b \in Apps, writing'[b] # None, writing'[b].file = "linked"
                 PROVE  backend = "local" /\ objects'[Name(b, writing'[b].key)] = Torn
      BY <1>7 DEF LinkedIsTorn, Name, DeleteObject
    <3>1. /\ writing[b] # None /\ writing[b].file = "linked"
          /\ writing'[b].key = writing[b].key /\ Name(b, writing[b].key) # n
      BY <2>3, UnlinkedTyped
    <3>2. objects'[Name(b, writing[b].key)] = objects[Name(b, writing[b].key)]
      BY <1>fields, <2>3, <3>1, NamesTyped DEF Write, Typed
    <3> QED BY <3>1, <3>2 DEF LinkedIsTorn
  <2> QED BY <2>1, <2>2, <2>3
<1> QED
  BY <1>2, <1>3, <1>4, <1>5, <1>6, <1>7 DEF Next

\* Both hold at the start.
LEMMA InitHolds == Init => Typed /\ LinkedIsTorn
<1>1. NoRead \in Load /\ NoRead.found = None /\ NoPurge \in Purge
  BY DEF NoRead, Load, NoPurge, Purge
<1> QED BY <1>1 DEF Init, Typed, LinkedIsTorn

\* Both hold in every state.
LEMMA Inductive == Spec => [](Typed /\ LinkedIsTorn)
BY InitHolds, TypedStep, LinkedStep, PTL DEF Spec

\* Types, and: a file that exists and is still being written loads as nothing,
\* whoever purges in between.
THEOREM TypeCorrect == Spec => []TypeOK
<1>1. Typed /\ LinkedIsTorn => TypeOK
  BY DEF Typed, LinkedIsTorn, TypeOK
<1> QED BY <1>1, Inductive, PTL

-----------------------------------------------------------------------------
(* A purge is complete. *)

\* The purge of Self follows what was there when it began through its pages:
\* nothing of it is on the pages that are done, and what is left is on this
\* page or on one to come.
PurgeInv ==
  LET p == purge[Self] IN
    /\ remains \subseteq Listed(Self)
    /\ ~p.skipped /\ p.step = "list" => remains \cap p.passed = {}
    /\ ~p.skipped /\ p.step = "delete" =>
         /\ remains \cap p.passed \subseteq p.todo
         /\ ~p.more => remains \subseteq p.passed
    /\ ~p.skipped /\ p.step = "done" => remains = {}

\* Whatever is written, what is left of Self's objects only shrinks, and lists.
LEMMA RemainsShrink ==
  ASSUME Typed, remains \subseteq Listed(Self), UNCHANGED backend,
         Untouched \/ \E n, c : Write(n, c)
  PROVE  remains' \subseteq remains /\ remains' \subseteq Listed(Self)'
<1>1. CASE Untouched
  BY <1>1 DEF Untouched, Listed, Present
<1>2. ASSUME NEW n, NEW c, Write(n, c)
      PROVE  remains' \subseteq remains /\ remains' \subseteq Listed(Self)'
  <2>1. \A m \in Names \ {n} : objects'[m] = objects[m]
    BY <1>2 DEF Write, Typed
  <2> QED BY <1>2, <2>1 DEF Write, Listed, Present
<1> QED BY <1>1, <1>2

\* Every step keeps what a purge still has to delete on its list.
LEMMA PurgeStep == Typed /\ PurgeInv /\ [Next]_vars => PurgeInv'
<1> SUFFICES ASSUME Typed, PurgeInv, [Next]_vars PROVE PurgeInv'
  OBVIOUS
<1>self. Self \in Apps
  BY Distinct
<1>keep. ASSUME UNCHANGED <<backend, purge>>, Untouched \/ \E n, c : Write(n, c)
         PROVE  PurgeInv'
  <2>1. remains' \subseteq remains /\ remains' \subseteq Listed(Self)'
    BY <1>keep, RemainsShrink DEF PurgeInv
  <2> QED BY <1>keep, <2>1 DEF PurgeInv
<1>other. ASSUME UNCHANGED backend, purge'[Self] = purge[Self],
                 Untouched \/ \E n, c : Write(n, c)
          PROVE  PurgeInv'
  <2>1. remains' \subseteq remains /\ remains' \subseteq Listed(Self)'
    BY <1>other, RemainsShrink DEF PurgeInv
  <2> QED BY <1>other, <2>1 DEF PurgeInv
<1>1. CASE \/ \E k \in Asked[Self] : StartLoad(k)
           \/ Fetch \/ EndLoad
           \/ \E a \in Apps : \/ \E k \in Asked[a], c \in Contents : StartStore(a, k, c)
                              \/ Upload(a) \/ CreateFile(a) \/ WriteFile(a)
           \/ UNCHANGED vars
  BY <1>1, <1>keep DEF StartLoad, Fetch, EndLoad, StartStore, Upload, CreateFile, WriteFile,
     Untouched, vars, taskVars
<1>2. ASSUME NEW a \in Apps, a # Self,
             StartPurge(a) \/ ListPage(a) \/ DeleteObject(a) \/ EndPage(a) \/ Crash(a)
      PROVE  PurgeInv'
  <2>1. /\ UNCHANGED backend /\ purge'[Self] = purge[Self]
        /\ Untouched \/ \E n, c : Write(n, c)
    BY <1>2, <1>self DEF StartPurge, ListPage, DeleteObject, EndPage, Crash, Untouched, Typed
  <2> QED BY <1>other, <2>1
<1>3. CASE StartPurge(Self)
  <2>1. /\ purge'[Self].step = "list" /\ purge'[Self].passed = {}
        /\ remains' = Present \cap {Name(Self, k) : k \in Keys}
        /\ UNCHANGED <<backend, objects>>
    BY <1>3, <1>self DEF StartPurge, NoPurge, Typed
  <2>2. \A k \in Keys : backend = "azure" \/ Name(Self, k)[1] = Self
    BY DEF Name
  <2>3. remains' \subseteq Listed(Self)'
    BY <2>1, <2>2 DEF Listed, Present
  <2> QED BY <2>1, <2>3 DEF PurgeInv
<1>4. CASE ListPage(Self)
  <2>1. UNCHANGED <<backend, objects, remains>>
    BY <1>4 DEF ListPage
  <2>2. Listed(Self)' = Listed(Self)
    BY <2>1 DEF Listed, Present
  <2>3. CASE purge' = [purge EXCEPT ![Self] = NoPurge]
    BY <1>self, <2>1, <2>2, <2>3 DEF PurgeInv, NoPurge, Typed
  <2>4. ASSUME NEW page \in SUBSET (Listed(Self) \ purge[Self].passed), NEW more,
               more = (Listed(Self) \ (purge[Self].passed \cup page) # {}),
               purge' = [purge EXCEPT
                 ![Self].step = "delete", ![Self].todo = page,
                 ![Self].passed = @ \cup page, ![Self].more = more]
        PROVE  PurgeInv'
    <3>1. /\ purge'[Self].step = "delete" /\ purge'[Self].todo = page
          /\ purge'[Self].passed = purge[Self].passed \cup page
          /\ purge'[Self].more = more /\ purge'[Self].skipped = purge[Self].skipped
      BY <1>self, <2>4 DEF Typed, Purge
    <3>2. ~purge[Self].skipped => remains \cap purge[Self].passed = {}
      BY <1>4 DEF PurgeInv, ListPage
    <3>3. remains \subseteq Listed(Self)
      BY DEF PurgeInv
    <3>4. ~more => remains \subseteq purge[Self].passed \cup page
      BY <2>4, <3>3
    <3>5. ~purge[Self].skipped => remains \cap (purge[Self].passed \cup page) \subseteq page
      BY <3>2
    <3> QED BY <2>1, <2>2, <3>1, <3>3, <3>4, <3>5 DEF PurgeInv
  <2>5. CASE purge' = [purge EXCEPT ![Self] = Ended(TRUE)]
    <3>1. purge'[Self].skipped
      BY <1>self, <2>5 DEF Typed, Ended, NoPurge
    <3> QED BY <2>1, <2>2, <3>1 DEF PurgeInv
  <2> QED BY <1>4, <2>3, <2>4, <2>5 DEF ListPage
<1>5. CASE DeleteObject(Self)
  <2>1. PICK n \in purge[Self].todo :
          \/ Write(n, None) /\ purge' = [purge EXCEPT ![Self].todo = @ \ {n}]
          \/ Untouched /\ purge' = [purge EXCEPT ![Self].todo = @ \ {n}, ![Self].skipped = TRUE]
    BY <1>5 DEF DeleteObject
  <2>2. remains' \subseteq remains /\ remains' \subseteq Listed(Self)' /\ UNCHANGED backend
    BY <1>5, <2>1, RemainsShrink DEF PurgeInv, DeleteObject
  <2>3. CASE Write(n, None) /\ purge' = [purge EXCEPT ![Self].todo = @ \ {n}]
    <3>1. /\ purge'[Self].step = "delete" /\ purge'[Self].todo = purge[Self].todo \ {n}
          /\ purge'[Self].passed = purge[Self].passed
          /\ purge'[Self].more = purge[Self].more /\ purge'[Self].skipped = purge[Self].skipped
      BY <1>5, <1>self, <2>3 DEF DeleteObject, Typed, Purge
    <3>2. remains' = remains \ {n}
      BY <2>3 DEF Write
    <3> QED BY <1>5, <2>2, <3>1, <3>2 DEF PurgeInv, DeleteObject
  <2>4. CASE purge' = [purge EXCEPT ![Self].todo = @ \ {n}, ![Self].skipped = TRUE]
    <3>1. purge'[Self].skipped
      BY <1>self, <2>4 DEF Typed, Purge
    <3> QED BY <2>2, <3>1 DEF PurgeInv
  <2> QED BY <2>1, <2>3, <2>4
<1>6. CASE EndPage(Self)
  <2>1. /\ purge[Self].step = "delete" /\ purge[Self].todo = {}
        /\ UNCHANGED <<backend, objects, remains>>
    BY <1>6 DEF EndPage
  <2>2. remains' \subseteq Listed(Self)'
    BY <2>1 DEF PurgeInv, Listed, Present
  <2>3. CASE purge[Self].more
    <3>1. /\ purge'[Self].step = "list" /\ purge'[Self].passed = purge[Self].passed
          /\ purge'[Self].skipped = purge[Self].skipped
      BY <1>6, <1>self, <2>3 DEF EndPage, Typed, Purge
    <3> QED BY <2>1, <2>2, <3>1 DEF PurgeInv
  <2>4. CASE ~purge[Self].more
    <3>1. purge'[Self] = Ended(purge[Self].skipped)
      BY <1>6, <1>self, <2>4 DEF EndPage, Typed
    <3>2. purge'[Self].step = "done" /\ purge'[Self].skipped = purge[Self].skipped
      BY <3>1 DEF Ended, NoPurge
    <3> QED BY <2>1, <2>2, <2>4, <3>2 DEF PurgeInv
  <2> QED BY <2>3, <2>4
<1>7. CASE Crash(Self)
  <2>1. /\ purge'[Self].step = "idle" /\ UNCHANGED backend
        /\ Untouched \/ \E n, c : Write(n, c)
    BY <1>7, <1>self DEF Crash, NoPurge, Typed
  <2>2. remains' \subseteq Listed(Self)'
    BY <2>1, RemainsShrink DEF PurgeInv
  <2> QED BY <2>1, <2>2 DEF PurgeInv
<1> QED
  BY <1>1, <1>2, <1>3, <1>4, <1>5, <1>6, <1>7 DEF Next

\* delete_all_from_cache that ends with Ok and has passed over no failed call has
\* left nothing behind, in each of the three backends and however many pages it
\* took.
THEOREM PurgesAreComplete == Spec => []PurgeIsComplete
<1>1. Init => PurgeInv
  <2> SUFFICES ASSUME Init PROVE PurgeInv
    OBVIOUS
  <2>1. purge[Self].step = "idle" /\ remains = {}
    BY Distinct DEF Init, NoPurge
  <2> QED BY <2>1 DEF PurgeInv
<1>2. PurgeInv => PurgeIsComplete
  BY DEF PurgeInv, PurgeIsComplete
<1> QED BY <1>1, <1>2, PurgeStep, Inductive, PTL DEF Spec

-----------------------------------------------------------------------------
(* Nobody else deletes the objects of Self. *)

\* No other application has listed a name of Self; in Azure there is no other.
Spares(a, n) == a = Self \/ (backend # "azure" /\ n[1] # Self)
OwnObjects   == \A a \in Apps : \A n \in purge[a].todo : Spares(a, n)

\* Every step keeps the objects of Self off the lists of the others.
LEMMA OwnStep == Apart /\ Typed /\ OwnObjects /\ [Next]_vars => OwnObjects'
<1> SUFFICES ASSUME Apart, Typed, OwnObjects, [Next]_vars PROVE OwnObjects'
  OBVIOUS
<1>keep. ASSUME UNCHANGED backend, NEW a \in Apps,
                \A b \in Apps \ {a} : purge'[b] = purge[b],
                \A n \in purge'[a].todo : Spares(a, n)
         PROVE  OwnObjects'
  BY <1>keep DEF OwnObjects, Spares
<1>1. CASE UNCHANGED <<backend, purge>>
  BY <1>1 DEF OwnObjects, Spares
<1>2. CASE \/ \E k \in Asked[Self] : StartLoad(k)
           \/ Fetch \/ EndLoad
           \/ \E a \in Apps : \/ \E k \in Asked[a], c \in Contents : StartStore(a, k, c)
                              \/ Upload(a) \/ CreateFile(a) \/ WriteFile(a)
           \/ UNCHANGED vars
  BY <1>1, <1>2 DEF StartLoad, Fetch, EndLoad, StartStore, Upload, CreateFile, WriteFile,
     vars, taskVars
<1>3. ASSUME NEW a \in Apps, Active(a), ListPage(a) PROVE OwnObjects'
  <2>1. /\ UNCHANGED backend /\ \A b \in Apps \ {a} : purge'[b] = purge[b]
        /\ purge'[a].todo \subseteq purge[a].todo \cup Listed(a)
    <3>1. UNCHANGED backend /\ purge[a] \in Purge
      BY <1>3 DEF ListPage, Typed
    <3>2. CASE purge' = [purge EXCEPT ![a] = NoPurge]
      BY <3>1, <3>2 DEF NoPurge, Typed
    <3>3. ASSUME NEW page \in SUBSET (Listed(a) \ purge[a].passed), NEW more,
                 purge' = [purge EXCEPT ![a].step = "delete", ![a].todo = page,
                             ![a].passed = @ \cup page, ![a].more = more]
          PROVE  /\ \A b \in Apps \ {a} : purge'[b] = purge[b]
                 /\ purge'[a].todo \subseteq Listed(a)
      BY <3>1, <3>3 DEF Typed, Purge
    <3>4. CASE purge' = [purge EXCEPT ![a] = Ended(TRUE)]
      BY <3>1, <3>4 DEF Ended, NoPurge, Typed
    <3> QED BY <1>3, <3>1, <3>2, <3>3, <3>4 DEF ListPage
  <2>2. backend = "azure" => a = Self
    BY <1>3 DEF Active, Apart
  <2>3. \A n \in Listed(a) : Spares(a, n)
    BY <2>2 DEF Listed, Spares, Apart
  <2> QED BY <1>keep, <2>1, <2>3 DEF OwnObjects
<1>4. ASSUME NEW a \in Apps, StartPurge(a) \/ DeleteObject(a) \/ EndPage(a) \/ Crash(a)
      PROVE  OwnObjects'
  <2>1. /\ UNCHANGED backend /\ \A b \in Apps \ {a} : purge'[b] = purge[b]
        /\ purge'[a].todo \subseteq purge[a].todo
    <3>1. purge[a] \in Purge
      BY DEF Typed
    <3>2. CASE StartPurge(a) \/ Crash(a)
      BY <3>2 DEF StartPurge, Crash, NoPurge, Typed
    <3>3. CASE DeleteObject(a)
      <4>1. PICK n \in purge[a].todo :
              \/ purge' = [purge EXCEPT ![a].todo = @ \ {n}]
              \/ purge' = [purge EXCEPT ![a].todo = @ \ {n}, ![a].skipped = TRUE]
        BY <3>3 DEF DeleteObject
      <4> QED BY <3>1, <3>3, <4>1 DEF DeleteObject, Typed, Purge
    <3>4. CASE EndPage(a)
      <4>1. UNCHANGED backend /\ \A b \in Apps \ {a} : purge'[b] = purge[b]
        BY <3>4 DEF EndPage, Typed
      <4>2. purge'[a].todo \subseteq purge[a].todo
        BY <3>1, <3>4 DEF EndPage, Ended, NoPurge, Typed, Purge
      <4> QED BY <4>1, <4>2
    <3> QED BY <1>4, <3>2, <3>3, <3>4
  <2> QED BY <1>keep, <2>1 DEF OwnObjects
<1> QED
  BY <1>2, <1>3, <1>4 DEF Next

\* Applications that are kept apart never touch the objects of Self.
LEMMA OwnAlways == ASSUME Apart PROVE Spec => []OwnObjects
<1>1. Init => OwnObjects
  BY DEF Init, OwnObjects, NoPurge
<1>2. Typed /\ OwnObjects /\ [Next]_vars => OwnObjects'
  BY OwnStep
<1> QED BY <1>1, <1>2, Inductive, PTL DEF Spec

\* What a write does to the entries of Self: one to the object of a key changes
\* that entry, one to any other object none.
LEMMA EntryWritten ==
  ASSUME Typed, NEW k \in Keys, NEW c, Write(Name(Self, k), c), UNCHANGED backend
  PROVE  /\ Stored' = [Stored EXCEPT ![k] = IF c = Torn THEN None ELSE c]
         /\ \A x \in Keys \ {k} : Entry(x)' = Entry(x)
<1>1. \A x \in Keys :
        objects'[Name(Self, x)] = IF x = k THEN c ELSE objects[Name(Self, x)]
  BY NamesTyped, NamesApart, Distinct DEF Write, Typed
<1>2. \A x \in Keys :
        Entry(x)' = IF x = k THEN (IF c = Torn THEN None ELSE c) ELSE Entry(x)
  BY <1>1 DEF Entry, Name
<1> QED BY <1>2 DEF Stored

\* What changes another application's objects changes no entry of this one.
LEMMA EntriesUntouched ==
  ASSUME Typed, UNCHANGED backend,
         \/ UNCHANGED objects
         \/ \E n, c : Write(n, c) /\ \A k \in Keys : n # Name(Self, k)
  PROVE  Stored' = Stored /\ \A k \in Keys : Entry(k)' = Entry(k)
<1>1. \A k \in Keys : objects'[Name(Self, k)] = objects[Name(Self, k)]
  BY NamesTyped, Distinct DEF Write, Typed
<1>2. \A k \in Keys : Entry(k)' = Entry(k)
  BY <1>1 DEF Entry, Name
<1> QED BY <1>2 DEF Stored

\* What the others do is nothing to Self.
LEMMA OthersStayAway ==
  ASSUME Apart, Typed, OwnObjects, NEW a \in Apps \ {Self}, Active(a),
         \/ \E k \in Asked[a], c \in Contents : StartStore(a, k, c)
         \/ Upload(a) \/ CreateFile(a) \/ WriteFile(a)
         \/ StartPurge(a) \/ ListPage(a) \/ DeleteObject(a) \/ EndPage(a)
         \/ Crash(a)
  PROVE  UNCHANGED <<Stored, Writing, Reading>> /\ \A k \in Keys : Entry(k)' = Entry(k)
<1>1. backend # "azure" /\ Self \in Apps /\ UNCHANGED <<backend, reading>>
  BY Distinct DEF Active, Apart, StartStore, Upload, CreateFile, WriteFile, StartPurge, ListPage,
     DeleteObject, EndPage, Crash
<1>2. \/ UNCHANGED objects
      \/ \E n, c : Write(n, c) /\ \A k \in Keys : n # Name(Self, k)
  <2>1. \A k, x \in Keys : Name(a, x) # Name(Self, k)
    BY <1>1, NamesApart
  <2>2. writing[a] # None => writing[a].key \in Keys
    BY StoreFields DEF Typed
  <2>3. CASE DeleteObject(a)
    <3>1. PICK n \in purge[a].todo : Untouched \/ Write(n, None)
      BY <2>3 DEF DeleteObject
    <3>2. \A k \in Keys : n # Name(Self, k)
      BY <1>1 DEF OwnObjects, Spares, Name
    <3> QED BY <3>1, <3>2 DEF Untouched
  <2>4. CASE ~DeleteObject(a)
    BY <2>1, <2>2, <2>4 DEF StartStore, Upload, CreateFile, WriteFile, StartPurge, ListPage,
       EndPage, Crash, Untouched
  <2> QED BY <2>3, <2>4
<1>3. UNCHANGED Writing
  <2>1. CASE DeleteObject(a)
    <3>1. UNCHANGED writing \/ \E n : writing' = Unlinked(n)
      BY <2>1 DEF DeleteObject
    <3> QED BY <1>1, <3>1, UnlinkedTyped DEF Writing
  <2>2. CASE ~DeleteObject(a)
    <3>1. writing'[Self] = writing[Self]
      BY <1>1, <2>2 DEF StartStore, Upload, CreateFile, WriteFile, StartPurge, ListPage,
         EndPage, Crash, EndStore, Typed
    <3> QED BY <3>1 DEF Writing
  <2> QED BY <2>1, <2>2
<1> QED
  BY <1>1, <1>2, <1>3, EntriesUntouched DEF Reading

\* In none of the three backends does an application lose what it has cached to
\* another one, if an Azure container has one application and no other app_id is
\* the beginning of its own.
THEOREM PurgesStayHome == ASSUME Apart PROVE Spec => PurgeStaysHome
<1> DEFINE Home == \A k \in Keys : Entry(k) # None /\ Entry(k)' = None =>
                     \/ purge[Self].step = "delete"
                     \/ writing[Self] # None /\ writing[Self].key = k
<1>1. Typed /\ OwnObjects /\ [Next]_vars => [Home]_vars
  <2> SUFFICES ASSUME Typed, OwnObjects, [Next]_vars, purge[Self].step # "delete"
               PROVE  \A k \in Keys : Entry(k) # None /\ Entry(k)' = None =>
                        writing[Self] # None /\ writing[Self].key = k
    OBVIOUS
  <2>1. CASE UNCHANGED <<backend, objects>>
    BY <2>1, EntriesUntouched
  <2>2. CASE \/ \E k \in Asked[Self] : StartLoad(k)
             \/ Fetch \/ EndLoad
             \/ \E k \in Asked[Self], c \in Contents : StartStore(Self, k, c)
             \/ StartPurge(Self) \/ ListPage(Self) \/ EndPage(Self)
             \/ UNCHANGED vars
    BY <2>1, <2>2 DEF StartLoad, Fetch, EndLoad, StartStore, StartPurge, ListPage, EndPage,
       vars, taskVars
  <2>3. CASE Upload(Self) \/ CreateFile(Self) \/ WriteFile(Self) \/ Crash(Self)
    <3>1. \/ Untouched
          \/ writing[Self] # None /\ \E c : Write(Name(Self, writing[Self].key), c)
      BY <2>3 DEF Upload, CreateFile, WriteFile, Crash
    <3>2. UNCHANGED backend
      BY <2>3 DEF Upload, CreateFile, WriteFile, Crash
    <3>3. writing[Self] # None => writing[Self].key \in Keys
      BY StoreFields, Distinct DEF Typed
    <3> QED BY <2>1, <3>1, <3>2, <3>3, EntryWritten DEF Untouched
  <2>4. CASE DeleteObject(Self)
    BY <2>4 DEF DeleteObject
  <2>5. ASSUME NEW a \in Apps \ {Self}, Active(a),
               \/ \E k \in Asked[a], c \in Contents : StartStore(a, k, c)
               \/ Upload(a) \/ CreateFile(a) \/ WriteFile(a)
               \/ StartPurge(a) \/ ListPage(a) \/ DeleteObject(a) \/ EndPage(a)
               \/ Crash(a)
        PROVE  \A k \in Keys : Entry(k)' = Entry(k)
    BY <2>5, OthersStayAway
  <2> QED BY <2>2, <2>3, <2>4, <2>5 DEF Next
<1> QED
  BY <1>1, OwnAlways, Inductive, PTL DEF Spec, PurgeStaysHome

-----------------------------------------------------------------------------
(* ObjectStore implements CacheBackend. *)

\* A step of the store is a step of the backend, or one it does not see.
LEMMA BackendStep ==
  ASSUME Apart, Typed, LinkedIsTorn, OwnObjects, [Next]_vars
  PROVE  [Backend!Next]_(Backend!vars)
<1>same. ASSUME UNCHANGED <<Stored, Writing, Reading>> PROVE [Backend!Next]_(Backend!vars)
  BY <1>same DEF Backend!vars
<1>self. Self \in Apps /\ Self \in {Self} /\ Asked[Self] \subseteq Keys
  BY ObjectAssumption DEF ObjectAssumption
<1>store. writing[Self] # None =>
            /\ writing[Self] \in Store /\ writing[Self].key \in Keys
            /\ writing[Self].response \in Contents
            /\ Writing = [key |-> writing[Self].key, response |-> writing[Self].response]
            /\ Writing # None
  BY <1>self, StoreFields, Distinct DEF Typed, Writing
<1>load. Reading \in [{Self} -> Load] /\ Reading[Self] = reading
  BY DEF Typed, Reading
<1>ended. ASSUME UNCHANGED Reading, writing[Self] # None, writing'[Self] = None,
                 \/ UNCHANGED Stored
                 \/ Stored' = [Stored EXCEPT ![writing[Self].key] = writing[Self].response]
          PROVE  [Backend!Next]_(Backend!vars)
  <2>1. Writing' = None
    BY <1>ended DEF Writing
  <2>2. Backend!EndStore
    BY <1>ended, <1>store, <2>1 DEF Backend!EndStore, Backend!TakesEffect
  <2> QED BY <2>2 DEF Backend!Next
<1>removed. ASSUME NEW k \in Keys, UNCHANGED <<Writing, Reading>>,
                   Stored' = [Stored EXCEPT ![k] = None]
            PROVE  [Backend!Next]_(Backend!vars)
  <2>1. Backend!Delete(k)
    BY <1>removed DEF Backend!Delete
  <2> QED BY <2>1 DEF Backend!Next
<1>1. ASSUME NEW k \in Asked[Self], StartLoad(k) PROVE [Backend!Next]_(Backend!vars)
  <2>1. /\ Reading[Self] = [key |-> None, found |-> None]
        /\ Reading' = [Reading EXCEPT ![Self].key = k]
        /\ UNCHANGED <<Stored, Writing>>
    BY <1>1 DEF StartLoad, Reading, NoRead, Stored, Writing, Entry, Name
  <2>2. Backend!StartLoad(Self, k)
    BY <2>1 DEF Backend!StartLoad, Backend!Idle
  <2> QED BY <1>self, <2>2 DEF Backend!Next
<1>2. ASSUME reading' = NoRead, UNCHANGED <<backend, objects, writing>>
      PROVE  [Backend!Next]_(Backend!vars)
  <2>1. Reading' = [Reading EXCEPT ![Self] = [key |-> None, found |-> None]]
        /\ UNCHANGED <<Stored, Writing>>
    BY <1>2 DEF Reading, NoRead, Stored, Writing, Entry, Name
  <2>2. Backend!EndLoad(Self)
    BY <2>1 DEF Backend!EndLoad, Backend!Idle
  <2> QED BY <1>self, <2>2 DEF Backend!Next
<1>3. CASE Fetch
  <2>1. CASE /\ Entry(reading.key) # None
             /\ reading' = [reading EXCEPT !.found = Entry(reading.key)]
    <3>1. reading.key \in Keys /\ reading.key # None /\ reading.found = None
      BY <1>3 DEF Fetch, Typed, Load
    <3>2. Stored[reading.key] = Entry(reading.key)
      BY <3>1 DEF Stored
    <3>3. /\ Reading' = [Reading EXCEPT ![Self].found = Entry(reading.key)]
          /\ UNCHANGED <<Stored, Writing>>
      BY <1>3, <2>1 DEF Fetch, Reading, Stored, Writing, Entry, Name
    <3>4. Backend!Find(Self)
      BY <1>load, <2>1, <3>1, <3>2, <3>3 DEF Backend!Find
    <3> QED BY <1>self, <3>4 DEF Backend!Next
  <2> QED BY <1>2, <1>3, <2>1 DEF Fetch
<1>4. CASE EndLoad
  BY <1>2, <1>4 DEF EndLoad
<1>5. ASSUME NEW k \in Asked[Self], NEW c \in Contents, StartStore(Self, k, c)
      PROVE  [Backend!Next]_(Backend!vars)
  <2>1. [key |-> k, response |-> c, file |-> "none"] \in Store
    BY <1>self DEF Store
  <2>2. Writing = None /\ Writing' = [key |-> k, response |-> c]
        /\ UNCHANGED <<Stored, Reading>>
    BY <1>5, <1>self, <2>1, Distinct DEF StartStore, Writing, Stored, Reading, Entry, Name, Typed
  <2>3. Backend!StartStore(k, c)
    BY <2>2 DEF Backend!StartStore
  <2> QED BY <1>self, <2>3 DEF Backend!Next
<1>6. CASE Upload(Self) \/ WriteFile(Self)
  <2>1. /\ writing[Self] # None /\ writing'[Self] = None
        /\ UNCHANGED backend /\ UNCHANGED Reading
    BY <1>6, <1>self DEF Upload, WriteFile, EndStore, Typed, Reading
  <2>2. UNCHANGED objects \/ Write(Name(Self, writing[Self].key), writing[Self].response)
    BY <1>6 DEF Upload, WriteFile, Untouched
  <2>3. writing[Self].key \in Keys /\ writing[Self].response # Torn
    BY <1>store, <2>1, Distinct
  <2> QED BY <1>ended, <2>1, <2>2, <2>3, EntryWritten, EntriesUntouched
<1>7. CASE CreateFile(Self)
  <2>1. /\ writing[Self] # None /\ UNCHANGED <<backend, Reading>>
        /\ writing[Self].key \in Keys
    BY <1>7, <1>store DEF CreateFile, Reading
  <2>2. CASE /\ Write(Name(Self, writing[Self].key), Torn)
             /\ writing' = [writing EXCEPT ![Self].file = "linked"]
    <3>1. Stored' = [Stored EXCEPT ![writing[Self].key] = None]
      BY <2>1, <2>2, EntryWritten
    <3>2. /\ writing'[Self] \in Store /\ writing'[Self].key = writing[Self].key
          /\ writing'[Self].response = writing[Self].response
      BY <1>self, <1>store, <2>1, <2>2 DEF Typed, Store
    <3>3. UNCHANGED Writing
      BY <2>1, <3>2, Distinct DEF Writing
    <3> QED BY <1>removed, <2>1, <3>1, <3>3
  <2>3. CASE Untouched /\ EndStore(Self)
    <3>1. writing'[Self] = None /\ UNCHANGED objects
      BY <1>self, <2>3 DEF EndStore, Untouched, Typed
    <3> QED BY <1>ended, <2>1, <3>1, EntriesUntouched
  <2> QED BY <1>7, <2>2, <2>3 DEF CreateFile
<1>8. CASE StartPurge(Self) \/ ListPage(Self) \/ EndPage(Self) \/ UNCHANGED vars
  <2>1. UNCHANGED <<backend, objects, writing, reading>>
    BY <1>8 DEF StartPurge, ListPage, EndPage, vars, taskVars
  <2> QED BY <1>same, <2>1 DEF Stored, Writing, Reading, Entry, Name
<1>9. CASE DeleteObject(Self)
  <2>1. PICK n \in purge[Self].todo :
          \/ Write(n, None) /\ writing' = Unlinked(n)
          \/ Untouched /\ UNCHANGED writing
    BY <1>9 DEF DeleteObject
  <2>2. UNCHANGED <<backend, Reading>>
    BY <1>9 DEF DeleteObject, Reading
  <2>3. UNCHANGED Writing
    BY <1>self, <2>1, UnlinkedTyped DEF Writing
  <2>4. ASSUME NEW k \in Keys, n = Name(Self, k), Write(n, None)
        PROVE  [Backend!Next]_(Backend!vars)
    <3>1. Stored' = [Stored EXCEPT ![k] = None]
      BY <2>2, <2>4, EntryWritten, Distinct
    <3> QED BY <1>removed, <2>2, <2>3, <3>1
  <2>5. CASE Untouched \/ \A k \in Keys : n # Name(Self, k)
    <3>1. UNCHANGED Stored
      BY <2>1, <2>2, <2>5, EntriesUntouched DEF Untouched
    <3> QED BY <1>same, <2>2, <2>3, <3>1
  <2> QED BY <2>1, <2>4, <2>5
<1>10. CASE Crash(Self)
  <2>1. /\ writing'[Self] = None /\ reading' = NoRead /\ UNCHANGED backend
    BY <1>10, <1>self DEF Crash, EndStore, Typed
  <2>2. Writing' = None /\ Reading' = [r \in {Self} |-> [key |-> None, found |-> None]]
    BY <2>1 DEF Writing, Reading, NoRead
  <2>3. \/ UNCHANGED objects
        \/ writing[Self] # None /\ Write(Name(Self, writing[Self].key), writing[Self].response)
    BY <1>10 DEF Crash, Untouched
  <2>4. writing[Self] # None => writing[Self].response # Torn
    BY <1>store, Distinct
  <2>5. \/ UNCHANGED Stored
        \/ /\ Writing # None
           /\ Stored' = [Stored EXCEPT ![Writing.key] = Writing.response]
    <3>1. CASE UNCHANGED objects
      BY <2>1, <3>1, EntriesUntouched
    <3>2. CASE writing[Self] # None /\ Write(Name(Self, writing[Self].key), writing[Self].response)
      BY <1>store, <2>1, <2>4, <3>2, EntryWritten
    <3> QED BY <2>3, <3>1, <3>2
  <2>6. Backend!Stop
    BY <2>2, <2>5 DEF Backend!Stop, Backend!TakesEffect, Backend!Idle
  <2> QED BY <2>6 DEF Backend!Next
<1>11. ASSUME NEW a \in Apps \ {Self}, Active(a),
              \/ \E k \in Asked[a], c \in Contents : StartStore(a, k, c)
              \/ Upload(a) \/ CreateFile(a) \/ WriteFile(a)
              \/ StartPurge(a) \/ ListPage(a) \/ DeleteObject(a) \/ EndPage(a)
              \/ Crash(a)
       PROVE  [Backend!Next]_(Backend!vars)
  BY <1>same, <1>11, OthersStayAway
<1> QED
  BY <1>1, <1>3, <1>4, <1>5, <1>6, <1>7, <1>8, <1>9, <1>10, <1>11 DEF Next

\* GCS, the local file system and an Azure container of one's own give the proxy
\* what it relies on in every backend: whatever this application and the others
\* do, its entries behave as a register per key which only it fills.
THEOREM ObjectsImplementBackend == ASSUME Apart PROVE Spec => ImplementsBackend
<1>1. Init => Backend!Init
  <2> SUFFICES ASSUME Init PROVE Backend!Init
    OBVIOUS
  <2>1. \A k \in Keys : Entry(k) = None
    BY NamesTyped, Distinct DEF Init, Entry
  <2>2. Stored = [k \in Keys |-> None]
    BY <2>1 DEF Stored
  <2>3. Writing = None /\ Reading = [r \in {Self} |-> [key |-> None, found |-> None]]
    BY Distinct DEF Init, Writing, Reading, NoRead
  <2> QED BY <2>2, <2>3 DEF Backend!Init, Backend!Idle
<1>2. Typed /\ LinkedIsTorn /\ OwnObjects /\ [Next]_vars => [Backend!Next]_(Backend!vars)
  BY BackendStep
<1> QED
  BY <1>1, <1>2, Inductive, OwnAlways, PTL DEF Spec, ImplementsBackend, Backend!Spec

=============================================================================
