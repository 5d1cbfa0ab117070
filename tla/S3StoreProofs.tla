--------------------------- MODULE S3StoreProofs ----------------------------
(***************************************************************************)
(* Theorems about S3Store, for any sets of keys, readers and purgers, any  *)
(* number of responses and any faults.                                     *)
(***************************************************************************)
EXTENDS S3Store, TLAPS

\* The type invariant, action by action: an upload, a load and a purge change
\* only what is theirs.
THEOREM TypeCorrect == Spec => []TypeOK
<1>1. Init => TypeOK
  BY StoreAssumption DEF Init, TypeOK, StoreAssumption, NoLoad, NoPurge, Load, Purge
<1>2. TypeOK /\ [Next]_vars => TypeOK'
  <2> SUFFICES ASSUME TypeOK, [Next]_vars PROVE TypeOK'
    OBVIOUS
  <2> USE StoreAssumption, UploadAssumption DEF StoreAssumption, TypeOK
  <2>0. /\ \A k \in Keys : Body(k) \in Objects /\ Meta(k) \in Objects
        /\ upload # None => /\ upload.key \in Keys /\ upload.response \in Responses
                            /\ upload.response # None
    BY DEF Objects, Kinds, Body, Meta, Upload
  <2>write. ASSUME NEW o \in Objects, NEW v \in Responses \cup {None}, Write(o, v)
            PROVE  /\ bucket' \in [Objects -> Responses \cup {None}]
                   /\ remains' \in [Purgers -> SUBSET Objects]
                   /\ disturbed' \subseteq Readers
    BY <2>write DEF Write, Loading
  <2>1. ASSUME NEW k \in Keys, StartStore(k) PROVE TypeOK'
    BY <2>1 DEF StartStore, Upload, Responses
  <2>2. CASE StoreHead
    BY <2>2 DEF StoreHead, Upload
  <2>3. CASE PutBody
    <3>1. upload' \in Upload \cup {None} /\ unsettled' \subseteq Keys
      BY <2>0, <2>3 DEF PutBody, Upload
    <3>2. /\ bucket' \in [Objects -> Responses \cup {None}]
          /\ remains' \in [Purgers -> SUBSET Objects]
          /\ disturbed' \subseteq Readers
      BY <2>0, <2>3, <2>write DEF PutBody, Untouched
    <3> QED BY <2>3, <3>1, <3>2 DEF PutBody
  <2>4. CASE PutMeta
    <3>1. upload' = None /\ unsettled' \subseteq Keys
      BY <2>0, <2>4 DEF PutMeta
    <3>2. /\ bucket' \in [Objects -> Responses \cup {None}]
          /\ remains' \in [Purgers -> SUBSET Objects]
          /\ disturbed' \subseteq Readers
      BY <2>0, <2>4, <2>write DEF PutMeta, Untouched
    <3> QED BY <2>4, <3>1, <3>2 DEF PutMeta
  <2>5. ASSUME NEW r \in Readers, NEW k \in Keys, StartLoad(r, k) PROVE TypeOK'
    BY <2>5 DEF StartLoad, NoLoad, Load
  <2>6. ASSUME NEW r \in Readers, LoadHead(r) PROVE TypeOK'
    <3>1. CASE load' = [load EXCEPT ![r].step = "body"]
      BY <2>6, <3>1 DEF LoadHead, Load
    <3>2. CASE load' = [load EXCEPT ![r] = NoLoad]
      BY <2>6, <3>2 DEF LoadHead, NoLoad, Load
    <3> QED BY <2>6, <3>1, <3>2 DEF LoadHead
  <2>7. ASSUME NEW r \in Readers, GetBody(r) PROVE TypeOK'
    <3>1. load[r].key \in Keys
      BY <2>7 DEF GetBody, Load
    <3>2. bucket[Body(load[r].key)] \in Responses \cup {None}
      BY <2>0, <3>1
    <3> QED BY <2>7, <3>1, <3>2 DEF GetBody, NoLoad, Load
  <2>8. ASSUME NEW r \in Readers, GetMeta(r) PROVE TypeOK'
    <3>1. load[r].key \in Keys
      BY <2>8 DEF GetMeta, Load
    <3>2. bucket[Meta(load[r].key)] \in Responses \cup {None}
      BY <2>0, <3>1
    <3>3. PICK headers \in Responses \cup {None} :
            load' = [load EXCEPT ![r].step = "done", ![r].headers = headers]
      BY <2>8, <3>2 DEF GetMeta
    <3>4. load' \in [Readers -> Load]
      <4>1. [load[r] EXCEPT !.step = "done", !.headers = headers] \in Load
        BY DEF Load
      <4> QED BY <3>3, <4>1
    <3>5. \A s \in Readers : load'[s].key = load[s].key /\ load'[s].body = load[s].body
      BY <3>3 DEF Load
    <3>6. \A s \in Readers : load'[s].step \in {"meta", "done"} <=> load[s].step \in {"meta", "done"}
      BY <2>8, <3>3 DEF GetMeta, Load
    <3>7. \A s \in Readers : load'[s].step # "idle" <=> load[s].step # "idle"
      BY <2>8, <3>3 DEF GetMeta, Load
    <3> QED BY <2>8, <3>4, <3>5, <3>6, <3>7 DEF GetMeta
  <2>9. ASSUME NEW r \in Readers, EndLoad(r) PROVE TypeOK'
    BY <2>9 DEF EndLoad, NoLoad, Load
  <2>10. ASSUME NEW p \in Purgers, StartPurge(p) PROVE TypeOK'
    <3>1. [NoPurge EXCEPT !.step = "list"] \in Purge
      BY DEF NoPurge, Purge
    <3>2. Present \in SUBSET Objects
      BY DEF Present
    <3> QED BY <2>10, <3>1, <3>2 DEF StartPurge
  <2>11. ASSUME NEW p \in Purgers, ListPage(p) PROVE TypeOK'
    <3>1. CASE purge' = [purge EXCEPT ![p] = NoPurge]
      BY <2>11, <3>1 DEF ListPage, Purge, NoPurge
    <3>2. ASSUME NEW page \in SUBSET Objects,
                 purge' = [purge EXCEPT
                   ![p].step = "delete", ![p].todo = page \cap Present,
                   ![p].passed = @ \cup page,
                   ![p].more = Present \ (purge[p].passed \cup page) # {}]
          PROVE  purge' \in [Purgers -> Purge]
      <4>1. [purge[p] EXCEPT !.step = "delete", !.todo = page \cap Present,
               !.passed = @ \cup page,
               !.more = Present \ (purge[p].passed \cup page) # {}] \in Purge
        BY DEF Purge
      <4> QED BY <3>2, <4>1
    <3>3. purge' \in [Purgers -> Purge]
      BY <2>11, <3>1, <3>2 DEF ListPage
    <3> QED BY <2>11, <3>3 DEF ListPage
  <2>12. ASSUME NEW p \in Purgers, DeleteObject(p) PROVE TypeOK'
    <3>1. purge[p].todo \subseteq Objects
      BY DEF Purge
    <3>2. PICK o \in purge[p].todo :
            \/ Write(o, None) /\ purge' = [purge EXCEPT ![p].todo = @ \ {o}]
            \/ Untouched /\ purge' = [purge EXCEPT ![p].todo = @ \ {o}, ![p].skipped = TRUE]
      BY <2>12 DEF DeleteObject
    <3>3. /\ bucket' \in [Objects -> Responses \cup {None}]
          /\ remains' \in [Purgers -> SUBSET Objects]
          /\ disturbed' \subseteq Readers
      BY <2>write, <3>1, <3>2 DEF Untouched
    <3>4. purge' \in [Purgers -> Purge]
      <4>1. /\ [purge[p] EXCEPT !.todo = @ \ {o}] \in Purge
            /\ [purge[p] EXCEPT !.todo = @ \ {o}, !.skipped = TRUE] \in Purge
        BY DEF Purge
      <4> QED BY <3>2, <4>1
    <3> QED BY <2>12, <3>3, <3>4 DEF DeleteObject
  <2>13. ASSUME NEW p \in Purgers, EndPage(p) PROVE TypeOK'
    <3>1. purge' \in [Purgers -> Purge]
      BY <2>13 DEF EndPage, Purge
    <3> QED BY <2>13, <3>1 DEF EndPage
  <2>14. CASE Crash
    <3>1. bucket' \in [Objects -> Responses \cup {None}] /\ unsettled' \subseteq Keys
      BY <2>0, <2>14 DEF Crash
    <3> QED BY <2>14, <3>1 DEF Crash, NoLoad, NoPurge, Load, Purge
  <2>15. CASE UNCHANGED vars
    BY <2>15 DEF vars
  <2> QED
    BY <2>1, <2>2, <2>3, <2>4, <2>5, <2>6, <2>7, <2>8, <2>9, <2>10, <2>11, <2>12,
       <2>13, <2>14, <2>15 DEF Next
<1> QED
  BY <1>1, <1>2, PTL DEF Spec

-----------------------------------------------------------------------------

\* What a write does to each object.
LEMMA Written ==
  ASSUME TypeOK, NEW o \in Objects, NEW v, Write(o, v)
  PROVE  /\ \A q \in Objects : bucket'[q] = IF q = o THEN v ELSE bucket[q]
         /\ \A p \in Purgers : remains'[p] = remains[p] \ {o}
  BY DEF TypeOK, Write

\* The two objects of a key are two objects, and two keys share none.
LEMMA Paths ==
  ASSUME NEW k \in Keys, NEW j \in Keys
  PROVE  /\ Body(k) \in Objects /\ Meta(k) \in Objects
         /\ Body(k) # Meta(j)
         /\ Body(k) = Body(j) => k = j
         /\ Meta(k) = Meta(j) => k = j
  BY DEF Body, Meta, Objects, Kinds

\* While an upload is between its two objects its key is unsettled, and the
\* body in the bucket is its own or has been purged.
HeadersInv ==
  /\ HeadersBelongToBody
  /\ upload # None /\ upload.step = "meta" =>
       upload.key \in unsettled /\ bucket[Body(upload.key)] \in {upload.response, None}

\* A purge may delete anything at any time: it makes no pair worse.
LEMMA DeleteKeepsHeaders ==
  ASSUME TypeOK, HeadersInv, NEW o \in Objects, Write(o, None),
         UNCHANGED <<upload, unsettled>>
  PROVE  HeadersInv'
<1>1. \A k \in Keys : Body(k) \in Objects /\ Meta(k) \in Objects
  BY Paths
<1>2. upload # None => upload.key \in Keys
  BY DEF TypeOK, Upload
<1> QED BY <1>1, <1>2, Written DEF HeadersInv, HeadersBelongToBody

\* No step, of an upload, a purge or a restart, breaks the invariant.
LEMMA HeadersStep == TypeOK /\ HeadersInv /\ [Next]_vars => HeadersInv'
<1> SUFFICES ASSUME TypeOK, HeadersInv, [Next]_vars PROVE HeadersInv'
  OBVIOUS
<1>0. upload # None => /\ upload.key \in Keys /\ Body(upload.key) \in Objects
                       /\ Meta(upload.key) \in Objects
  BY Paths DEF TypeOK, Upload
<1>1. ASSUME NEW k \in Keys, StartStore(k) PROVE HeadersInv'
  BY <1>1 DEF StartStore, HeadersInv, HeadersBelongToBody
<1>2. CASE StoreHead
  BY <1>2 DEF StoreHead, HeadersInv, HeadersBelongToBody, TypeOK, Upload
<1>body. ASSUME upload # None, NEW k \in Keys, k # upload.key,
                \A q \in Objects : q # Body(upload.key) => bucket'[q] = bucket[q]
         PROVE  bucket'[Body(k)] = bucket[Body(k)] /\ bucket'[Meta(k)] = bucket[Meta(k)]
  BY <1>0, <1>body, Paths
<1>meta. ASSUME upload # None, NEW k \in Keys, k # upload.key,
                \A q \in Objects : q # Meta(upload.key) => bucket'[q] = bucket[q]
         PROVE  bucket'[Body(k)] = bucket[Body(k)] /\ bucket'[Meta(k)] = bucket[Meta(k)]
  BY <1>0, <1>meta, Paths
<1>3. CASE PutBody
  <2>1. CASE Untouched /\ UNCHANGED unsettled /\ upload' = None
    BY <2>1 DEF Untouched, HeadersInv, HeadersBelongToBody
  <2>2. CASE /\ Write(Body(upload.key), upload.response)
             /\ unsettled' = unsettled \cup {upload.key}
    <3>1. upload # None /\ upload' \in {None, [upload EXCEPT !.step = "meta"]}
      BY <1>3, <2>2, UploadAssumption DEF PutBody, TypeOK
    <3>2. \A q \in Objects :
            bucket'[q] = IF q = Body(upload.key) THEN upload.response ELSE bucket[q]
      BY <1>0, <2>2, <3>1, Written
    <3>3. HeadersBelongToBody'
      BY <1>body, <2>2, <3>1, <3>2 DEF HeadersInv, HeadersBelongToBody
    <3>4. upload' # None => /\ upload'.key \in unsettled'
                            /\ bucket'[Body(upload'.key)] \in {upload'.response, None}
      BY <1>0, <2>2, <3>1, <3>2 DEF TypeOK, Upload
    <3> QED BY <3>3, <3>4 DEF HeadersInv
  <2> QED BY <1>3, <2>1, <2>2 DEF PutBody
<1>4. CASE PutMeta
  <2>1. upload # None /\ upload.step = "meta" /\ upload' = None
    BY <1>4 DEF PutMeta
  <2>2. CASE Untouched /\ UNCHANGED unsettled
    BY <2>1, <2>2 DEF Untouched, HeadersInv, HeadersBelongToBody
  <2>3. CASE /\ Write(Meta(upload.key), upload.response)
             /\ unsettled' \in {unsettled, unsettled \ {upload.key}}
    <3>1. \A q \in Objects :
            bucket'[q] = IF q = Meta(upload.key) THEN upload.response ELSE bucket[q]
      BY <1>0, <2>1, <2>3, Written
    <3>2. bucket'[Body(upload.key)] \in {bucket'[Meta(upload.key)], None}
      BY <1>0, <2>1, <3>1, Paths DEF HeadersInv
    <3>3. ASSUME NEW k \in Keys, k # upload.key, k \notin unsettled', bucket'[Body(k)] # None
          PROVE  bucket'[Meta(k)] \in {bucket'[Body(k)], None}
      BY <1>meta, <2>1, <2>3, <3>1, <3>3 DEF HeadersInv, HeadersBelongToBody
    <3>4. HeadersBelongToBody'
      BY <3>2, <3>3 DEF HeadersBelongToBody
    <3> QED BY <2>1, <3>4 DEF HeadersInv
  <2> QED BY <1>4, <2>2, <2>3 DEF PutMeta
<1>5. ASSUME NEW p \in Purgers, DeleteObject(p) PROVE HeadersInv'
  <2>1. purge[p].todo \subseteq Objects
    BY DEF TypeOK, Purge
  <2>2. PICK o \in Objects : Write(o, None) \/ Untouched
    BY <1>5, <2>1 DEF DeleteObject
  <2>3. UNCHANGED <<upload, unsettled>>
    BY <1>5 DEF DeleteObject
  <2>4. CASE Untouched
    BY <2>3, <2>4 DEF Untouched, HeadersInv, HeadersBelongToBody
  <2> QED BY <2>2, <2>3, <2>4, DeleteKeepsHeaders
<1>6. CASE Crash
  <2>1. upload' = None
    BY <1>6 DEF Crash
  <2>2. CASE UNCHANGED <<bucket, unsettled>>
    BY <2>1, <2>2 DEF HeadersInv, HeadersBelongToBody
  <2>3. CASE /\ upload # None
             /\ bucket' = [bucket EXCEPT ![Body(upload.key)] = upload.response]
             /\ unsettled' = unsettled \cup {upload.key}
    <3>1. \A q \in Objects : q # Body(upload.key) => bucket'[q] = bucket[q]
      BY <2>3 DEF TypeOK
    <3>2. HeadersBelongToBody'
      BY <1>body, <2>3, <3>1 DEF HeadersInv, HeadersBelongToBody
    <3> QED BY <2>1, <3>2 DEF HeadersInv
  <2>4. CASE /\ upload # None /\ upload.step = "meta"
             /\ bucket' = [bucket EXCEPT ![Meta(upload.key)] = upload.response]
             /\ UNCHANGED unsettled
    <3>1. \A q \in Objects : q # Meta(upload.key) => bucket'[q] = bucket[q]
      BY <2>4 DEF TypeOK
    <3>2. upload.key \in unsettled'
      BY <2>4 DEF HeadersInv
    <3>3. HeadersBelongToBody'
      BY <1>meta, <2>4, <3>1, <3>2 DEF HeadersInv, HeadersBelongToBody
    <3> QED BY <2>1, <3>3 DEF HeadersInv
  <2> QED BY <1>6, <2>2, <2>3, <2>4 DEF Crash
<1>7. CASE UNCHANGED <<bucket, upload, unsettled>>
  BY <1>7 DEF HeadersInv, HeadersBelongToBody
<1>8. CASE ~ (\/ StoreHead \/ PutBody \/ PutMeta \/ Crash
              \/ \E k \in Keys : StartStore(k)
              \/ \E p \in Purgers : DeleteObject(p))
  BY <1>7, <1>8 DEF Next, StartLoad, LoadHead, GetBody, GetMeta, EndLoad, StartPurge,
     ListPage, EndPage, vars
<1> QED BY <1>1, <1>2, <1>3, <1>4, <1>5, <1>6, <1>8

\* A body never stays with the headers of another response, unless the last
\* upload of its key is under way or broke off.
THEOREM HeadersMatch == Spec => []HeadersBelongToBody
<1>1. Init => HeadersInv
  BY Paths DEF Init, HeadersInv, HeadersBelongToBody
<1>2. HeadersInv => HeadersBelongToBody
  BY DEF HeadersInv
<1> QED
  BY <1>1, <1>2, TypeCorrect, HeadersStep, PTL DEF Spec

-----------------------------------------------------------------------------

\* What a load that nothing disturbed has seen and will see: its key stays
\* settled; between its two calls each object of the key is the one of the
\* response it has read, or has been purged.
LoadInv == \A r \in Readers \ disturbed :
  /\ load[r].key # None => load[r].key \notin unsettled
  /\ load[r].step = "meta" =>
       \A o \in {Body(load[r].key), Meta(load[r].key)} : bucket[o] \in {load[r].body, None}
  /\ load[r].step = "done" => load[r].headers \in {load[r].body, None}

\* An object of a key is written: the loads of that key are disturbed from then
\* on, by an upload, and see nothing but what is missing, by a delete.
LEMMA WriteKeepsLoads ==
  ASSUME TypeOK, LoadInv, NEW k \in Keys, NEW o \in {Body(k), Meta(k)}, NEW v, Write(o, v),
         UNCHANGED load, v = None => unsettled' = unsettled,
         unsettled' \ {k} \subseteq unsettled
  PROVE  LoadInv'
<1>1. \A q \in Objects : bucket'[q] = IF q = o THEN v ELSE bucket[q]
  BY Paths, Written
<1>2. o[1] = k
  BY DEF Body, Meta
<1> SUFFICES ASSUME NEW r \in Readers \ disturbed'
             PROVE  /\ load[r].key # None => load[r].key \notin unsettled'
                    /\ load[r].step = "meta" =>
                         \A q \in {Body(load[r].key), Meta(load[r].key)} :
                           bucket'[q] \in {load[r].body, None}
                    /\ load[r].step = "done" => load[r].headers \in {load[r].body, None}
  BY DEF LoadInv
<1>3. r \notin disturbed
  BY DEF Write
<1>4. load[r].step = "meta" => load[r].key \in Keys
  BY DEF TypeOK, Load
<1>5. CASE v = None
  BY <1>1, <1>3, <1>4, <1>5, Paths DEF LoadInv
<1>6. CASE v # None
  <2>1. load[r].key # k
    BY <1>2, <1>6 DEF Write, Loading
  <2>2. load[r].step = "meta" =>
          \A q \in {Body(load[r].key), Meta(load[r].key)} : bucket'[q] = bucket[q]
    BY <1>1, <1>4, <2>1, Paths
  <2> QED BY <1>3, <2>1, <2>2 DEF LoadInv
<1> QED BY <1>5, <1>6

\* No step lets a load that nothing disturbed see two responses.
LEMMA LoadStep == TypeOK /\ HeadersInv /\ LoadInv /\ [Next]_vars => LoadInv'
<1> SUFFICES ASSUME TypeOK, HeadersInv, LoadInv, [Next]_vars PROVE LoadInv'
  OBVIOUS
<1>0. upload # None => upload.key \in Keys /\ upload.response \in Responses
  BY DEF TypeOK, Upload
<1>same. ASSUME UNCHANGED <<bucket, load, unsettled, disturbed>> PROVE LoadInv'
  BY <1>same DEF LoadInv
<1>1. CASE PutBody
  <2>1. CASE Untouched /\ UNCHANGED unsettled
    BY <1>1, <1>same, <2>1 DEF PutBody, Untouched
  <2>2. CASE /\ Write(Body(upload.key), upload.response)
             /\ unsettled' = unsettled \cup {upload.key}
    BY <1>0, <1>1, <2>2, WriteKeepsLoads, StoreAssumption DEF PutBody, StoreAssumption
  <2> QED BY <1>1, <2>1, <2>2 DEF PutBody
<1>2. CASE PutMeta
  <2>1. CASE Untouched /\ UNCHANGED unsettled
    BY <1>2, <1>same, <2>1 DEF PutMeta, Untouched
  <2>2. CASE /\ Write(Meta(upload.key), upload.response)
             /\ unsettled' \in {unsettled, unsettled \ {upload.key}}
    BY <1>0, <1>2, <2>2, WriteKeepsLoads, StoreAssumption DEF PutMeta, StoreAssumption
  <2> QED BY <1>2, <2>1, <2>2 DEF PutMeta
<1>others. ASSUME NEW r \in Readers, UNCHANGED <<bucket, unsettled>>,
                  disturbed \ {r} \subseteq disturbed',
                  \A s \in Readers \ {r} : load'[s] = load[s],
                  r \notin disturbed' =>
                    /\ load'[r].key # None => load'[r].key \notin unsettled
                    /\ load'[r].step = "meta" =>
                         \A o \in {Body(load'[r].key), Meta(load'[r].key)} :
                           bucket[o] \in {load'[r].body, None}
                    /\ load'[r].step = "done" => load'[r].headers \in {load'[r].body, None}
           PROVE  LoadInv'
  BY <1>others DEF LoadInv
<1>idle. ASSUME NEW r \in Readers, load' = [load EXCEPT ![r] = NoLoad],
                UNCHANGED <<bucket, unsettled, disturbed>>
         PROVE  LoadInv'
  BY <1>idle, <1>others DEF NoLoad, TypeOK
<1>3. ASSUME NEW r \in Readers, NEW k \in Keys, StartLoad(r, k) PROVE LoadInv'
  <2>1. /\ load'[r].step = "head" /\ load'[r].key = k
        /\ \A s \in Readers \ {r} : load'[s] = load[s]
    BY <1>3 DEF StartLoad, NoLoad, TypeOK
  <2>2. /\ disturbed \ {r} \subseteq disturbed' /\ UNCHANGED <<bucket, unsettled>>
        /\ r \notin disturbed' => k \notin unsettled
    BY <1>3 DEF StartLoad
  <2> QED BY <1>others, <2>1, <2>2
<1>4. ASSUME NEW r \in Readers, LoadHead(r) PROVE LoadInv'
  <2>1. CASE load' = [load EXCEPT ![r].step = "body"]
    <3>1. /\ load'[r].step = "body" /\ load'[r].key = load[r].key
          /\ \A s \in Readers \ {r} : load'[s] = load[s]
      BY <2>1 DEF TypeOK, Load
    <3>2. UNCHANGED <<bucket, unsettled, disturbed>>
      BY <1>4 DEF LoadHead
    <3> QED BY <1>others, <3>1, <3>2 DEF LoadInv
  <2> QED BY <1>4, <1>idle, <2>1 DEF LoadHead
<1>5. ASSUME NEW r \in Readers, GetBody(r) PROVE LoadInv'
  <2>0. UNCHANGED <<bucket, unsettled, disturbed>> /\ load[r].key \in Keys
    BY <1>5 DEF GetBody, TypeOK, Load
  <2>1. CASE /\ bucket[Body(load[r].key)] # None
             /\ load' = [load EXCEPT ![r].step = "meta", ![r].body = bucket[Body(load[r].key)]]
    <3>1. /\ load'[r].step = "meta" /\ load'[r].key = load[r].key
          /\ load'[r].body = bucket[Body(load[r].key)]
          /\ \A s \in Readers \ {r} : load'[s] = load[s]
      BY <2>1 DEF TypeOK, Load
    <3>2. r \notin disturbed => /\ load[r].key \notin unsettled
                                /\ bucket[Meta(load[r].key)] \in {bucket[Body(load[r].key)], None}
      BY <2>0, <2>1, StoreAssumption DEF LoadInv, HeadersInv, HeadersBelongToBody, StoreAssumption
    <3> QED BY <1>others, <2>0, <3>1, <3>2
  <2> QED BY <1>5, <1>idle, <2>0, <2>1 DEF GetBody
<1>6. ASSUME NEW r \in Readers, GetMeta(r) PROVE LoadInv'
  <2>0. UNCHANGED <<bucket, unsettled, disturbed>> /\ load[r].step = "meta"
    BY <1>6 DEF GetMeta
  <2>1. PICK headers \in {bucket[Meta(load[r].key)], None} :
          load' = [load EXCEPT ![r].step = "done", ![r].headers = headers]
    BY <1>6 DEF GetMeta
  <2>2. /\ load'[r].step = "done" /\ load'[r].key = load[r].key
        /\ load'[r].body = load[r].body /\ load'[r].headers = headers
        /\ \A s \in Readers \ {r} : load'[s] = load[s]
    BY <2>1 DEF TypeOK, Load
  <2>3. r \notin disturbed => headers \in {load[r].body, None}
    BY <2>0, <2>1 DEF LoadInv
  <2> QED BY <1>others, <2>0, <2>2, <2>3 DEF LoadInv
<1>7. ASSUME NEW r \in Readers, EndLoad(r) PROVE LoadInv'
  BY <1>7, <1>idle DEF EndLoad
<1>8. ASSUME NEW p \in Purgers, DeleteObject(p) PROVE LoadInv'
  <2>1. PICK o \in Objects : Write(o, None) \/ Untouched
    BY <1>8 DEF DeleteObject, TypeOK, Purge
  <2>2. PICK k \in Keys : o \in {Body(k), Meta(k)}
    BY DEF Objects, Kinds, Body, Meta
  <2>3. UNCHANGED <<load, unsettled>>
    BY <1>8 DEF DeleteObject
  <2>4. CASE Untouched
    BY <1>same, <2>3, <2>4 DEF Untouched
  <2>5. CASE Write(o, None)
    BY <2>2, <2>3, <2>5, WriteKeepsLoads
  <2> QED BY <2>1, <2>4, <2>5
<1>9. CASE Crash
  BY <1>9 DEF Crash, LoadInv, NoLoad
<1>10. CASE UNCHANGED vars
  BY <1>10, <1>same DEF vars
<1>11. CASE (\E k \in Keys : StartStore(k)) \/ StoreHead
  BY <1>11, <1>same DEF StartStore, StoreHead
<1>12. CASE \E p \in Purgers : StartPurge(p) \/ ListPage(p) \/ EndPage(p)
  BY <1>12, <1>same DEF StartPurge, ListPage, EndPage
<1> QED
  BY <1>1, <1>2, <1>3, <1>4, <1>5, <1>6, <1>7, <1>8, <1>9, <1>10, <1>11, <1>12 DEF Next

\* A load that no upload of its key disturbs returns the body and the headers of
\* one response, or no headers: a purge between its two calls and a call that
\* fails cost it the headers, and never mix two responses.
THEOREM UndisturbedLoadsAreWhole == Spec => []UndisturbedLoadIsWhole
<1>1. Init => HeadersInv /\ LoadInv
  BY Paths DEF Init, HeadersInv, HeadersBelongToBody, LoadInv, NoLoad
<1>2. LoadInv => UndisturbedLoadIsWhole
  BY DEF LoadInv, UndisturbedLoadIsWhole
<1> QED
  BY <1>1, <1>2, TypeCorrect, HeadersStep, LoadStep, PTL DEF Spec

-----------------------------------------------------------------------------

\* What a purge that has not failed so far still owes: before a page is listed,
\* the objects not passed yet; within a page, the rest of it and, if it was
\* truncated, what lies beyond.
Owed(p) == CASE purge[p].step = "list"   -> Objects \ purge[p].passed
             [] purge[p].step = "delete" -> purge[p].todo \cup
                  (IF purge[p].more THEN Objects \ purge[p].passed ELSE {})
             [] purge[p].step = "done"   -> {}
             [] purge[p].step = "idle"   -> Objects

PurgeInv == \A p \in Purgers :
  /\ remains[p] \subseteq Present
  /\ ~purge[p].skipped => remains[p] \subseteq Owed(p)

\* A write by anyone, an upload or another purge, only shortens what remains.
LEMMA WriteKeepsPurges ==
  ASSUME TypeOK, PurgeInv, NEW o \in Objects, NEW v, Write(o, v), NEW p \in Purgers
  PROVE  /\ remains'[p] \subseteq Present'
         /\ purge'[p] = purge[p] => (~purge'[p].skipped => remains'[p] \subseteq Owed(p)')
<1>1. /\ \A q \in Objects : bucket'[q] = IF q = o THEN v ELSE bucket[q]
      /\ remains'[p] = remains[p] \ {o}
  BY Written
<1>2. remains'[p] \subseteq Present'
  BY <1>1 DEF PurgeInv, Present
<1>3. ASSUME purge'[p] = purge[p], ~purge'[p].skipped PROVE remains'[p] \subseteq Owed(p)'
  <2>1. Owed(p)' = Owed(p)
    BY <1>3 DEF Owed
  <2> QED BY <1>1, <1>3, <2>1 DEF PurgeInv
<1> QED BY <1>2, <1>3

\* Every step keeps what a purge still has to delete on its list.
LEMMA PurgeStep == TypeOK /\ PurgeInv /\ [Next]_vars => PurgeInv'
<1> SUFFICES ASSUME TypeOK, PurgeInv, [Next]_vars PROVE PurgeInv'
  OBVIOUS
<1>0. upload # None => Body(upload.key) \in Objects /\ Meta(upload.key) \in Objects
  BY Paths DEF TypeOK, Upload
<1>same. ASSUME NEW p \in Purgers, UNCHANGED <<bucket, remains>>, purge'[p] = purge[p]
         PROVE  /\ remains'[p] \subseteq Present'
                /\ ~purge'[p].skipped => remains'[p] \subseteq Owed(p)'
  BY <1>same DEF PurgeInv, Present, Owed
<1>1. CASE PutBody \/ PutMeta
  <2>1. UNCHANGED purge
    BY <1>1 DEF PutBody, PutMeta
  <2>2. CASE Untouched
    BY <1>same, <2>1, <2>2 DEF Untouched, PurgeInv
  <2>3. CASE upload # None /\ \E o \in {Body(upload.key), Meta(upload.key)} :
               Write(o, upload.response)
    BY <1>0, <2>1, <2>3, WriteKeepsPurges DEF PurgeInv
  <2> QED BY <1>1, <2>2, <2>3 DEF PutBody, PutMeta
<1>2. ASSUME NEW p \in Purgers, StartPurge(p) PROVE PurgeInv'
  <2>1. /\ purge'[p] = [NoPurge EXCEPT !.step = "list"] /\ remains'[p] = Present
        /\ Present \subseteq Objects /\ Present' = Present
    BY <1>2 DEF StartPurge, TypeOK, Present
  <2>2. Owed(p)' = Objects
    BY <2>1 DEF Owed, NoPurge
  <2>3. \A s \in Purgers : s # p => remains'[s] = remains[s] /\ purge'[s] = purge[s]
    BY <1>2 DEF StartPurge, TypeOK
  <2>4. \A s \in Purgers : s # p => Owed(s)' = Owed(s)
    BY <2>3 DEF Owed
  <2> QED BY <2>1, <2>2, <2>3, <2>4 DEF PurgeInv
<1>3. ASSUME NEW p \in Purgers, ListPage(p) PROVE PurgeInv'
  <2>0. UNCHANGED <<bucket, remains>> /\ Present' = Present /\ Present \subseteq Objects
    BY <1>3 DEF ListPage, Present
  <2>1. \A s \in Purgers : s # p => purge'[s] = purge[s]
    BY <1>3 DEF ListPage, TypeOK
  <2>2. CASE purge' = [purge EXCEPT ![p] = NoPurge]
    <3>1. Owed(p)' = Objects
      BY <2>2 DEF TypeOK, Owed, NoPurge
    <3>2. remains'[p] \subseteq Present' /\ (~purge'[p].skipped => remains'[p] \subseteq Owed(p)')
      BY <2>0, <3>1 DEF PurgeInv
    <3> QED BY <1>same, <2>0, <2>1, <3>2 DEF PurgeInv
  <2>3. ASSUME NEW page \in SUBSET Objects,
               purge' = [purge EXCEPT
                 ![p].step = "delete", ![p].todo = page \cap Present,
                 ![p].passed = @ \cup page,
                 ![p].more = Present \ (purge[p].passed \cup page) # {}]
        PROVE  PurgeInv'
    <3>1. /\ purge'[p].step = "delete" /\ purge'[p].todo = page \cap Present
          /\ purge'[p].passed = purge[p].passed \cup page
          /\ purge'[p].more = (Present \ (purge[p].passed \cup page) # {})
          /\ purge'[p].skipped = purge[p].skipped
      BY <2>3 DEF TypeOK, Purge
    <3>2. Owed(p)' = (page \cap Present) \cup
            (IF Present \ (purge[p].passed \cup page) # {}
               THEN Objects \ (purge[p].passed \cup page) ELSE {})
      BY <3>1 DEF Owed
    <3>3. Owed(p) = Objects \ purge[p].passed
      BY <1>3 DEF ListPage, Owed
    <3>4. remains'[p] \subseteq Present' /\ (~purge'[p].skipped => remains'[p] \subseteq Owed(p)')
      BY <2>0, <3>1, <3>2, <3>3 DEF PurgeInv
    <3> QED BY <1>same, <2>0, <2>1, <3>4 DEF PurgeInv
  <2> QED BY <1>3, <2>2, <2>3 DEF ListPage
<1>4. ASSUME NEW p \in Purgers, DeleteObject(p) PROVE PurgeInv'
  <2>0. purge[p].step = "delete" /\ purge[p].todo \subseteq Objects
    BY <1>4 DEF DeleteObject, TypeOK, Purge
  <2>1. \A s \in Purgers : s # p => purge'[s] = purge[s]
    BY <1>4 DEF DeleteObject, TypeOK
  <2>2. ASSUME NEW o \in purge[p].todo, Write(o, None),
               purge' = [purge EXCEPT ![p].todo = @ \ {o}]
        PROVE  PurgeInv'
    <3>1. /\ purge'[p].step = "delete" /\ purge'[p].todo = purge[p].todo \ {o}
          /\ purge'[p].passed = purge[p].passed /\ purge'[p].more = purge[p].more
          /\ purge'[p].skipped = purge[p].skipped
      BY <2>0, <2>2 DEF TypeOK, Purge
    <3>2. remains'[p] = remains[p] \ {o}
      BY <2>0, <2>2, Written
    <3>3. ~purge'[p].skipped => remains'[p] \subseteq Owed(p)'
      BY <2>0, <3>1, <3>2 DEF PurgeInv, Owed
    <3>4. \A s \in Purgers : remains'[s] \subseteq Present'
      BY <2>0, <2>2, WriteKeepsPurges
    <3>5. \A s \in Purgers : s # p => (~purge'[s].skipped => remains'[s] \subseteq Owed(s)')
      BY <2>0, <2>1, <2>2, WriteKeepsPurges
    <3> QED BY <3>3, <3>4, <3>5 DEF PurgeInv
  <2>3. ASSUME NEW o \in purge[p].todo, Untouched,
               purge' = [purge EXCEPT ![p].todo = @ \ {o}, ![p].skipped = TRUE]
        PROVE  PurgeInv'
    <3>1. purge'[p].skipped
      BY <2>3 DEF TypeOK, Purge
    <3>2. remains'[p] \subseteq Present'
      BY <2>3 DEF Untouched, PurgeInv, Present
    <3> QED BY <1>same, <2>1, <2>3, <3>1, <3>2 DEF Untouched, PurgeInv
  <2> QED BY <1>4, <2>2, <2>3 DEF DeleteObject
<1>5. ASSUME NEW p \in Purgers, EndPage(p) PROVE PurgeInv'
  <2>1. \A s \in Purgers : s # p => purge'[s] = purge[s]
    BY <1>5 DEF EndPage, TypeOK
  <2>2. /\ purge'[p].step = (IF purge[p].more THEN "list" ELSE "done")
        /\ purge'[p].passed = purge[p].passed /\ purge'[p].skipped = purge[p].skipped
    BY <1>5 DEF EndPage, TypeOK, Purge
  <2>3. Owed(p) = IF purge[p].more THEN Objects \ purge[p].passed ELSE {}
    BY <1>5 DEF EndPage, Owed
  <2>4. Owed(p)' = Owed(p)
    BY <2>2, <2>3 DEF Owed
  <2>5. UNCHANGED <<bucket, remains>> /\ Present' = Present
    BY <1>5 DEF EndPage, Present
  <2>6. remains'[p] \subseteq Present' /\ (~purge'[p].skipped => remains'[p] \subseteq Owed(p)')
    BY <2>2, <2>4, <2>5 DEF PurgeInv
  <2> QED BY <1>same, <2>1, <2>5, <2>6 DEF PurgeInv
<1>6. CASE Crash
  BY <1>6 DEF Crash, PurgeInv
<1>7. CASE UNCHANGED <<bucket, purge, remains>>
  BY <1>same, <1>7 DEF PurgeInv
<1>8. CASE ~ (\/ PutBody \/ PutMeta \/ Crash
              \/ \E p \in Purgers : StartPurge(p) \/ ListPage(p) \/ DeleteObject(p) \/ EndPage(p))
  BY <1>7, <1>8 DEF Next, StartStore, StoreHead, StartLoad, LoadHead, GetBody, GetMeta,
     EndLoad, vars
<1> QED BY <1>1, <1>2, <1>3, <1>4, <1>5, <1>6, <1>8

\* A purge that ends with Ok and without a failed delete leaves nothing behind
\* that was there when it began.
THEOREM PurgesAreComplete == Spec => []PurgeIsComplete
<1>1. Init => PurgeInv
  BY DEF Init, PurgeInv
<1>2. PurgeInv => PurgeIsComplete
  BY DEF PurgeInv, PurgeIsComplete, Owed
<1> QED
  BY <1>1, <1>2, TypeCorrect, PurgeStep, PTL DEF Spec

-----------------------------------------------------------------------------
(* S3Store implements CacheBackend: the bodies are what is stored. *)

\* The backend does not see the headers.
LEMMA MetaIsInvisible ==
  ASSUME TypeOK, NEW k \in Keys, NEW v, bucket' = [bucket EXCEPT ![Meta(k)] = v]
  PROVE  Stored' = Stored
  BY Paths DEF TypeOK, Stored

\* A body is written: the entry of its key changes, and no other.
LEMMA BodyIsEntry ==
  ASSUME TypeOK, NEW k \in Keys, NEW v, bucket' = [bucket EXCEPT ![Body(k)] = v]
  PROVE  Stored' = [Stored EXCEPT ![k] = v]
<1>1. \A j \in Keys : bucket'[Body(j)] = IF j = k THEN v ELSE bucket[Body(j)]
  BY Paths DEF TypeOK
<1> QED BY <1>1 DEF Stored

\* A step of the store is a step of the backend, or one it does not see.
LEMMA BackendStep == TypeOK /\ [Next]_vars => [Backend!Next]_(Backend!vars)
<1> SUFFICES ASSUME TypeOK, [Next]_vars PROVE [Backend!Next]_(Backend!vars)
  OBVIOUS
<1>same. ASSUME UNCHANGED <<Stored, Writing, Reading>> PROVE [Backend!Next]_(Backend!vars)
  BY <1>same DEF Backend!vars, Stored, Writing, Reading
<1>0. upload # None => upload.key \in Keys /\ upload.response \in Responses
  BY DEF TypeOK, Upload
<1>1. ASSUME NEW k \in Keys, StartStore(k) PROVE [Backend!Next]_(Backend!vars)
  <2>1. /\ Writing = None /\ Writing' = [key |-> k, response |-> next]
        /\ UNCHANGED <<Stored, Reading>> /\ next \in Responses
    BY <1>1, UploadAssumption DEF StartStore, Writing, Stored, Reading, Upload
  <2>2. Backend!StartStore(k, next)
    BY <2>1 DEF Backend!StartStore, Writing, Stored, Reading
  <2> QED BY <2>1, <2>2 DEF Backend!Next
<1>2. ASSUME UNCHANGED Reading, Writing # None, Writing' = None,
             \/ UNCHANGED Stored
             \/ Stored' = [Stored EXCEPT ![Writing.key] = Writing.response]
      PROVE  [Backend!Next]_(Backend!vars)
  <2>1. Backend!EndStore
    BY <1>2 DEF Backend!EndStore, Backend!TakesEffect, Writing, Stored, Reading
  <2> QED BY <2>1 DEF Backend!Next
<1>3. CASE StoreHead
  <2>1. UNCHANGED <<Stored, Reading>>
    BY <1>3 DEF StoreHead, Stored, Reading
  <2>2. CASE upload' = [upload EXCEPT !.step = "body"]
    <3>1. UNCHANGED Writing
      BY <1>3, <2>2, UploadAssumption DEF StoreHead, Writing, TypeOK, Upload
    <3> QED BY <1>same, <2>1, <3>1
  <2>3. CASE upload' = None
    <3>1. Writing = [key |-> upload.key, response |-> upload.response] /\ Writing # None
      BY <1>0, <1>3, UploadAssumption DEF StoreHead, Writing
    <3> QED BY <1>2, <2>1, <2>3, <3>1 DEF Writing
  <2> QED BY <1>3, <2>2, <2>3 DEF StoreHead
<1>4. ASSUME upload # None, upload.step = "body", upload' \in {None, [upload EXCEPT !.step = "meta"]},
             UNCHANGED Reading,
             UNCHANGED bucket \/ Write(Body(upload.key), upload.response)
      PROVE  [Backend!Next]_(Backend!vars)
  <2>1. /\ Writing = [key |-> upload.key, response |-> upload.response]
        /\ Writing # None /\ Writing' = None
    BY <1>0, <1>4, UploadAssumption DEF Writing, TypeOK, Upload
  <2>2. CASE UNCHANGED bucket
    BY <1>2, <1>4, <2>1, <2>2 DEF Stored
  <2>3. CASE Write(Body(upload.key), upload.response)
    <3>1. Stored' = [Stored EXCEPT ![upload.key] = upload.response]
      BY <1>0, <1>4, <2>3, BodyIsEntry DEF Write
    <3> QED BY <1>2, <1>4, <2>1, <3>1
  <2> QED BY <1>4, <2>2, <2>3
<1>5. CASE PutBody
  BY <1>4, <1>5 DEF PutBody, Untouched, Reading
<1>6. CASE PutMeta
  <2>1. UNCHANGED <<Writing, Reading>>
    BY <1>6 DEF PutMeta, Writing, Reading
  <2>2. UNCHANGED bucket \/ Write(Meta(upload.key), upload.response)
    BY <1>6 DEF PutMeta, Untouched
  <2>3. UNCHANGED Stored
    BY <1>0, <1>6, <2>2, MetaIsInvisible DEF PutMeta, Write, Stored
  <2> QED BY <1>same, <2>1, <2>3
<1>7. ASSUME NEW r \in Readers, NEW k \in Keys, StartLoad(r, k)
      PROVE  [Backend!Next]_(Backend!vars)
  <2>1. /\ Reading[r] = [key |-> None, found |-> None]
        /\ Reading' = [Reading EXCEPT ![r].key = k]
        /\ UNCHANGED <<Stored, Writing>>
    BY <1>7 DEF StartLoad, Reading, Stored, Writing, NoLoad, TypeOK
  <2>2. Backend!StartLoad(r, k)
    BY <2>1 DEF Backend!StartLoad, Backend!Idle
  <2> QED BY <2>2 DEF Backend!Next
<1>end. ASSUME NEW r \in Readers, load' = [load EXCEPT ![r] = NoLoad], UNCHANGED <<bucket, upload>>
        PROVE  [Backend!Next]_(Backend!vars)
  <2>1. Reading' = [Reading EXCEPT ![r] = [key |-> None, found |-> None]]
        /\ UNCHANGED <<Stored, Writing>>
    BY <1>end DEF Reading, Stored, Writing, NoLoad, TypeOK
  <2>2. Backend!EndLoad(r)
    BY <2>1 DEF Backend!EndLoad, Backend!Idle
  <2> QED BY <2>2 DEF Backend!Next
<1>step. ASSUME NEW r \in Readers, UNCHANGED <<bucket, upload>>,
                \A s \in Readers : load'[s].key = load[s].key /\ load'[s].body = load[s].body
         PROVE  [Backend!Next]_(Backend!vars)
  BY <1>same, <1>step DEF Stored, Writing, Reading
<1>8. ASSUME NEW r \in Readers, LoadHead(r) PROVE [Backend!Next]_(Backend!vars)
  <2>1. CASE load' = [load EXCEPT ![r].step = "body"]
    BY <1>8, <1>step, <2>1 DEF LoadHead, TypeOK, Load
  <2> QED BY <1>8, <1>end, <2>1 DEF LoadHead
<1>9. ASSUME NEW r \in Readers, GetBody(r) PROVE [Backend!Next]_(Backend!vars)
  <2>1. CASE /\ bucket[Body(load[r].key)] # None
             /\ load' = [load EXCEPT ![r].step = "meta", ![r].body = bucket[Body(load[r].key)]]
    <3>1. /\ load[r].key \in Keys /\ load[r].body = None /\ load[r].key # None
          /\ UNCHANGED <<bucket, upload>>
      BY <1>9 DEF GetBody, TypeOK, Load
    <3>2. Reading[r] = [key |-> load[r].key, found |-> None]
          /\ Stored[load[r].key] = bucket[Body(load[r].key)]
      BY <3>1 DEF Reading, Stored
    <3>3. Reading' = [Reading EXCEPT ![r].found = bucket[Body(load[r].key)]]
      <4>1. \A s \in Readers :
              /\ load'[s].key = load[s].key
              /\ load'[s].body = IF s = r THEN bucket[Body(load[r].key)] ELSE load[s].body
        BY <2>1 DEF TypeOK, Load
      <4> QED BY <4>1 DEF Reading
    <3>4. Reading[r].key = load[r].key /\ Reading[r].found = None
      BY <3>2
    <3>5. UNCHANGED <<Stored, Writing>>
      BY <3>1 DEF Stored, Writing
    <3>6. Backend!Find(r)
      BY <2>1, <3>1, <3>2, <3>3, <3>4, <3>5 DEF Backend!Find
    <3> QED BY <3>6 DEF Backend!Next
  <2> QED BY <1>9, <1>end, <2>1 DEF GetBody
<1>10. ASSUME NEW r \in Readers, GetMeta(r) PROVE [Backend!Next]_(Backend!vars)
  <2>1. PICK headers : load' = [load EXCEPT ![r].step = "done", ![r].headers = headers]
    BY <1>10 DEF GetMeta
  <2>2. \A s \in Readers : load'[s].key = load[s].key /\ load'[s].body = load[s].body
    BY <2>1 DEF TypeOK, Load
  <2> QED BY <1>10, <1>step, <2>2 DEF GetMeta
<1>11. ASSUME NEW r \in Readers, EndLoad(r) PROVE [Backend!Next]_(Backend!vars)
  BY <1>11, <1>end DEF EndLoad
<1>12. ASSUME NEW p \in Purgers, DeleteObject(p) PROVE [Backend!Next]_(Backend!vars)
  <2>1. purge[p].todo \subseteq Objects
    BY DEF TypeOK, Purge
  <2>2. PICK o \in Objects : Write(o, None) \/ Untouched
    BY <1>12, <2>1 DEF DeleteObject
  <2>3. UNCHANGED <<Writing, Reading>>
    BY <1>12 DEF DeleteObject, Writing, Reading
  <2>4. PICK k \in Keys : o \in {Body(k), Meta(k)}
    BY DEF Objects, Kinds, Body, Meta
  <2>5. CASE Untouched \/ (Write(o, None) /\ o = Meta(k))
    <3>1. UNCHANGED Stored
      BY <2>5, MetaIsInvisible DEF Untouched, Write, Stored
    <3> QED BY <1>same, <2>3, <3>1
  <2>6. CASE Write(o, None) /\ o = Body(k)
    <3>1. Stored' = [Stored EXCEPT ![k] = None]
      BY <2>6, BodyIsEntry DEF Write
    <3>2. Backend!Delete(k)
      BY <2>3, <3>1 DEF Backend!Delete
    <3> QED BY <3>2 DEF Backend!Next
  <2> QED BY <2>2, <2>4, <2>5, <2>6
<1>13. CASE Crash
  <2>1. /\ upload' = None /\ Writing' = None
        /\ Reading' = [r \in Readers |-> [key |-> None, found |-> None]]
    BY <1>13 DEF Crash, Writing, Reading, NoLoad
  <2>2. \/ UNCHANGED Stored
        \/ /\ Writing = [key |-> upload.key, response |-> upload.response] /\ Writing # None
           /\ Stored' = [Stored EXCEPT ![upload.key] = upload.response]
    <3>1. CASE UNCHANGED bucket
      BY <3>1 DEF Stored
    <3>2. CASE /\ upload # None /\ upload.step = "body"
               /\ bucket' = [bucket EXCEPT ![Body(upload.key)] = upload.response]
      <4>1. Writing = [key |-> upload.key, response |-> upload.response] /\ Writing # None
        BY <1>0, <3>2, UploadAssumption DEF Writing
      <4> QED BY <1>0, <3>2, <4>1, BodyIsEntry
    <3>3. CASE /\ upload # None
               /\ bucket' = [bucket EXCEPT ![Meta(upload.key)] = upload.response]
      BY <1>0, <3>3, MetaIsInvisible
    <3> QED BY <1>13, <3>1, <3>2, <3>3 DEF Crash
  <2>3. Backend!Stop
    BY <2>1, <2>2 DEF Backend!Stop, Backend!TakesEffect, Backend!Idle
  <2> QED BY <2>3 DEF Backend!Next
<1>14. CASE UNCHANGED <<bucket, upload, load>>
  BY <1>same, <1>14 DEF Stored, Writing, Reading
<1>15. CASE \E p \in Purgers : StartPurge(p) \/ ListPage(p) \/ EndPage(p)
  BY <1>14, <1>15 DEF StartPurge, ListPage, EndPage
<1>16. CASE UNCHANGED vars
  BY <1>14, <1>16 DEF vars
<1> QED
  BY <1>1, <1>3, <1>5, <1>6, <1>7, <1>8, <1>9, <1>10, <1>11, <1>12, <1>13, <1>15, <1>16
     DEF Next

\* S3 gives the proxy what it relies on in every backend: however uploads, loads,
\* purges, failed calls and restarts interleave, the bodies behave as a register
\* per key.
THEOREM S3ImplementsBackend == Spec => ImplementsBackend
<1>1. Init => Backend!Init
  <2> SUFFICES ASSUME Init PROVE Backend!Init
    OBVIOUS
  <2>1. \A k \in Keys : Body(k) \in Objects
    BY Paths
  <2>2. Stored = [k \in Keys |-> None]
    BY <2>1 DEF Init, Stored
  <2>3. Writing = None /\ Reading = [r \in Readers |-> [key |-> None, found |-> None]]
    BY DEF Init, Writing, Reading, NoLoad
  <2> QED BY <2>2, <2>3 DEF Backend!Init, Backend!Idle
<1> QED
  BY <1>1, TypeCorrect, BackendStep, PTL DEF Spec, ImplementsBackend, Backend!Spec

=============================================================================
