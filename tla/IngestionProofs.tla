-------------------------- MODULE IngestionProofs ---------------------------
(***************************************************************************)
(* Proofs about Ingestion, for any number of clients, keys, connections    *)
(* and faults.                                                             *)
(***************************************************************************)
EXTENDS Ingestion, FiniteSetTheorems, TLAPS

-----------------------------------------------------------------------------
(* The pool *)

Serving == {c \in Clients : InTx(c)}

\* The transactions under way are finitely many.
LEMMA ServingFinite == IsFiniteSet(Serving) /\ Cardinality(Serving) \in Nat
BY IngestionAssumption, FS_Subset, FS_CardinalityType DEF Serving

\* Every step keeps each connection idle or in one transaction.
LEMMA PoolStep == TypeOK /\ PoolBalanced /\ [Next]_vars => PoolBalanced'
<1> SUFFICES ASSUME TypeOK, PoolBalanced, [Next]_vars PROVE PoolBalanced'
  OBVIOUS
<1>t. free \in Nat /\ others \in Nat /\ PoolSize \in Nat /\ pc \in [Clients -> Labels]
  BY IngestionAssumption DEF TypeOK
<1>b. free + others + Cardinality(Serving) = PoolSize
  BY DEF PoolBalanced, Serving
<1>g. PoolBalanced' <=> free' + others' + Cardinality(Serving') = PoolSize
  BY DEF PoolBalanced, Serving
<1>q. ASSUME Serving' = Serving, free' + others' = free + others PROVE PoolBalanced'
  BY <1>b, <1>g, <1>q
<1>r. ASSUME NEW c \in Clients, InTx(c), pc' = [pc EXCEPT ![c] = pc'[c]],
             pc'[c] \in {"idle", "done", "add"}, free' = free + 1, others' = others
      PROVE  PoolBalanced'
  <2>1. c \in Serving /\ Serving' = Serving \ {c}
    BY <1>t, <1>r DEF Serving, InTx
  <2>2. Cardinality(Serving') = Cardinality(Serving) - 1
    BY <2>1, ServingFinite, FS_RemoveElement, Zenon
  <2> QED BY <1>t, <1>b, <1>g, <1>r, <2>2, ServingFinite
<1> USE <1>t DEF db, red, local, vars
<1>1. ASSUME NEW c \in Clients, Connect(c) PROVE PoolBalanced'
  <2>1. c \notin Serving /\ Serving' = Serving \cup {c}
    BY <1>1 DEF Connect, Goto, Serving, InTx
  <2>2. Cardinality(Serving') = Cardinality(Serving) + 1
    BY <2>1, ServingFinite, FS_AddElement, Zenon
  <2> QED BY <1>1, <1>b, <1>g, <2>2, ServingFinite DEF Connect
<1>2. ASSUME NEW c \in Clients, Commit(c) \/ CommitReplyLost(c) PROVE PoolBalanced'
  BY <1>2, <1>r DEF Commit, CommitReplyLost, Abort, Reply, Leave, Goto, InTx
<1>3. ASSUME NEW c \in Clients, QueryFails(c) \/ ApiCrash(c) PROVE PoolBalanced'
  <2>1. CASE InTx(c)
    BY <1>3, <1>r, <2>1 DEF QueryFails, ApiCrash, Abort, Leave, Goto
  <2>2. CASE ~InTx(c)
    <3>1. Serving' = Serving
      BY <1>3, <2>2 DEF QueryFails, ApiCrash, Abort, Leave, Goto, Serving, InTx
    <3> QED BY <1>3, <1>q, <2>2, <3>1 DEF QueryFails, ApiCrash
  <2> QED BY <2>1, <2>2
<1>4. ASSUME NEW c \in Clients,
             \/ Post(c) \/ CacheGet(c) \/ Lookup(c) \/ InsertEvent(c) \/ InsertDelivery(c)
             \/ SelectEvent(c) \/ SelectDelivery(c) \/ EnqueueAdd(c) \/ EnqueueMark(c)
             \/ EnqueueFails(c)
      PROVE  PoolBalanced'
  <2>1. free' = free /\ others' = others
    BY <1>4 DEF Post, CacheGet, Lookup, InsertEvent, InsertDelivery, SelectEvent,
                SelectDelivery, EnqueueAdd, EnqueueMark, EnqueueFails
  <2>2. pc' = [pc EXCEPT ![c] = pc'[c]]
    <3>1. CASE InsertEvent(c) \/ InsertDelivery(c) \/ SelectEvent(c) \/ SelectDelivery(c)
      BY <3>1, Zenon DEF InsertEvent, InsertDelivery, SelectEvent, SelectDelivery, Goto
    <3>2. CASE Post(c) \/ CacheGet(c) \/ EnqueueAdd(c)
      BY <3>2, Zenon DEF Post, CacheGet, EnqueueAdd, Goto
    <3>3. CASE Lookup(c) \/ EnqueueMark(c) \/ EnqueueFails(c)
      BY <3>3 DEF Lookup, EnqueueMark, EnqueueFails, Reply, Leave, Goto
    <3> QED BY <1>4, <3>1, <3>2, <3>3, Zenon
  <2>3. InTx(c)' = InTx(c)
    <3>1. CASE InsertEvent(c)
      BY <3>1 DEF InsertEvent, Goto, InTx
    <3>2. CASE InsertDelivery(c) \/ SelectEvent(c) \/ SelectDelivery(c)
      BY <3>2 DEF InsertDelivery, SelectEvent, SelectDelivery, Goto, InTx
    <3>3. CASE Post(c) \/ CacheGet(c) \/ EnqueueAdd(c)
      BY <3>3 DEF Post, CacheGet, EnqueueAdd, Goto, InTx
    <3>4. CASE Lookup(c) \/ EnqueueMark(c) \/ EnqueueFails(c)
      BY <3>4 DEF Lookup, EnqueueMark, EnqueueFails, Reply, Leave, Goto, InTx
    <3> QED BY <1>4, <3>1, <3>2, <3>3, <3>4, Zenon
  <2>4. Serving' = Serving
    BY <2>2, <2>3 DEF Serving, InTx
  <2> QED BY <1>q, <2>1, <2>4, Zenon
<1>5. ASSUME pc' = pc, free' + others' = free + others PROVE PoolBalanced'
  BY <1>5, <1>q DEF Serving, InTx
<1>6. CASE OtherConnects \/ OtherReleases
  BY <1>5, <1>6 DEF OtherConnects, OtherReleases
<1>7. ASSUME NEW c \in Clients, Refuse(c) PROVE PoolBalanced'
  BY <1>5, <1>7 DEF Refuse
<1>8. CASE \/ \E s \in sets : CacheSet(s)
           \/ \E k \in Keys : CacheExpire(k)
           \/ \E i \in Ids : StartRun(i) \/ FailRun(i) \/ Sweep(i)
  BY <1>5, <1>8, Zenon DEF CacheSet, CacheExpire, StartRun, FailRun, Sweep
<1>9. CASE RedisDown \/ RedisUp \/ RedisWipe \/ UNCHANGED vars
  BY <1>5, <1>9 DEF RedisDown, RedisUp, RedisWipe
<1> HIDE DEF vars
<1> QED BY <1>1, <1>2, <1>3, <1>4, <1>6, <1>7, <1>8, <1>9, Zenon DEF Next, Serve, Fault

-----------------------------------------------------------------------------
(* The inductive invariant, and what single steps keep of it *)

Row(c) == [id |-> id[c], key |-> KeyOf[c]]

\* The request works with an id it took from a committed row.
Follows(c) ==
  \/ pc[c] \in {"lookup", "selectDelivery", "add", "mark"}
  \/ pc[c] = "commit" /\ is_new[c] = FALSE

\* A request that inserted its event is alone with it, and nobody has committed
\* the key; one that follows a committed row names it rightly; one that met a
\* conflict has something to find.
Exclusive ==
  \A c \in Clients :
    Uncommitted(c) => id[c] \in Ids /\ Conflict(c) = {} /\ Rivals(c) = {}
Following == \A c \in Clients : Follows(c) => Row(c) \in events
Finding   == \A c \in Clients : pc[c] = "select" => Conflict(c) # {}

\* is_new says which branch of ingestEvent the request is in.
Branch(c) ==
  /\ pc[c] \in {"select", "selectDelivery"} => is_new[c] = FALSE
  /\ pc[c] = "insertDelivery" => is_new[c] = TRUE
Branches == \A c \in Clients : Branch(c)

\* At most one request of a key is, or has been acknowledged as, its creator.
Created(c) == pc[c] \in {"add", "mark"} \/ answer[c].code = 202
Creating ==
  /\ \A c \in Clients : Created(c) => Conflict(c) # {}
  /\ \A c, d \in Clients : Created(c) /\ Created(d) /\ KeyOf[c] = KeyOf[d] => c = d

IInv ==
  /\ TypeOK /\ OneEventPerKey /\ AckedIsDurable /\ CacheTruthful
  /\ Exclusive /\ Following /\ Finding /\ Branches /\ Creating

-----------------------------------------------------------------------------
(* Types *)

\* The empty database, the empty Redis and the idle clients are well typed.
LEMMA InitType == Init => TypeOK
<1> SUFFICES ASSUME Init PROVE TypeOK
  OBVIOUS
<1>1. redisUp \in BOOLEAN /\ is_new \in [Clients -> BOOLEAN]
  BY DEF Init
<1> QED BY <1>1, IngestionAssumption DEF Init, TypeOK, Labels, NoAnswer

\* The initial states satisfy the invariant: no row, no cached key, and every
\* client idle with no answer yet.
LEMMA InitInv == Init => IInv
<1> SUFFICES ASSUME Init PROVE IInv
  OBVIOUS
<1>1. \A c \in Clients : pc[c] = "idle" /\ answer[c] = NoAnswer
  BY Zenon DEF Init
<1>2. OneEventPerKey /\ CacheTruthful
  BY Zenon DEF Init, OneEventPerKey, CacheTruthful
<1>3. AckedIsDurable /\ Creating
  BY <1>1 DEF AckedIsDurable, Answered, Creating, Created, NoAnswer
<1>4. Exclusive /\ Following
  BY <1>1 DEF Exclusive, Following, Follows, Uncommitted
<1>5. Finding /\ Branches
  BY <1>1 DEF Finding, Branches, Branch
<1> QED BY <1>2, <1>3, <1>4, <1>5, InitType DEF IInv

LocalType ==
  /\ pc \in [Clients -> Labels] /\ id \in [Clients -> Ids \cup {NoId}]
  /\ is_new \in [Clients -> BOOLEAN]
  /\ answer \in [Clients -> [code : {0, 200, 202}, id : Ids \cup {NoId}]]

\* Leaving the handler, with or without an acknowledgement, keeps the types.
LEMMA LeaveType ==
  ASSUME TypeOK, NEW c \in Clients, Reply(c, 200) \/ Reply(c, 202) \/ Abort(c)
  PROVE  LocalType'
<1> USE DEF TypeOK, Reply, Abort, Leave, Goto, Labels
<1>0. is_new' = [is_new EXCEPT ![c] = FALSE] /\ is_new \in [Clients -> BOOLEAN]
  OBVIOUS
<1>1. is_new' \in [Clients -> BOOLEAN]
  BY <1>0, Zenon
<1>2. pc' \in [Clients -> Labels]
  OBVIOUS
<1>3. id' \in [Clients -> Ids \cup {NoId}]
  OBVIOUS
<1>4. answer' \in [Clients -> [code : {0, 200, 202}, id : Ids \cup {NoId}]]
  OBVIOUS
<1> QED BY <1>1, <1>2, <1>3, <1>4, Zenon DEF LocalType

\* A rare event is counted.
LEMMA SpendType ==
  ASSUME TypeOK, NEW e \in RareEvents, Spend(e)
  PROVE  faults' \in [RareEvents -> Nat]
BY IngestionAssumption DEF TypeOK, Spend

\* Whoever follows a committed row holds the id of a committed delivery.
LEMMA FollowsId ==
  ASSUME IInv, NEW c \in Clients, Follows(c)
  PROVE  id[c] \in deliveries /\ id[c] \in Ids
<1>1. Row(c) \in events
  BY DEF IInv, Following
<1>2. Row(c).id = id[c]
  BY DEF Row
<1>3. id[c] \in deliveries
  BY <1>1, <1>2, Zenon DEF IInv, OneEventPerKey
<1> QED BY <1>3 DEF IInv, TypeOK

\* Whoever is about to COMMIT has an id.
LEMMA CommitId ==
  ASSUME IInv, NEW c \in Clients, pc[c] = "commit"
  PROVE  id[c] \in Ids
<1>1. CASE is_new[c]
  BY <1>1 DEF IInv, Exclusive, Uncommitted
<1>2. CASE is_new[c] = FALSE
  BY <1>2, FollowsId, Zenon DEF Follows
<1>3. is_new[c] \in BOOLEAN
  BY Zenon DEF IInv, TypeOK
<1> QED BY <1>1, <1>2, <1>3, Zenon

\* Every step keeps the state well typed; jobs and flags need Following.
LEMMA TypeStep == IInv /\ [Next]_vars => TypeOK'
<1> SUFFICES ASSUME IInv, [Next]_vars PROVE TypeOK'
  OBVIOUS
<1>t. TypeOK
  BY DEF IInv
<1> USE DEF TypeOK, Labels, db, red, local, vars
<1>1. ASSUME NEW c \in Clients, Post(c) \/ Refuse(c) PROVE TypeOK'
  BY <1>t, <1>1 DEF Post, Refuse, Goto
<1>2. ASSUME NEW c \in Clients, Serve(c) PROVE TypeOK'
  <2>k. KeyOf[c] \in Keys
    BY IngestionAssumption, Zenon
  <2>1. CASE CacheGet(c)
    BY <1>t, <2>k, <2>1 DEF CacheGet, Goto
  <2>2. CASE Lookup(c)
    <3>1. LocalType'
      BY <1>t, <2>2, LeaveType DEF Lookup, Goto, LocalType
    <3> QED BY <1>t, <2>2, <3>1, Zenon DEF Lookup, LocalType
  <2>3. CASE Connect(c)
    BY <1>t, <2>3 DEF Connect, Goto
  <2>4. CASE InsertEvent(c)
    <3>1. is_new' \in [Clients -> BOOLEAN]
      BY <1>t, <2>4, Zenon DEF InsertEvent
    <3>2. minted' \subseteq Ids /\ id' \in [Clients -> Ids \cup {NoId}]
      <4>1. CASE Conflict(c) = {}
        <5>1. /\ NewId \in Ids /\ minted' = minted \cup {NewId}
              /\ id' = [id EXCEPT ![c] = NewId]
          BY <2>4, <4>1, Zenon DEF InsertEvent
        <5> HIDE DEF NewId
        <5> QED BY <1>t, <5>1
      <4>2. CASE Conflict(c) # {}
        BY <1>t, <2>4, <4>2, Zenon DEF InsertEvent
      <4> QED BY <4>1, <4>2
    <3>3. pc' \in [Clients -> Labels]
      BY <1>t, <2>4 DEF InsertEvent, Goto
    <3> QED BY <1>t, <2>4, <3>1, <3>2, <3>3, Zenon DEF InsertEvent
  <2>5. CASE InsertDelivery(c)
    BY <1>t, <2>5 DEF InsertDelivery, Goto
  <2>6. CASE SelectEvent(c)
    BY <1>t, <2>6, Zenon DEF SelectEvent, Conflict, Goto
  <2>7. CASE SelectDelivery(c)
    BY <1>t, <2>7, Zenon DEF SelectDelivery, Goto
  <2>8. CASE Commit(c)
    <3>1. LocalType'
      <4>1. CASE is_new[c]
        BY <1>t, <2>8, <4>1 DEF Commit, Goto, LocalType
      <4>2. CASE ~is_new[c]
        <5>1. Reply(c, 200)
          BY <2>8, <4>2, Zenon DEF Commit
        <5> QED BY <1>t, <5>1, LeaveType
      <4> QED BY <4>1, <4>2
    <3>2. id[c] \in Ids
      BY <2>8, CommitId, Zenon DEF Commit
    <3> QED BY <1>t, <2>k, <2>8, <3>1, <3>2 DEF Commit, Persist, LocalType
  <2>9. CASE EnqueueAdd(c)
    <3>1. id[c] \in deliveries
      BY <2>9, FollowsId, Zenon DEF EnqueueAdd, Follows
    <3> QED BY <1>t, <2>9, <3>1 DEF EnqueueAdd, Goto
  <2>10. CASE EnqueueMark(c)
    <3>1. id[c] \in deliveries
      BY <2>10, FollowsId, Zenon DEF EnqueueMark, Follows
    <3>2. LocalType'
      BY <1>t, <2>10, LeaveType DEF EnqueueMark
    <3> QED BY <1>t, <2>10, <3>1, <3>2 DEF EnqueueMark, LocalType
  <2> HIDE DEF TypeOK
  <2> QED BY <1>2, <2>1, <2>2, <2>3, <2>4, <2>5, <2>6, <2>7, <2>8, <2>9, <2>10, Zenon DEF Serve
<1>3. ASSUME NEW c \in Clients, Fault(c) PROVE TypeOK'
  <2>1. faults' \in [RareEvents -> Nat]
    BY <1>t, <1>3, SpendType, Zenon
       DEF Fault, QueryFails, CommitReplyLost, EnqueueFails, ApiCrash, RareEvents
  <2>2. LocalType'
    BY <1>t, <1>3, LeaveType DEF Fault, QueryFails, CommitReplyLost, EnqueueFails, ApiCrash
  <2> USE <1>t, <2>1, <2>2 DEF LocalType
  <2>3. CASE QueryFails(c)
    BY <2>3 DEF QueryFails
  <2>4. CASE CommitReplyLost(c)
    <3>1. id[c] \in Ids
      BY <2>4, CommitId, Zenon DEF CommitReplyLost
    <3> QED BY <2>4, <3>1, IngestionAssumption DEF CommitReplyLost, Persist
  <2>5. CASE EnqueueFails(c)
    BY <2>5, Zenon DEF EnqueueFails
  <2>6. CASE ApiCrash(c)
    BY <2>6 DEF ApiCrash
  <2> HIDE DEF TypeOK
  <2> QED BY <1>3, <2>3, <2>4, <2>5, <2>6, Zenon DEF Fault
<1>4. ASSUME NEW s \in sets, CacheSet(s) PROVE TypeOK'
  BY <1>t, <1>4 DEF CacheSet
<1>5. ASSUME NEW k \in Keys, CacheExpire(k) PROVE TypeOK'
  BY <1>t, <1>5, Zenon DEF CacheExpire
<1>6. ASSUME NEW i \in Ids, StartRun(i) \/ FailRun(i) \/ Sweep(i) PROVE TypeOK'
  BY <1>t, <1>6 DEF StartRun, FailRun, Sweep, Selected
<1>7. CASE RedisDown \/ RedisUp \/ RedisWipe
  <2>1. faults' \in [RareEvents -> Nat]
    BY <1>t, <1>7, SpendType, Zenon DEF RedisDown, RedisUp, RedisWipe, RareEvents
  <2>2. redisUp' \in BOOLEAN
    BY <1>t, <1>7, Zenon DEF RedisDown, RedisUp, RedisWipe
  <2> QED BY <1>t, <1>7, <2>1, <2>2 DEF RedisDown, RedisUp, RedisWipe
<1>8. CASE OtherConnects \/ OtherReleases
  BY <1>t, <1>8 DEF OtherConnects, OtherReleases
<1>9. CASE UNCHANGED vars
  BY <1>t, <1>9, Zenon
<1> HIDE DEF TypeOK, vars
<1> QED BY <1>1, <1>2, <1>3, <1>4, <1>5, <1>6, <1>7, <1>8, <1>9 DEF Next

-----------------------------------------------------------------------------
(* The invariant *)

Core ==
  /\ OneEventPerKey /\ AckedIsDurable /\ CacheTruthful
  /\ Exclusive /\ Following /\ Finding /\ Branches /\ Creating

Sound(c) == [id |-> answer[c].id, key |-> KeyOf[c]] \in events

\* A step of one request that commits nothing keeps the invariant, if the
\* request itself keeps its part of it.
LEMMA QuietStep ==
  ASSUME IInv, NEW c \in Clients,
         UNCHANGED <<events, deliveries, cache>>, sets' \subseteq sets,
         \A d \in Clients \ {c} : /\ pc'[d] = pc[d] /\ id'[d] = id[d]
                                 /\ is_new'[d] = is_new[d] /\ answer'[d] = answer[d],
         Uncommitted(c)' => id'[c] \in Ids /\ Conflict(c) = {} /\ Rivals(c) = {},
         Follows(c)' => Row(c)' \in events,
         pc'[c] = "select" => Conflict(c) # {}, Branch(c)',
         Created(c)' => Created(c),
         Answered(c)' => Sound(c)'
  PROVE  Core'
<1> USE DEF IInv
<1>1. OneEventPerKey'
  BY Zenon DEF OneEventPerKey
<1>2. AckedIsDurable'
  BY Zenon DEF AckedIsDurable, Answered, Sound
<1>3. CacheTruthful'
  BY Zenon DEF CacheTruthful
<1>4. Exclusive'
  <2> SUFFICES ASSUME NEW d \in Clients, Uncommitted(d)'
               PROVE  id'[d] \in Ids /\ Conflict(d)' = {} /\ Rivals(d)' = {}
    BY Zenon DEF Exclusive
  <2>1. \A e \in Clients : Conflict(e)' = Conflict(e)
    BY Zenon DEF Conflict
  <2>2. \A e \in Clients \ {c} : Uncommitted(e)' = Uncommitted(e)
    BY Zenon DEF Uncommitted
  <2>3. CASE d = c
    BY <2>1, <2>2, <2>3, Zenon DEF Rivals
  <2>4. CASE d # c
    <3>1. id[d] \in Ids /\ Conflict(d) = {} /\ Rivals(d) = {} /\ Uncommitted(d)
      BY <2>2, <2>4, Zenon DEF Exclusive
    <3>2. KeyOf[c] = KeyOf[d] => ~Uncommitted(c)'
      BY <2>4, <3>1, Zenon DEF Rivals
    <3> QED BY <2>1, <2>2, <2>4, <3>1, <3>2, Zenon DEF Rivals
  <2> QED BY <2>3, <2>4, Zenon
<1>5. Following'
  BY Zenon DEF Following, Follows, Row
<1>6. Finding'
  BY Zenon DEF Finding, Conflict
<1>7. Branches'
  BY Zenon DEF Branches, Branch
<1>8. Creating'
  BY DEF Creating, Created, Conflict
<1> QED BY <1>1, <1>2, <1>3, <1>4, <1>5, <1>6, <1>7, <1>8, Zenon DEF Core

\* A COMMIT, whether or not its reply arrives, keeps the invariant: a request
\* with a new event is the only one of its key.
LEMMA PersistStep ==
  ASSUME IInv, NEW c \in Clients, pc[c] = "commit", Persist(c),
         cache' = cache, sets' \subseteq sets \cup {[by |-> c, key |-> KeyOf[c], id |-> id[c]]},
         \A d \in Clients \ {c} : /\ pc'[d] = pc[d] /\ id'[d] = id[d]
                                 /\ is_new'[d] = is_new[d] /\ answer'[d] = answer[d],
         pc'[c] \in {"idle", "done", "add"},
         pc'[c] = "add" => is_new[c] /\ id'[c] = id[c],
         answer'[c] = answer[c] \/ answer'[c] = [code |-> 200, id |-> id[c]]
  PROVE  Core'
<1> USE DEF IInv
<1>b. is_new[c] \in BOOLEAN
  BY Zenon DEF TypeOK
<1>r. Row(c) \in events' /\ events' \subseteq events \cup {Row(c)} /\ events \subseteq events'
  <2>1. CASE is_new[c]
    BY <2>1 DEF Persist, Row
  <2>2. CASE is_new[c] = FALSE
    BY <2>2, Zenon DEF Persist, Following, Follows
  <2> QED BY <1>b, <2>1, <2>2, Zenon
<1>x. is_new[c] => Conflict(c) = {} /\ Rivals(c) = {}
  BY Zenon DEF Exclusive, Uncommitted
<1>o. ~is_new[c] => events' = events /\ deliveries' = deliveries
  BY Zenon DEF Persist
<1>k. Row(c).key = KeyOf[c] /\ Row(c).id = id[c]
  BY DEF Row
<1>1. OneEventPerKey'
  <2>1. CASE is_new[c]
    <3>1. events' = events \cup {Row(c)} /\ deliveries' = deliveries \cup {id[c]}
      BY <2>1, Zenon DEF Persist, Row
    <3>2. \A e \in events : e.key # KeyOf[c]
      BY <1>x, <2>1, Zenon DEF Conflict
    <3>3. \A e, f \in events' : e.key = f.key => e = f
      BY <1>k, <3>1, <3>2 DEF OneEventPerKey
    <3>4. deliveries' = {e.id : e \in events'}
      BY <1>k, <3>1 DEF OneEventPerKey
    <3> QED BY <3>3, <3>4, Zenon DEF OneEventPerKey
  <2>2. CASE is_new[c] = FALSE
    BY <1>o, <2>2 DEF OneEventPerKey
  <2> QED BY <1>b, <2>1, <2>2, Zenon
<1>2. AckedIsDurable'
  BY <1>r DEF AckedIsDurable, Answered, Row
<1>3. CacheTruthful'
  BY <1>r DEF CacheTruthful, Row
<1>c. ~Uncommitted(c)'
  BY Zenon DEF Uncommitted
<1>4. Exclusive'
  <2> SUFFICES ASSUME NEW d \in Clients, Uncommitted(d)'
               PROVE  id'[d] \in Ids /\ Conflict(d)' = {} /\ Rivals(d)' = {}
    BY Zenon DEF Exclusive
  <2>1. d # c
    BY <1>c, Zenon
  <2>2. \A e \in Clients \ {c} : Uncommitted(e)' = Uncommitted(e)
    BY Zenon DEF Uncommitted
  <2>3. id[d] \in Ids /\ Conflict(d) = {} /\ Rivals(d) = {} /\ Uncommitted(d)
    BY <2>1, <2>2, Zenon DEF Exclusive
  <2>4. Rivals(d)' = {}
    BY <1>c, <2>2, <2>3, Zenon DEF Rivals
  <2>5. Conflict(d)' = {}
    <3>1. CASE is_new[c]
      BY <1>x, <1>r, <1>k, <2>1, <2>3, <3>1 DEF Conflict, Rivals
    <3>2. CASE is_new[c] = FALSE
      BY <1>o, <2>3, <3>2, Zenon DEF Conflict
    <3> QED BY <1>b, <3>1, <3>2, Zenon
  <2> QED BY <2>1, <2>3, <2>4, <2>5, Zenon
<1>5. Following'
  BY <1>r, Zenon DEF Following, Follows, Row
<1>6. Finding'
  BY <1>r, Zenon DEF Finding, Conflict
<1>7. Branches'
  BY Zenon DEF Branches, Branch
<1>8. Creating'
  <2>1. \A d \in Clients : Conflict(d) # {} => Conflict(d)' # {}
    BY <1>r, Zenon DEF Conflict
  <2>2. Conflict(c)' # {}
    BY <1>r, <1>k, Zenon DEF Conflict
  <2>3. \A d \in Clients \ {c} : Created(d)' = Created(d)
    BY DEF Created
  <2>4. Created(c)' => Created(c) \/ is_new[c]
    BY DEF Created
  <2>5. is_new[c] => \A d \in Clients : KeyOf[d] = KeyOf[c] => ~Created(d)
    BY <1>x DEF Creating, Conflict
  <2> QED BY <2>1, <2>2, <2>3, <2>4, <2>5 DEF Creating
<1> QED BY <1>1, <1>2, <1>3, <1>4, <1>5, <1>6, <1>7, <1>8, Zenon DEF Core

\* Where a request that met a conflict is after finding the event.
LEMMA SelectFacts ==
  ASSUME TypeOK, NEW c \in Clients, SelectEvent(c)
  PROVE  pc[c] = "select" /\ pc'[c] = "selectDelivery" /\ is_new'[c] = is_new[c]
BY DEF TypeOK, SelectEvent, Goto

\* Where an insert leads: to a row of its own if the key was free, with nobody
\* else holding an uncommitted one, and to the existing row otherwise.
LEMMA InsertFacts ==
  ASSUME NEW c \in Clients, pc \in [Clients -> Labels],
         id \in [Clients -> Ids \cup {NoId}], InsertEvent(c)
  PROVE  /\ pc[c] = "insert" /\ Rivals(c) = {}
         /\ pc'[c] = IF Conflict(c) = {} THEN "insertDelivery" ELSE "select"
         /\ Conflict(c) = {} => id'[c] \in Ids
BY DEF InsertEvent, Goto

-----------------------------------------------------------------------------
(* The invariant is kept *)

\* Every step of the handler, of Redis, of the sweep and every fault keeps the
\* invariant.
LEMMA CoreStep == IInv /\ [Next]_vars => Core'
<1> SUFFICES ASSUME IInv, [Next]_vars PROVE Core'
  OBVIOUS
<1>t. /\ pc \in [Clients -> Labels] /\ id \in [Clients -> Ids \cup {NoId}]
      /\ is_new \in [Clients -> BOOLEAN] /\ cache \in [Keys -> Ids \cup {NoId}]
      /\ answer \in [Clients -> [code : {0, 200, 202}, id : Ids \cup {NoId}]]
      /\ sets \subseteq [by : Clients, key : Keys, id : Ids]
      /\ NoId \notin Ids /\ KeyOf \in [Clients -> Keys]
  BY IngestionAssumption DEF IInv, TypeOK
<1> USE <1>t DEF db, red, local, vars
<1>a. \A c \in Clients : Answered(c) => Sound(c)
  BY Zenon DEF IInv, AckedIsDurable, Sound
<1>f. \A c \in Clients : Follows(c) => Row(c) \in events
  BY Zenon DEF IInv, Following
<1>e. \A e \in events : e = [id |-> e.id, key |-> e.key]
  BY DEF IInv, TypeOK
<1>1. ASSUME NEW c \in Clients, Post(c) \/ QueryFails(c) \/ ApiCrash(c) PROVE Core'
  <2>1. UNCHANGED <<events, deliveries, cache, answer>> /\ sets' \subseteq sets
    BY <1>1, Zenon DEF Post, QueryFails, ApiCrash, Abort
  <2>2. pc'[c] \in {"get", "idle"}
    BY <1>1 DEF Post, QueryFails, ApiCrash, Abort, Leave, Goto
  <2>3. \A d \in Clients \ {c} : pc'[d] = pc[d] /\ id'[d] = id[d] /\ is_new'[d] = is_new[d]
    BY <1>1 DEF Post, QueryFails, ApiCrash, Abort, Leave, Goto
  <2>4. Answered(c)' => Sound(c)'
    BY <1>a, <2>1, Zenon DEF Answered, Sound
  <2>5. ~Uncommitted(c)' /\ ~Follows(c)' /\ pc'[c] # "select" /\ Branch(c)'
    BY <2>2, Zenon DEF Uncommitted, Follows, Branch
  <2>6. Created(c)' => Created(c)
    BY <2>1, <2>2 DEF Created
  <2> QED BY <2>1, <2>3, <2>4, <2>5, <2>6, QuietStep, Zenon
<1>2. ASSUME NEW c \in Clients, Lookup(c) \/ EnqueueMark(c) \/ EnqueueFails(c) PROVE Core'
  <2>1. UNCHANGED <<events, deliveries, cache, sets>>
    BY <1>2, Zenon DEF Lookup, EnqueueMark, EnqueueFails
  <2>2. pc'[c] \in {"connect", "done"}
    BY <1>2 DEF Lookup, EnqueueMark, EnqueueFails, Reply, Leave, Goto
  <2>3. \A d \in Clients \ {c} : /\ pc'[d] = pc[d] /\ id'[d] = id[d]
                                /\ is_new'[d] = is_new[d] /\ answer'[d] = answer[d]
    BY <1>2 DEF Lookup, EnqueueMark, EnqueueFails, Reply, Leave, Goto
  <2>4. Answered(c)' => Sound(c)'
    <3>1. Row(c) \in events
      BY <1>2, <1>f, Zenon DEF Lookup, EnqueueMark, EnqueueFails, Follows
    <3>2. answer'[c] = answer[c] \/ answer'[c].id = id[c]
      BY <1>2 DEF Lookup, EnqueueMark, EnqueueFails, Reply
    <3> QED BY <1>a, <2>1, <3>1, <3>2, Zenon DEF Answered, Sound, Row
  <2>5. ~Uncommitted(c)' /\ ~Follows(c)' /\ pc'[c] # "select" /\ Branch(c)'
    BY <2>2, Zenon DEF Uncommitted, Follows, Branch
  <2>6. Created(c)' => Created(c)
    BY <1>2 DEF Lookup, EnqueueMark, EnqueueFails, Reply, Leave, Goto, Created
  <2> QED BY <2>1, <2>3, <2>4, <2>5, <2>6, QuietStep, Zenon
<1>3. ASSUME NEW c \in Clients,
             \/ CacheGet(c) \/ Connect(c) \/ InsertEvent(c) \/ InsertDelivery(c)
             \/ SelectEvent(c) \/ SelectDelivery(c) \/ EnqueueAdd(c)
      PROVE  Core'
  <2> DEFINE Alone    == Uncommitted(c)' => id'[c] \in Ids /\ Conflict(c) = {} /\ Rivals(c) = {}
             Found    == pc'[c] = "select" => Conflict(c) # {}
             Followed == Follows(c)' => Row(c)' \in events
             Good     == Branch(c)' /\ Alone /\ Found /\ Followed /\ (Created(c)' => Created(c))
  <2>1. UNCHANGED <<events, deliveries, cache, sets, answer>>
    BY <1>3, Zenon DEF CacheGet, Connect, InsertEvent, InsertDelivery, SelectEvent, SelectDelivery,
                EnqueueAdd
  <2>2. \A d \in Clients \ {c} : pc'[d] = pc[d] /\ id'[d] = id[d] /\ is_new'[d] = is_new[d]
    <3>1. CASE InsertEvent(c)
      BY <3>1 DEF InsertEvent, Goto
    <3>2. CASE CacheGet(c) \/ Connect(c) \/ EnqueueAdd(c)
      BY <3>2 DEF CacheGet, Connect, EnqueueAdd, Goto
    <3>3. CASE InsertDelivery(c) \/ SelectEvent(c) \/ SelectDelivery(c)
      BY <3>3 DEF InsertDelivery, SelectEvent, SelectDelivery, Goto
    <3> QED BY <1>3, <3>1, <3>2, <3>3, Zenon
  <2>3. Answered(c)' => Sound(c)'
    BY <1>a, <2>1, Zenon DEF Answered, Sound
  <2>b. Branch(c)
    BY Zenon DEF IInv, Branches
  <2>4. ASSUME CacheGet(c) PROVE Good
    <3>1. pc'[c] \in {"lookup", "connect"} /\ id'[c] = cache[KeyOf[c]]
      BY <2>4 DEF CacheGet, Goto
    <3>2. pc'[c] = "lookup" => Row(c)' \in events
      BY <2>4, <3>1 DEF CacheGet, Goto, IInv, CacheTruthful, Row
    <3> QED BY <2>1, <3>1, <3>2, Zenon DEF Branch, Uncommitted, Follows, Created
  <2>5. ASSUME Connect(c) PROVE Good
    <3>1. pc'[c] = "insert"
      BY <2>5 DEF Connect, Goto
    <3> QED BY <2>1, <3>1, Zenon DEF Branch, Uncommitted, Follows, Created
  <2>6. ASSUME InsertEvent(c) PROVE Good
    <3>1. is_new'[c] = (Conflict(c) = {})
      BY <2>6, Zenon DEF InsertEvent
    <3>2. /\ Rivals(c) = {} /\ (Conflict(c) = {} => id'[c] \in Ids)
          /\ pc'[c] = IF Conflict(c) = {} THEN "insertDelivery" ELSE "select"
      BY <2>6, InsertFacts
    <3>3. Branch(c)'
      BY <3>1, <3>2, Zenon DEF Branch
    <3> QED BY <2>1, <3>2, <3>3, Zenon DEF Uncommitted, Follows, Created
  <2>7. ASSUME InsertDelivery(c) PROVE Good
    <3>1. /\ pc[c] = "insertDelivery" /\ pc'[c] = "commit"
          /\ id'[c] = id[c] /\ is_new'[c] = is_new[c]
      BY <2>7 DEF InsertDelivery, Goto
    <3>2. is_new[c]
      BY <2>b, <3>1, Zenon DEF Branch
    <3>3. id[c] \in Ids /\ Conflict(c) = {} /\ Rivals(c) = {}
      BY <3>1, Zenon DEF IInv, Exclusive, Uncommitted
    <3> QED BY <2>1, <3>1, <3>2, <3>3, Zenon DEF Branch, Uncommitted, Follows, Created
  <2>8. ASSUME SelectEvent(c) PROVE Good
    <3>1. PICK e \in Conflict(c) : id' = [id EXCEPT ![c] = e.id]
      BY <2>8, Zenon DEF SelectEvent
    <3>2. pc[c] = "select" /\ pc'[c] = "selectDelivery" /\ is_new'[c] = is_new[c]
      BY <1>t, <2>8, SelectFacts, Zenon DEF IInv
    <3>3. e \in events /\ e.key = KeyOf[c] /\ e = [id |-> e.id, key |-> e.key]
      BY <1>e, <3>1, Zenon DEF Conflict
    <3>4. Row(c)' \in events
      BY <3>1, <3>3 DEF Row
    <3> QED BY <2>1, <2>b, <3>2, <3>4, Zenon DEF Branch, Uncommitted, Follows, Created
  <2>9. ASSUME SelectDelivery(c) PROVE Good
    <3>1. /\ pc[c] = "selectDelivery" /\ pc'[c] = "commit"
          /\ id'[c] = id[c] /\ is_new'[c] = is_new[c]
      BY <2>9 DEF SelectDelivery, Goto
    <3>2. ~is_new[c]
      BY <2>b, <3>1, Zenon DEF Branch
    <3>3. Row(c)' \in events
      BY <1>f, <3>1, Zenon DEF Follows, Row
    <3> QED BY <2>1, <3>1, <3>2, <3>3, Zenon DEF Branch, Uncommitted, Follows, Created
  <2>10. ASSUME EnqueueAdd(c) PROVE Good
    <3>1. pc[c] = "add" /\ pc'[c] = "mark" /\ id'[c] = id[c]
      BY <2>10 DEF EnqueueAdd, Goto
    <3>2. Row(c)' \in events
      BY <1>f, <3>1, Zenon DEF Follows, Row
    <3> QED BY <2>1, <3>1, <3>2, Zenon DEF Branch, Uncommitted, Follows, Created
  <2>11. Good
    BY <1>3, <2>4, <2>5, <2>6, <2>7, <2>8, <2>9, <2>10, Zenon
  <2> QED BY <2>1, <2>2, <2>3, <2>11, QuietStep, Zenon
<1>4. ASSUME NEW c \in Clients, Commit(c) \/ CommitReplyLost(c) PROVE Core'
  <2>1. /\ pc[c] = "commit" /\ Persist(c) /\ cache' = cache
        /\ sets' \subseteq sets \cup {[by |-> c, key |-> KeyOf[c], id |-> id[c]]}
    BY <1>4, Zenon DEF Commit, CommitReplyLost
  <2>2. \A d \in Clients \ {c} : /\ pc'[d] = pc[d] /\ id'[d] = id[d]
                                /\ is_new'[d] = is_new[d] /\ answer'[d] = answer[d]
    BY <1>4 DEF Commit, CommitReplyLost, Abort, Reply, Leave, Goto
  <2>3. pc'[c] \in {"idle", "done", "add"} /\ (pc'[c] = "add" => is_new[c] /\ id'[c] = id[c])
    BY <1>4 DEF Commit, CommitReplyLost, Abort, Reply, Leave, Goto
  <2>4. answer'[c] = answer[c] \/ answer'[c] = [code |-> 200, id |-> id[c]]
    BY <1>4 DEF Commit, CommitReplyLost, Abort, Reply
  <2> QED BY <2>1, <2>2, <2>3, <2>4, PersistStep, Zenon
<1>5. ASSUME UNCHANGED <<events, deliveries, local>>, CacheTruthful' PROVE Core'
  BY <1>5 DEF IInv, Core, OneEventPerKey, AckedIsDurable, Exclusive, Following, Finding,
              Branches, Branch, Creating, Answered, Uncommitted, Conflict, Rivals, Follows, Row, Created
<1>6. ASSUME NEW s \in sets, CacheSet(s) PROVE Core'
  BY <1>5, <1>6 DEF CacheSet, IInv, CacheTruthful
<1>7. ASSUME NEW k \in Keys, CacheExpire(k) PROVE Core'
  BY <1>5, <1>7 DEF CacheExpire, IInv, CacheTruthful
<1>8. ASSUME NEW i \in Ids, StartRun(i) \/ FailRun(i) \/ Sweep(i) PROVE Core'
  BY <1>5, <1>8, Zenon DEF StartRun, FailRun, Sweep, IInv, CacheTruthful
<1>9. CASE RedisDown \/ RedisUp \/ RedisWipe
  BY <1>5, <1>9 DEF RedisDown, RedisUp, RedisWipe, IInv, CacheTruthful
<1>10. CASE OtherConnects \/ OtherReleases \/ UNCHANGED vars
  BY <1>5, <1>10, Zenon DEF OtherConnects, OtherReleases, IInv, CacheTruthful
<1>11. ASSUME NEW c \in Clients, Refuse(c) PROVE Core'
  BY <1>10, <1>11 DEF Refuse
<1> HIDE DEF vars
<1> QED BY <1>1, <1>2, <1>3, <1>4, <1>6, <1>7, <1>8, <1>9, <1>10, <1>11 DEF Next, Serve, Fault

\* The invariant holds in every reachable state.
LEMMA Invariance == Spec => []IInv
<1>1. Init => IInv
  BY InitInv
<1>2. IInv /\ [Next]_vars => IInv'
  BY TypeStep, CoreStep DEF IInv, Core
<1> QED BY <1>1, <1>2, PTL DEF Spec

\* Every table, key and local stays within its type; jobs and flags belong to
\* committed deliveries.
THEOREM TypeCorrect == Spec => []TypeOK
BY Invariance, PTL DEF IInv

\* A key has one event and every event its delivery, whatever the cache and the
\* faults do.
THEOREM DedupeCorrect == Spec => []OneEventPerKey
<1>1. IInv => OneEventPerKey
  BY DEF IInv
<1> QED BY <1>1, Invariance, PTL

\* No client is acknowledged before its event is on disk under its key.
THEOREM DurabilityCorrect == Spec => []AckedIsDurable
<1>1. IInv => AckedIsDurable
  BY DEF IInv
<1> QED BY <1>1, Invariance, PTL

\* The fast path never names an event that is not the committed one of its key.
THEOREM CacheCorrect == Spec => []CacheTruthful
<1>1. IInv => CacheTruthful
  BY DEF IInv
<1> QED BY <1>1, Invariance, PTL

\* At most one request of a key is answered 202.
THEOREM CreatorCorrect == Spec => []OneCreator
<1>1. IInv => OneCreator
  BY DEF IInv, Creating, Created, OneCreator
<1> QED BY <1>1, Invariance, PTL

\* A request that met a conflict finds the event and its delivery: the
\* `rows[0]!` of ingestEvent are there.
THEOREM DuplicateCorrect == Spec => []DuplicateFindsRows
<1>1. IInv => DuplicateFindsRows
  BY FollowsId, Zenon DEF IInv, Finding, Follows, DuplicateFindsRows
<1> QED BY <1>1, Invariance, PTL

\* No path out of ingestEvent, failed and lost ones included, leaks or returns
\* twice a connection of the pool.
THEOREM PoolCorrect == Spec => []PoolBalanced
<1>1. Init => PoolBalanced
  <2> SUFFICES ASSUME Init PROVE PoolBalanced
    OBVIOUS
  <2>1. {c \in Clients : InTx(c)} = {}
    BY DEF Init, InTx
  <2>2. Cardinality({c \in Clients : InTx(c)}) = 0
    BY <2>1, FS_EmptySet
  <2> QED BY <2>2, IngestionAssumption DEF Init, PoolBalanced
<1> QED BY <1>1, PoolStep, TypeCorrect, PTL DEF Spec
=============================================================================
