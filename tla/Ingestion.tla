----------------------------- MODULE Ingestion ------------------------------
(***************************************************************************)
(* POST /v1/events: clients that send an event under an idempotency key    *)
(* and repeat it until it is acknowledged, the Redis fast path, the        *)
(* transaction that is the real gate, the enqueue, and the sweep that      *)
(* makes up for a lost one.  Every query and every Redis command is a      *)
(* step.  A key stands for a pair (client_id, idempotency_key); an id      *)
(* stands for an event and for the delivery created with it.               *)
(***************************************************************************)
EXTENDS Naturals, FiniteSets

CONSTANTS
  Clients, Keys,
  KeyOf,            \* the key under which each client sends its event
  Ids, NoId,        \* the uuids the database hands out, and none of them
  PoolSize,         \* connections in the API's pool (max: 10)
  Budget            \* how often each rare event may happen

\* A query fails; the reply of a COMMIT is lost; the API dies; Redis is down
\* for a while; Redis loses its data.
RareEvents == {"db", "reply", "crash", "outage", "wipe"}

ASSUME IngestionAssumption ==
  /\ IsFiniteSet(Clients) /\ KeyOf \in [Clients -> Keys]
  /\ NoId \notin Ids
  /\ PoolSize \in Nat \ {0}
  /\ Budget \in [RareEvents -> Nat]

VARIABLES
  events,           \* committed rows of events: [id, key]
  deliveries,       \* committed rows of deliveries, by id
  enqueued,         \* those with enqueued = true
  waiting,          \* those PENDING or FAILED; the others are DELIVERING or settled
  minted,           \* every uuid handed out, rolled back ones included
  cache,            \* wh:idem:{client}:{key}
  sets,             \* SETs of that key under way: [by, key, id]
  jobs,             \* ids of the jobs in the queue
  redisUp,
  free, others,     \* connections of the pool: idle, held by other routes
  pc, id, is_new,   \* per client: where its request is, and the request's locals
  answer,           \* per client: the acknowledgement it got
  faults            \* rare events so far

db    == <<events, deliveries, enqueued, waiting, minted>>
red   == <<cache, sets, jobs, redisUp>>
local == <<pc, id, is_new, answer>>
vars  == <<db, red, free, others, local, faults>>

Labels == {"idle", "get", "lookup", "connect", "insert", "insertDelivery",
           "select", "selectDelivery", "commit", "add", "mark", "done"}

\* The request holds a connection, and has an event row only it can see.
InTx(c)        == pc[c] \in {"insert", "insertDelivery", "select", "selectDelivery", "commit"}
Uncommitted(c) == pc[c] = "insertDelivery" \/ (pc[c] = "commit" /\ is_new[c])

NoAnswer == [code |-> 0, id |-> NoId]

TypeOK ==
  /\ events \subseteq [id : Ids, key : Keys] /\ deliveries \subseteq Ids
  /\ enqueued \subseteq deliveries /\ waiting \subseteq deliveries /\ minted \subseteq Ids
  /\ cache \in [Keys -> Ids \cup {NoId}]
  /\ sets \subseteq [by : Clients, key : Keys, id : Ids]
  /\ jobs \subseteq deliveries /\ redisUp \in BOOLEAN
  /\ free \in Nat /\ others \in Nat
  /\ pc \in [Clients -> Labels] /\ id \in [Clients -> Ids \cup {NoId}]
  /\ is_new \in [Clients -> BOOLEAN]
  /\ answer \in [Clients -> [code : {0, 200, 202}, id : Ids \cup {NoId}]]
  /\ faults \in [RareEvents -> Nat]

Init ==
  /\ events = {} /\ deliveries = {} /\ enqueued = {} /\ waiting = {} /\ minted = {}
  /\ cache = [k \in Keys |-> NoId] /\ sets = {} /\ jobs = {} /\ redisUp = TRUE
  /\ free = PoolSize /\ others = 0
  /\ pc = [c \in Clients |-> "idle"] /\ id = [c \in Clients |-> NoId]
  /\ is_new = [c \in Clients |-> FALSE]
  /\ answer = [c \in Clients |-> NoAnswer]
  /\ faults = [e \in RareEvents |-> 0]

Spend(e) == faults[e] < Budget[e] /\ faults' = [faults EXCEPT ![e] = @ + 1]

Goto(c, label) == pc' = [pc EXCEPT ![c] = label]

\* The handler is left, and its locals with it.
Leave(c, label) ==
  /\ Goto(c, label)
  /\ id' = [id EXCEPT ![c] = NoId]
  /\ is_new' = [is_new EXCEPT ![c] = FALSE]

Reply(c, code) ==
  /\ answer' = [answer EXCEPT ![c] = [code |-> code, id |-> id[c]]]
  /\ Leave(c, "done")

\* No acknowledgement: the client will send its event again.
Abort(c) == Leave(c, "idle") /\ UNCHANGED answer

-----------------------------------------------------------------------------
(* The handler *)

\* The request passes the backpressure check, the validation of its header and
\* body, and the SELECT that finds its endpoint active.
Post(c) ==
  /\ pc[c] = "idle"
  /\ Goto(c, "get")
  /\ UNCHANGED <<db, red, free, id, is_new, answer, faults, others>>

\* Or it is turned away (429, 400, 413, 404, 409, 503) and may be sent again.
Refuse(c) ==
  /\ pc[c] = "idle"
  /\ UNCHANGED vars

\* The fast path: GET.
CacheGet(c) ==
  /\ pc[c] = "get" /\ redisUp
  /\ LET hit == cache[KeyOf[c]] IN
       /\ id' = [id EXCEPT ![c] = hit]
       /\ Goto(c, IF hit # NoId THEN "lookup" ELSE "connect")
  /\ UNCHANGED <<db, red, free, is_new, answer, faults, others>>

\* The cached event's delivery; without one the request goes the slow way.
Lookup(c) ==
  /\ pc[c] = "lookup" /\ free > 0
  /\ IF id[c] \in deliveries
     THEN Reply(c, 200)
     ELSE Goto(c, "connect") /\ UNCHANGED <<id, is_new, answer>>
  /\ UNCHANGED <<db, red, free, faults, others>>

\* pool.connect and BEGIN.
Connect(c) ==
  /\ pc[c] = "connect" /\ free > 0
  /\ free' = free - 1
  /\ Goto(c, "insert")
  /\ UNCHANGED <<db, red, id, is_new, answer, faults, others>>

\* Mutant: a transaction does not wait for the one that inserted the key.
Rivals_Unseen(c) == {}

\* uq_events_client_idem makes an insert wait for a transaction that has
\* inserted the same key and not ended.
Rivals(c) == {r \in Clients \ {c} : KeyOf[r] = KeyOf[c] /\ Uncommitted(r)}

\* Mutant: there is no unique constraint.
Conflict_None(c) == {}

Conflict(c) == {e \in events : e.key = KeyOf[c]}

\* gen_random_uuid: which fresh id does not matter.
NewId == CHOOSE i \in Ids : i \notin minted

\* Mutant: the id is cached as soon as the row is inserted.
InsertEvent_CachesEarly(c) ==
  /\ pc[c] = "insert" /\ Rivals(c) = {}
  /\ IF Conflict(c) = {}
     THEN LET i == NewId IN
            /\ i \in Ids \ minted
            /\ minted' = minted \cup {i}
            /\ id' = [id EXCEPT ![c] = i]
            /\ sets' = sets \cup {[by |-> c, key |-> KeyOf[c], id |-> i]}
            /\ Goto(c, "insertDelivery")
     ELSE Goto(c, "select") /\ UNCHANGED <<minted, id, sets>>
  /\ is_new' = [is_new EXCEPT ![c] = Conflict(c) = {}]
  /\ UNCHANGED <<events, deliveries, enqueued, waiting, cache, jobs, redisUp, free, answer, faults, others>>

\* INSERT ... ON CONFLICT DO NOTHING RETURNING id.
InsertEvent(c) ==
  /\ pc[c] = "insert" /\ Rivals(c) = {}
  /\ IF Conflict(c) = {}
     THEN LET i == NewId IN
            /\ i \in Ids \ minted
            /\ minted' = minted \cup {i}
            /\ id' = [id EXCEPT ![c] = i]
            /\ Goto(c, "insertDelivery")
     ELSE Goto(c, "select") /\ UNCHANGED <<minted, id>>
  /\ is_new' = [is_new EXCEPT ![c] = Conflict(c) = {}]
  /\ UNCHANGED <<events, deliveries, enqueued, waiting, red, free, answer, faults, others>>

\* The delivery and its first transition row.
InsertDelivery(c) ==
  /\ pc[c] = "insertDelivery"
  /\ Goto(c, "commit")
  /\ UNCHANGED <<db, red, free, id, is_new, answer, faults, others>>

\* A duplicate reads the event under its key, then that event's delivery.
SelectEvent(c) ==
  /\ pc[c] = "select"
  /\ \E e \in Conflict(c) : id' = [id EXCEPT ![c] = e.id]
  /\ Goto(c, "selectDelivery")
  /\ UNCHANGED <<db, red, free, is_new, answer, faults, others>>

SelectDelivery(c) ==
  /\ pc[c] = "selectDelivery" /\ id[c] \in deliveries
  /\ Goto(c, "commit")
  /\ UNCHANGED <<db, red, free, id, is_new, answer, faults, others>>

\* Mutant: the delivery is not part of the transaction.
Persist_EventOnly(c) ==
  /\ events' = IF is_new[c] THEN events \cup {[id |-> id[c], key |-> KeyOf[c]]} ELSE events
  /\ UNCHANGED <<deliveries, enqueued, waiting, minted>>

\* What a COMMIT makes visible.
Persist(c) ==
  /\ events' = IF is_new[c] THEN events \cup {[id |-> id[c], key |-> KeyOf[c]]} ELSE events
  /\ deliveries' = IF is_new[c] THEN deliveries \cup {id[c]} ELSE deliveries
  /\ waiting' = IF is_new[c] THEN waiting \cup {id[c]} ELSE waiting
  /\ UNCHANGED <<enqueued, minted>>

\* COMMIT, the SET nobody waits for, and the connection's release.  Only the
\* request that created the delivery enqueues it.
Commit(c) ==
  /\ pc[c] = "commit"
  /\ Persist(c)
  /\ sets' = sets \cup {[by |-> c, key |-> KeyOf[c], id |-> id[c]]}
  /\ free' = free + 1
  /\ IF is_new[c]
     THEN Goto(c, "add") /\ UNCHANGED <<id, is_new, answer>>
     ELSE Reply(c, 200)
  /\ UNCHANGED <<cache, jobs, redisUp, faults, others>>

\* enqueueDelivery: add ...
EnqueueAdd(c) ==
  /\ pc[c] = "add" /\ redisUp
  /\ jobs' = jobs \cup {id[c]}
  /\ Goto(c, "mark")
  /\ UNCHANGED <<db, cache, sets, redisUp, free, id, is_new, answer, faults, others>>

\* ... and UPDATE enqueued = true; then the 202.
EnqueueMark(c) ==
  /\ pc[c] = "mark" /\ free > 0
  /\ enqueued' = enqueued \cup {id[c]}
  /\ Reply(c, 202)
  /\ UNCHANGED <<events, deliveries, waiting, minted, red, free, faults, others>>

\* The other routes of the process share the pool.
OtherConnects ==
  /\ free > 0
  /\ free' = free - 1 /\ others' = others + 1
  /\ UNCHANGED <<db, red, local, faults>>

OtherReleases ==
  /\ others > 0
  /\ free' = free + 1 /\ others' = others - 1
  /\ UNCHANGED <<db, red, local, faults>>

-----------------------------------------------------------------------------
(* Redis and the reconciler *)

CacheSet(s) ==
  /\ redisUp /\ s \in sets
  /\ sets' = sets \ {s}
  /\ cache' = [cache EXCEPT ![s.key] = s.id]
  /\ UNCHANGED <<db, jobs, redisUp, free, local, faults, others>>

\* IDEM_TTL_SECONDS is over.
CacheExpire(k) ==
  /\ redisUp /\ cache[k] # NoId
  /\ cache' = [cache EXCEPT ![k] = NoId]
  /\ UNCHANGED <<db, sets, jobs, redisUp, free, local, faults, others>>

\* A worker takes the job of a row that waits and makes it DELIVERING ...
StartRun(i) ==
  /\ i \in waiting /\ i \in jobs /\ redisUp
  /\ waiting' = waiting \ {i}
  /\ UNCHANGED <<events, deliveries, enqueued, minted, red, free, local, faults, others>>

\* ... and records a failed attempt, also if Redis has lost the job meanwhile.
\* A run that settles its row has no such step.  How runs go is the subject of
\* DeliveryEngine.
FailRun(i) ==
  /\ i \in deliveries \ waiting
  /\ waiting' = waiting \cup {i}
  /\ UNCHANGED <<events, deliveries, enqueued, minted, red, free, local, faults, others>>

\* Mutant: the earlier query, which took enqueued = false only.
Selected_Unflagged(i) == i \in waiting \ enqueued

\* claimUnenqueued takes rows that are PENDING, or FAILED and overdue, whatever
\* their flag says, and never a DELIVERING one.
Selected(i) == i \in waiting

Sweep(i) ==
  /\ redisUp /\ Selected(i)
  /\ jobs' = jobs \cup {i}
  /\ enqueued' = enqueued \cup {i}
  /\ UNCHANGED <<events, deliveries, waiting, minted, cache, sets, redisUp, free, local, faults,
                 others>>

-----------------------------------------------------------------------------
(* Faults *)

\* Mutant: the connection is not released when a query fails.
QueryFails_Leaks(c) ==
  /\ pc[c] \in {"lookup", "connect"} \/ InTx(c)
  /\ Spend("db")
  /\ Abort(c)
  /\ UNCHANGED <<db, red, free, others>>

\* Mutant: the error is swallowed and the request acknowledged.
QueryFails_Acked(c) ==
  /\ pc[c] \in {"lookup", "connect"} \/ InTx(c)
  /\ Spend("db")
  /\ IF pc[c] = "commit" THEN Reply(c, 202) ELSE Abort(c)
  /\ free' = IF InTx(c) THEN free + 1 ELSE free
  /\ UNCHANGED <<db, red, others>>

\* A query, or the wait for a connection, fails: ROLLBACK, release, 500.
QueryFails(c) ==
  /\ pc[c] \in {"lookup", "connect"} \/ InTx(c)
  /\ Spend("db")
  /\ Abort(c)
  /\ free' = IF InTx(c) THEN free + 1 ELSE free
  /\ UNCHANGED <<db, red, others>>

\* The COMMIT succeeds and its reply does not arrive: 500 for a durable event.
CommitReplyLost(c) ==
  /\ pc[c] = "commit"
  /\ Spend("reply")
  /\ Persist(c)
  /\ Abort(c)
  /\ free' = free + 1
  /\ UNCHANGED <<red, others>>

\* A failed enqueue is logged and left to the sweep.
EnqueueFails(c) ==
  /\ pc[c] \in {"add", "mark"}
  /\ Spend("db")
  /\ Reply(c, 202)
  /\ UNCHANGED <<db, red, free, others>>

\* The process serving c dies, and with it its transaction and its SET.
ApiCrash(c) ==
  /\ pc[c] \notin {"idle", "done"}
  /\ Spend("crash")
  /\ Abort(c)
  /\ sets' = {s \in sets : s.by # c}
  /\ free' = IF InTx(c) THEN free + 1 ELSE free
  /\ UNCHANGED <<db, cache, jobs, redisUp, others>>

RedisDown ==
  /\ redisUp /\ Spend("outage")
  /\ redisUp' = FALSE
  /\ UNCHANGED <<db, cache, sets, jobs, free, local, others>>

RedisUp ==
  /\ ~redisUp
  /\ redisUp' = TRUE
  /\ UNCHANGED <<db, cache, sets, jobs, free, local, faults, others>>

RedisWipe ==
  /\ Spend("wipe")
  /\ cache' = [k \in Keys |-> NoId] /\ jobs' = {}
  /\ UNCHANGED <<db, sets, redisUp, free, local, others>>

-----------------------------------------------------------------------------
Serve(c) ==
  \/ CacheGet(c) \/ Lookup(c) \/ Connect(c) \/ InsertEvent(c) \/ InsertDelivery(c)
  \/ SelectEvent(c) \/ SelectDelivery(c) \/ Commit(c) \/ EnqueueAdd(c) \/ EnqueueMark(c)

Fault(c) == QueryFails(c) \/ CommitReplyLost(c) \/ EnqueueFails(c) \/ ApiCrash(c)

Next ==
  \/ \E c \in Clients : Post(c) \/ Refuse(c) \/ Serve(c) \/ Fault(c)
  \/ \E s \in sets : CacheSet(s)
  \/ \E k \in Keys : CacheExpire(k)
  \/ \E i \in Ids : StartRun(i) \/ FailRun(i) \/ Sweep(i)
  \/ OtherConnects \/ OtherReleases
  \/ RedisDown \/ RedisUp \/ RedisWipe

Spec == Init /\ [][Next]_vars

\* Clients repeat what was not acknowledged and are not turned away for ever;
\* requests are served, in turn where they wait for a connection; Redis comes
\* back; every row that waits comes up in some sweep, its grace period over.  How
\* long a run takes is left open.
Fairness ==
  /\ \A c \in Clients : WF_vars(Post(c)) /\ SF_vars(Serve(c))
  /\ \A i \in Ids : WF_vars(Sweep(i))
  /\ WF_vars(RedisUp) /\ WF_vars(OtherReleases)

FairSpec == Spec /\ Fairness

-----------------------------------------------------------------------------
(* Properties *)

Answered(c) == answer[c] # NoAnswer

\* "The DB constraint is the real dedupe": whatever the cache forgets and
\* however requests race, a key has one event, and every event its delivery.
OneEventPerKey ==
  /\ \A e, f \in events : e.key = f.key => e = f
  /\ deliveries = {e.id : e \in events}

\* "Never ack without durability": an acknowledged id is a committed event of
\* the client's key.  Hence all clients of a key are told the same id.
AckedIsDurable ==
  \A c \in Clients : Answered(c) => [id |-> answer[c].id, key |-> KeyOf[c]] \in events

\* One client at most is told 202 for an event; the others learn that theirs
\* is a duplicate.
OneCreator ==
  \A c, d \in Clients :
    answer[c].code = 202 /\ answer[d].code = 202 /\ KeyOf[c] = KeyOf[d] => c = d

\* The cache, and every SET on its way to it, names a committed event of its
\* key, so the fast path answers like the slow one.
CacheTruthful ==
  /\ \A k \in Keys : cache[k] # NoId => [id |-> cache[k], key |-> k] \in events
  /\ \A s \in sets : [id |-> s.id, key |-> s.key] \in events

\* A request that lost the race for its key finds the winner's rows, so the
\* `rows[0]!` of ingestEvent are never undefined.
DuplicateFindsRows ==
  \A c \in Clients :
    /\ pc[c] = "select" => Conflict(c) # {}
    /\ pc[c] = "selectDelivery" => id[c] \in deliveries

\* Every connection is idle, with another route or in a transaction: no path
\* out of ingestEvent leaks one.
PoolBalanced == free + others + Cardinality({c \in Clients : InTx(c)}) = PoolSize

\* Every client is acknowledged in the end.
EventuallyAnswered == \A c \in Clients : <>Answered(c)

\* Accepted deliveries get their jobs, and get them back when Redis loses them,
\* also during their run: again and again, no row that waits for an attempt is
\* without.
AcceptedIsQueued == []<>(waiting \subseteq jobs)
=============================================================================
