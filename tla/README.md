# A verification of the webhook delivery engine

This directory holds TLA+ models of the webhook delivery engine, the TLC
configurations that check them on small instances, and proofs, checked by TLAPS,
that the most important properties hold on every instance.  `PROJECT.json` is
the index: which module stands for which part, which lines each definition
translates, what each run checks, which hazards are known and where they bite.

Code paths in this file are relative to the repository's `src/` (`worker/…`,
`db/…`); documents (`ARCHITECTURE.md`, `SCHEMA.md`, `docs/…`) to its root.

## 1. The system

A client posts an event; the API stores it with one delivery and queues a
BullMQ job; a worker sends the webhook, records the attempt, and lets BullMQ
retry until the delivery succeeds or its budget is used up and it is
dead-lettered.  Postgres is the truth; Redis holds locks, queues and counters.

| Part | Code | State it owns | Operations | Talks to |
|---|---|---|---|---|
| Event ingestion | `api/routes/events.ts`, `db/ingest.ts` | `events`, `deliveries`, `wh:idem:*` | dedupe by cache, insert in one transaction, enqueue, flag | pool, Redis, queue |
| Backpressure | `api/backpressure.ts`, `shared/memo.ts` | a memoised depth | shed a request | queue |
| Delivery queue | `queue/queues.ts`, BullMQ | jobs, attempts, stalls | add, pick up, delay, fail, stall, remove | worker |
| Processor | `worker/processor.ts` | locals of a run | the whole of `processDelivery` | all of Redis, Postgres, HTTP |
| Lock and heartbeat | `redis/lock.ts`, `worker/heartbeat.ts` | `wh:lock:{id}` | acquire, extend, release, expire | processor |
| Circuit breaker | `redis/circuitBreaker.ts` | `:fails`, `:open`, `:probe` | check, record a failure, probe result | processor |
| Token bucket | `redis/tokenBucket.ts`, `token_bucket.lua` | `wh:rl:{endpoint}` | take, return, expire | processor |
| Ledger | `db/deliveries.repo.ts`, `db/attempts.repo.ts` | `deliveries`, `delivery_attempts`, `delivery_transitions` | `transition`, `recordAttempt` | everyone who moves a status |
| Failed listener, DLQ | `worker/dlqHandler.ts` | `webhook-dlq` | dead-letter an exhausted delivery | ledger, queue |
| Reconciler | `reconciler/index.ts`, `claimUnenqueued` | none | re-add jobs of neglected rows | ledger, queue |
| Manual retry | `api/routes/dlq.ts` | none | DLQ to PENDING, then a fresh job | ledger, queue |
| Endpoint routes | `api/routes/endpoints.ts` | `endpoints` | create, PATCH, rotate | processor reads `is_active` |
| Read side | `api/routes/deliveries.ts`, `dlq.ts`, `api/cursor.ts`, `stats.ts` | none | pages, statistics | ledger |
| Dashboard | `dashboard/src/` (beside `src/`) | the rows on display, a cursor, requests under way | poll, load more, filter, retry | read side, manual retry |

The behaviours that are hard to test here:

- a job BullMQ considers stalled is given to a second slot while the first run
  may still be in its HTTP call; only the Redis lock keeps the two apart, and the
  lock has a TTL;
- a run reads the row once and uses what it read (`fromStatus`, the attempt
  number, `is_active`) several awaits later;
- a job's life (Redis) and a row's life (Postgres) are moved by separate
  commands, so a process can die between any two of them;
- a COMMIT can succeed although its reply is lost;
- breaker and bucket are built from several Redis commands with TTLs, which
  other workers' commands interleave with and expiry races;
- two clients can race for one idempotency key past a cache that may be stale,
  late or empty;
- all requests of a process share one memoised queue depth and one promise for
  the next;
- pages follow `updated_at`, which every transition moves and a cursor cuts to
  milliseconds, while the dashboard merges answers in the order they arrive.

## 2. The modules

| Module | What it is |
|---|---|
| `DeliveryEngine` | the life of one delivery: API, queue, slots, lock, failed listener, reconciler, manual retry, faults |
| `AttemptTrail` | abstract specification: the attempts of a delivery as a list that only grows |
| `CircuitBreaker` | the three breaker keys of one endpoint under the slots that run its deliveries |
| `TokenBucket` | the bucket key of one endpoint under the slots that take and return tokens |
| `Ingestion` | `POST /v1/events`: clients, cache, transaction, pool, enqueue, sweep |
| `Backpressure` | the gate in front of `POST /v1/events`: `isOverloaded` over `memoTtl` |
| `DeliveryList` | the pages of `GET /v1/deliveries` and `GET /v1/dlq`, and the dashboard that walks them |
| `MC…` | finite instances for TLC: budgets of rare events, start tables, symmetry |
| `…Proofs` | the theorems of each module; those of the engine are in three: `DeliveryEngineInvariants` (types, the protocol of lock and job, the audit trail), `DeliveryEngineProofs` (what the tables are left with) and `DeliveryEngineBill` (how many attempts there can be) |

Each step is what happens between two awaits that let another process in: a
Redis command, a Lua script, a Postgres statement whose effect others can see,
or a whole transaction where only its COMMIT is visible.  Names follow the code
(`claimUnenqueued`, `recordAttempt`, `tryAcquire`, `attemptNumber`).  A
definition called `X_Something` is a deliberately wrong variant of `X`, used to
show that a property would notice such a bug; no specification uses it.

### DeliveryEngine

One delivery is enough: two deliveries share only the endpoint's breaker and
bucket (modelled apart, their answers are free choices at the gate) and worker
slots (fairness below).  Jobs are identified as in the code: the ordinary job
has the delivery's id, each manual retry mints a fresh one.

| Action | Code |
|---|---|
| `IngestEvent`, `EnqueueAdd`, `EnqueueMark` | the commit of `ingestEvent`, then `enqueueDelivery` and `markEnqueued` in `events.ts` |
| `RetryFromDlq`, `RetryAdd` | the retry route: commit, then add |
| `claimUnenqueued` | one row of the reconciler's sweep |
| `Pickup`, `PickupCondemned`, `StalledCheck`, `RemoveOnComplete` | BullMQ (external), as configured in `queues.ts` and `worker/index.ts` |
| `acquire`, `Contended` | `lock.acquire`, or the job delayed and `DelayedError` thrown |
| `getForDelivery` | the re-read under the lock: gone or terminal rows return, inactive endpoints delay the job |
| `CircuitOpen`, `RateLimited`, `tryAcquire` | the two gates |
| `StartDelivering`, `Heartbeat`, `deliver` | the move to DELIVERING, the heartbeat that finds the lock gone, the HTTP result |
| `RecordOutcome` | `recordAttempt` and the throw or return that follows |
| `release`, `Settle` | the `finally` block; BullMQ's verdict on the job |
| `DlqRead`, `DlqWrite`, `DlqAdd` | `handleFailed` |
| `OrphanExpires`, `LockExpires` | the TTL of a lock whose owner died or froze |
| `EnqueueLost`, `RetryLost`, `WorkerCrash`, `RenewalLate`, `HandlerCrash`, `Freeze`/`Thaw`, `RedisWipe`, `QueryFails`, `CommitReplyLost`, `HandlerQueryFails`, `PatchEndpoint` | rare events, each paid for from `Budget` |

`transition` updates the row by id alone, as the SQL does, and writes the
caller's `from` into the transition row: that the two agree is a property
(`AuditChain`), not an assumption.  `uq_attempts` is the guard `Unique`: a
duplicate number makes the transaction fail and the run throw.  The transitions
table is kept as two facts about it: whether each row starts where the previous
one ended, and how many rows lead to DELIVERED.

Time is abstract: a delayed job may run at any moment, a grace period may have
elapsed at any moment.  The lock of a live, unfrozen process does not expire;
`LOCK_TTL_MS` (60 s) against a heartbeat of 20 s and an HTTP timeout of 10 s is
the reason.  `Freeze` is where that reasoning ends: a stopped process, after
which its lock and its BullMQ lock can expire.  `RenewalLate` is milder: BullMQ's
renewal of the job is lost or late while the run goes on and its `wh:lock`
lives.  The job stalls and a second slot runs it beside the first; keeping
those two apart is what the lock is for (`LockGuards`, `DeliveredOnce`).
It needs a run that holds the lock: a run that has not reached `acquire`, or is
past `release`, for a whole `BULLMQ_LOCK_DURATION_MS` is a frozen one, and its
lost job lock belongs to `Freeze`.

### CircuitBreaker

`CheckOpen`, `CheckFails`, `Elect` are the commands of `checkState`;
`RecordFailure`, `Expire`, `Trip` those of `recordFailure`; `ProbeOk`,
`ProbeFailed`, `ClearProbe` those of `onProbeResult`; `RateLimited`, `Send` and
`Answer` the processor around them.  Keys carry their TTL in ticks.  `MaxRun`
bounds the ticks of a run so that there are finitely many states (`Tick` is held
back while a run has used them up); the code has no such bound, because
`bodyTimeout` limits the gap between two chunks of a body and not the whole of
it.  `MaxRun` may exceed `CB_PROBE_SECONDS`, and does in the runs or equals it,
so that keys expire under their probes.  `outlived` is history: since anybody
began to probe, some run was still at it when its key expired.  `ClearProbe` and
`ProbeOk` delete the key without asking whose it is, as the code does, so a late
probe may delete its successor's.  A count without TTL (a death between INCR and
EXPIRE) never expires.

### TokenBucket

`tryAcquire` and `Refused` are the Lua script, atomic; `Release`, `Clamp`,
`Expire` are the three commands of `release`.  `lost` counts the tokens whose
holder died; it is bookkeeping, nothing reads it.  So is `unclamped`: a run died
between its return and its clamp while the count was over the cap, and the count
has not come back since.  `MaxHold` bounds how long a run keeps a token.  The
code suggests such a bound (two timeouts of 10 s against `RL_TTL_SECONDS` of
120 s) without enforcing it: a body that drips for longer than the key lives is
outside the model, and `Conservation` does not speak of it.

### Ingestion

A request passes `Refuse` (validation, backpressure), `CacheGet`, `Lookup`
(cache hit), `Connect` (a connection of the pool), `InsertEvent` (`ON CONFLICT
DO NOTHING`, which waits while a rival's insert of the same key is uncommitted),
`InsertDelivery` or `SelectEvent` and `SelectDelivery`, `Commit`, `EnqueueAdd`,
`EnqueueMark`.  The SET of the cache is not awaited by the code, so it is a
message of its own (`sets`) that lands at any time.  Faults: a failed query, a
COMMIT whose reply is lost, a failed add, a death of the API, an outage and a
wipe of Redis.  Clients repeat a request until it is acknowledged.

The pool is a counter of idle connections, which the process's other routes
take (`OtherConnects`) and give back, so a request may find it empty at each of
its queries.  A death of the API ends one
request: several API processes serve the clients, and the database rolls the
dead one's transaction back and frees its connection.

`waiting` are the deliveries whose row is PENDING or FAILED, which are those
`claimUnenqueued` selects; the others are DELIVERING or settled, and the sweep
leaves them alone.  `StartRun` and `FailRun` are as much of a worker as that
needs: a job's run moves the row to DELIVERING, and may move it back to FAILED,
also after its job was lost with Redis.  The rest of a run is the subject of
`DeliveryEngine`.

### Backpressure

A request that finds a fresh value gets its verdict at once (`Hit`); one that
finds the shared promise awaits it (`Join`); the first to find neither calls
`getJobCounts` (`Start`).  Redis counts at one moment (`Sample`), the answer is
stored later (`Resolve`, the `then` branch) or never (`Reject`, the `catch`
branch), and either settles everyone who awaits.  What memoisation may cost is a
matter of age, so a value carries the ticks since it was sampled and the ticks
it has left.  `sinceLow` and `sinceHigh` are history: how long ago the queue was
last within, or over, its limit.  Between `Sample` and `Resolve` at most
`ReplyTicks` pass; a command that has not reached Redis waits as long as an
outage lasts, and its age does not count because the sample is taken
afterwards.

### DeliveryList

`list` is the query: the rows that match the filter and come before the cursor
in the order `(updated_at, id)`, one more than the page holds.  `listDlq` is the
same query under the filter `status = 'DLQ'`.  Times are ticks, `PerMs` to
the millisecond; `toISOString` cuts a time to its millisecond, as a JavaScript
date does.  A transaction has its `now()` when it begins and its effect when it
commits, and may write many rows with one time, as the reconciler does.

`Poll`, `loadMore`, `setTab`, `setFilters` and `retry` are what the dashboard
does; `Serve` is the API's answer at the moment of its query, `ShowFirst`,
`ShowMore` and `Retried` what the view does with an answer, `Fail` an answer
that is an error.  One set of variables serves both views, because `App` mounts
one at a time; where they differ the action says so: an error hides the
deliveries and not the DLQ, a failed `loadMore` is shown in the former only.  A
changed filter cancels the polls under way but not a page being loaded.

A *walk* is a first page and the pages appended to it.  `touched` (rows written
since its first query, or taken out of the list by a retry) and `ends` (the times
at which its pages end) are history.  A retry counts because its 202 may come
late: the row was dead-lettered again meanwhile, a poll has brought it back, and
the handler of the answer takes it out of a list it belongs to, until the next
poll.  The proof of `SkipsOnlyAtPageEnds` failed at exactly that step, and the
third start table is there for TLC to reach it.
A page appended to rows it was not asked for makes the list `mixed`; the code
does nothing against that (section 6), and the properties of walks speak of the
others.

## 3. What is checked

Twelve runs.  Sizes are distinct states on two TLC workers.

| Run | Instance | States | Shows |
|---|---|---|---|
| `engine_crash` | 2 slots, 1 retry job, 2 attempts; one death each of API, listener and retry, one run that dies or whose job stalls under it, an endpoint switched off and on | 497 k | while the lock outlives its holder: `LockGuards`, `DeliveredOnce`, `SnapshotCurrent`, `AuditChain`, `OneLiveJob`, `DlqExhausted`, `AttemptBound`, `NoDoubleFire`, `LegalTransitions`, `SettledUnlessDropped` |
| `engine_lockloss` | 2 slots, 1 attempt; one freeze, one death or late renewal, one wipe, one database fault | 2.1 M | whatever happens: `AttemptLedger`, `SuccessBacked`, `RefinesTrail` |
| `breaker` | 2 slots, threshold 2, probe key of 2 ticks, runs of up to 3, two crashes, one lost lock | 596 k | `ProbeAlone`, `OvershootBounded`, `Recovers` |
| `bucket` | 3 slots, cap 2, three crashes, two wipes | 97 k | `Conservation`, `OverCapIsTransient`, `NeverStarved`, `SelfCorrects` |
| `ingestion` | 2 clients, 1 key, pool of 2 shared with other routes; one failed query, lost reply, crash, outage, wipe | 334 k | `OneEventPerKey`, `AckedIsDurable`, `OneCreator`, `CacheTruthful`, `DuplicateFindsRows`, `PoolBalanced`, `EventuallyAnswered`, `AcceptedIsQueued` |
| `backpressure` | 3 requests, limit 1, a value lives 3 ticks, a reply takes up to 1, two failed calls | 92 k | `SingleFlight`, `VerdictInTime`, `VerdictsKeepComing` |
| `delivery_list` | 3 rows, pages of 1, 2 ticks to the millisecond, 2 filters, 2 transactions, 2 requests under way, one failure | 300 k | `NoDuplicate`, `SkipsOnlyAtPageEnds`, `LatestFilterShown`, `EventuallyFresh` |
| five more | smallest budget that shows it | | the disagreements of section 6 |

**Bounds.**  Two slots are what a race over one lock needs; a third only
repeats the second's part.  Two attempts give a first, a retried and an
exhausted one; with one attempt (`engine_lockloss`) the exhausted run and the
stale one meet at once, and the wipe and the freeze still give a second run a
second number.  To keep that run small its HTTP requests succeed or lose their
lock; failed attempts are those of an open breaker and of a lost lock, which the
ledger treats like any other failure.  One retry job gives two budgets for one delivery.  Three ids in
`ingestion` are one for every rollback the budget allows and one that stays.
Slots are interchangeable, so `engine_lockloss` uses symmetry; the runs that
check liveness do not.  In `bucket` three slots exceed the cap of two, so
refusals and over-returns both happen; with three crashes and two wipes the key
can be over the cap with nobody left to clamp it.  TTLs are small numbers in the
order the defaults have, but for the open key of `breaker`, which lives as long
as the probe key there; its runs may last longer than either.  Two crashes are
what it takes to leave a count at the threshold without a TTL, which only a
successful probe can clear: with fewer, `Recovers` would hold by expiry alone.
In `backpressure` three requests are one that calls, one that shares its promise
and one that comes later.  In `delivery_list` three rows in pages of one give
two page ends; the three start tables hold rows that share a time, rows that
share only a millisecond, a slow transaction with an old time, a row yet to be
inserted, and a dead letter that fails again as soon as it is retried.

**Deadlock** is not checked in the engine and in ingestion, because they may
stop: a settled delivery whose jobs are gone, clients that all have their
answer.  The other modules never stop, and it is checked there.

**Fairness.**  Weak fairness stands for "Node runs a resolved await sooner or
later", and for the loops the code really has: the reconciler's sweep, BullMQ's
stalled check, Redis's expiry.  Strong fairness is used in four places.  In the
engine, a run that comes back to the gate again and again is let past the
bucket at some time: `NeverStarved` is the bucket's half of that argument.  In
the breaker, deliveries for the endpoint keep coming and not every one is rate
limited (two conjuncts).  In ingestion, a request waiting for a connection or
for Redis gets its turn: the pool is first come, first served, and outages end.
The gate needs only weak fairness: clients come back, commands are carried out
once Redis is there, replies arrive.  In the dashboard the interval fires, the
API answers polls and answers are shown; the user does nothing of necessity, and
a page being loaded may never come.
No rare event is fair.  `SettledUnlessDropped` and `EventuallySettled` ask that
the endpoint is not deactivated for ever, `Recovers` that it stays healthy from some time on,
`EventuallyFresh` that the user stops changing tabs and filters.

**Every property can fail.**  For every property of every passing run
`PROJECT.json` names a mutant, a wrong variant of one modelled definition (NX
dropped from the lock, a missing unique constraint, a refusal that refreshes
the bucket's TTL, a connection not released on an error…), under which TLC finds
the property violated.

## 4. What is proved

The theorems hold for every number of slots, jobs, attempts, clients, keys,
every cap and threshold and every budget of faults that a named hypothesis does
not exclude.  They rest on the named
ASSUMEs of the modules, which only give the constants their types, say that
slots and clients are finite in number, and keep names apart.

**The ledger (DeliveryEngineInvariants, DeliveryEngineProofs).**  `TypeCorrect`
has one step per action, over one lemma per helper of the model.  The ledger
rests on `PostgresStep`: any step either leaves the attempts alone or appends
one row with its status (`MoveStep \/ RecordStep`).  `AttemptLedger` is not
inductive: a run inserts a number it computed long before.  `LedgerInv` adds
`NumbersNotAhead`: a carried number may be stale but is at most
`attempt_count + 1`.  Then `uq_attempts` does the rest: a number that is neither
taken nor ahead is the next one (`NumberIsNext`).  From that follow
`LedgerCorrect`, `NumbersCorrect` and
`TrailRefinement`: the three tables implement `AttemptTrail` under the mapping
that lists the outcomes in the order of their numbers.  `SuccessCorrect`
counts: DELIVERED rows and SUCCESS attempts are equally many (the strengthening
is that attempts are finite).  None of these uses the lock.  `LockCorrect` is
about the lock and has the hypothesis `NoLockLoss`: no freeze past the TTL and
no wipe.

**Lock and job (the same modules).**  What follows from the lock together with
the life of the job.  `OneStall` is `NoLockLoss` and at most one event of the kind that
makes a job stall (a run that dies, a late renewal); any number of deaths of the
API, the listener and the retry route, of database faults and of PATCHes is
allowed.  `ProtocolInv` is the invariant behind it all, in seven parts: `Calm`, no
lock is lost; `StallInv`, the one stall is still to come, under way or counted,
so no job is condemned; `OwnerInv`, BullMQ's owner of a job is the slot that
runs it; `OneLiveJob`; `HolderInv`, the job of the slot that holds the lock is
alive; `GraveInv`, while the failed listener works, and once the row is in the
DLQ, no job lives or can be revived; `RetryInv`, a manual retry is under way only
when all else is over.  No part is inductive without the others: a second live
job needs a retry beside a run, which needs a row in the DLQ beside a live job,
which needs a listener that works on beside a run.

From it follow `OneJobCorrect` and `OneWriter` (at most one slot is where it will
write the row), and from that `SnapshotCorrect` and `AuditCorrect`: nobody moves
the status between a run's read and its write.  `NoFault` adds that no database
fault happens, which `reply_lost_dead_letters` shows to be needed: a run that
throws after its COMMIT is otherwise taken for a failed one.  Under it `WonInv`
(a success closes the delivery to every run past its re-read and every listener)
gives `DeliveredOnceCorrect`, `LegalCorrect` and `NoDoubleFireCorrect`, and
`SpentInv` (BullMQ never counts more failures of a job than there are attempts
on record) gives `DlqExhaustedCorrect`.  One stall is the most these can stand:
a second one condemns the job while its first run may still be working, and the
failed listener of the condemned job then writes beside that run.  The
instances of `engine_crash` satisfy `NoFault`.

**The bill (DeliveryEngineBill).**  `AttemptBoundCorrect`: under `OneStall`, and
for any finite number of manual retries, every recorded attempt is paid for: by
the budget of a job that has failed for good, by that of the job that is alive
or delivered, or by the stall, however many queries, replies, listeners and
requests are lost.  A retry is granted its budget only once its job exists.  The bound says nothing a step could
preserve by itself, because an attempt is recorded (Postgres) several steps
before BullMQ counts it (Redis) or never does.  `BillInv` is the account that
closes the gap.  `Room` is what has been paid for: `MaxAttempts` for each job
that failed for good, one for each stall.  While the delivery is open, the
attempts on record are within `Room` and what BullMQ has counted on the live
job, and one more only while a run that owns the job is on its way to report it
(`Reporting`); a run that has lost its job and still works (`Stray`) has its
attempt paid for before it records it; when no job lives, and while the failed
listener works, `Room` alone is enough.  Steps that cost nothing are shown to be
`Tame`, one lemma per kind, and `TameKeeps` deals with all of them; the four that
cost something have lemmas of their own: recording (`RecordKeeps`), a counted
failure (`FailKeeps`), a stall (`StallKeeps`), the move to the DLQ
(`BuryKeeps`).  Counting over the jobs needs no induction: a job fails once, so
one step adds one element to a finite set (`RoomSteps`); `BillBounds` reads the
property off the account.  The invariant rests on
`ProtocolInv` (only one job is live, so only one can be owed for) and on
`SnapshotCurrent` (a run that records found the delivery open, and it still is).

**DeliveryListProofs.**  Four theorems about the lists, for every table, page
size, clock, set of filters and number of requests under way.  A page is defined
by ranks: the k-th row is the one with k - 1 rows ahead of it.  `Places` shows by
counting that in a finite total order every rank below the size is taken exactly
once, with the pigeonhole fact on injections of the library and no induction;
`OrderedList` that the first n ranks list the first n members; `LaterOrders` that
`(updated_at, id)` is such an order.  `ListInv` is the invariant: there is one load more
under way at most (`OneLoadMore`), a `more` request carries the cursor on
display and polls the current filter (`RequestInv`), what the API has served is
a page as of its query but for the rows written since (`PageInv`), and the
list on display ends before its cursor, rows written since excepted
(`WalkInv`).  The last part is what `NoDuplicate` lacks to be inductive: two pages share no
row because the first lies on one side of the cursor and the second on the other.
For `SkipsOnlyAtPageEnds` the cursor itself is at fault, and `Millisecond` says
by how much: a time is at least its millisecond and less than the next, so a row
after the last one of a page is past the cursor or in the millisecond that
entered `ends`.  `NoFilterReturns` needs only `RequestInv`.

**BackpressureProofs.**  `InvHolds` carries the other two.  `Sampled` is the
strengthening: the value of a call under way, and the cached one, was the
queue's depth as many ticks ago as its age says, and age and remaining life of a
cached value add up to at most `Window`.  `SingleFlightHolds` and
`VerdictInTimeHolds` follow.

**CircuitBreakerProofs.**  `ProbeCorrect` proves `ProbeAlone` without any
hypothesis on the length of a run: until a probe outlives its key the key is
there while anybody probes, so nobody else is elected, and `outlived` is taken
back only when nobody probes.  `OvershootCorrect` uses the
potential `fails + Cardinality(InFlight)`: runs let through while the breaker was
closed are failures not yet counted.

**TokenBucketProofs.**  `ConservationCorrect` assumes `MaxHold < RL_TTL_SECONDS`.
`KeyInv` says that the key exists and outlives whoever holds a token from it;
`BucketInv` adds that nobody clamps before a wipe.  `OverCapCorrect` needs no
such assumption: it holds after any number of wipes and deaths.

**IngestionProofs.**  One inductive invariant, `IInv`, carries six theorems.
Besides the properties it says that two requests of a key never hold
uncommitted inserts together, nor one beside a committed event (`Exclusive`),
that a request past its SELECT holds a committed id (`Following`), that
`is_new` agrees with the branch taken (`Branches`), and that the requests
that enqueue or were told 202 are those that created the event (`Creating`).
`PoolCorrect` counts connections.

## 5. What is only model-checked, and what is not modelled

Liveness (`SettledUnlessDropped`, `Recovers`, `NeverStarved`, `SelfCorrects`, `EventuallyAnswered`,
`AcceptedIsQueued`, `VerdictsKeepComing`, `EventuallyFresh`) is checked by TLC
only; the prover does not handle fairness.  Every invariant and action property
that a passing run checks is also proved, those of `engine_crash` under the
hypotheses named above.

Not modelled: HMAC signature and headers, the DLQ alert and logging (no state);
backoff delays (time is abstract); the HTTP request itself (its outcome is a
choice); creation, listing and secret rotation of endpoints (one statement
each); the detail of a delivery (three reads, of which the later ones may be
newer than the first; nothing is computed from them), statistics and the tiles
that show them, the dashboard's layout; test receiver and scripts.  The lock's
lease is not timed: that a live process renews its lock before it expires is
argued from the settings (section 2), not checked.  Breaker and bucket are not
composed with the engine, where their answers are free choices, which allows
more than they do.  BullMQ is external and
modelled by what the code relies on: deduplication by job id as long as a job
of that id exists in any state, `attemptsMade` counted on a throw, a second
stall failing the job, completed jobs removed, failed ones kept.

## 6. Where the code and its documents disagree

Each is a run whose single property states what the document says and is
violated by what the code does.

| Run | The document | What the model shows |
|---|---|---|
| `retry_lost_strands` | `docs/RUNBOOK.md`: the reconciler re-enqueues a row PENDING for over 60 s | a manual retry that dies between its commit and its add leaves the row PENDING for good: the sweep re-adds the delivery's own id, whose failed job still exists |
| `stall_twice_strands` | `ARCHITECTURE.md`: "stall twice → BullMQ fails the job → our backoff applies" | the second stall fails the job with attempts left, the listener returns early, nothing retries it |
| `reply_lost_dead_letters` | `SCHEMA.md`: DELIVERED is terminal | the last attempt's COMMIT reply is lost, the throw exhausts the job, the listener skips only DLQ |
| `probe_stampede` | `ARCHITECTURE.md`: "the winner sends one real request; losers still fail fast as `CIRCUIT_OPEN` (no probe stampede)" | the probe key is set before the request and expires under it, and the next worker to ask is elected beside the first.  By default key and timeout are both 10 s, and the timeout starts later and anew with each chunk, so every probe that times out gives room for it |
| `list_skips` | `README.md`: inserts between pages "don't corrupt the walk because the cursor encodes a stable total order" | rows written in the same millisecond as the last row of a page are on no page, even if nothing moves: the cursor has lost their microseconds |

Met on the way, and kept as notes:

- A wipe takes the lock with it: a second run starts and both may record
  SUCCESS, although `ARCHITECTURE.md` says that a wipe never "double-fires a
  delivered webhook".  `DeliveredOnce` fails in `DeliveryEngine` with a budget
  of one wipe.
- A frozen run can record DELIVERED while the run that took over is at the gate;
  that one moves the row back to DELIVERING and sends again, although DELIVERED
  is documented as terminal.  `DeliveredIsFinal` fails with a budget of one
  freeze.
- A probe that ends in LOCK_LOST reports a failed probe, which opens the breaker,
  although `processor.ts` says that "LOCK_LOST never touches the breaker either
  way".
- A page that `loadMore` asked for is appended to whatever rows are on display
  when it comes: after a poll in between, or a new filter, the list mixes two
  walks and its cursor belongs to the older one, until the next poll.
- Every poll replaces all rows by the first page, so loaded pages last two
  seconds; the walks a user can really finish are short.
- `updated_at` can go backwards, because `now()` is the time of BEGIN: a slow
  transaction moves a row down the list.
- A death of the failed listener strands a FAILED delivery, by the mechanism of
  `retry_lost_strands`; `SettledUnlessDropped` excepts these two deaths and no
  other.  A wipe while the row is DELIVERING strands it if its run then dies or
  cannot record: the sweep does not select DELIVERING.
- Check 1 of `scripts/expectation.sql` expects no delivery with more than 5
  attempts ("Deliveries exceeding MAX_ATTEMPTS (expect 0 rows)").  The code goes
  beyond that in two ways, and the check then reports rows of a system that works
  as written: a run that stalls after it recorded has its attempt repeated, and
  a manual retry starts a second budget on the same row.  `AttemptBound` is the
  bound the code keeps.
- A failed query burns a BullMQ attempt without a recorded one, so a delivery
  can reach its last job attempt with fewer rows than the budget; a death
  after `recordAttempt` gives one row more, and a job condemned by its second
  stall counts an attempt that recorded nothing.  `AttemptBound` states the upper
  bound exactly; `DlqExhausted` needs a budget without database faults and with one stall at most.
- An open breaker moves PENDING straight to FAILED, an edge that the table in
  `SCHEMA.md` lacks; `LegalTransitions` includes it.
- `EXPIRE` is repeated at every failure, so the breaker's window slides.
- Tokens lost with dead holders come back when the key expires; under steady
  traffic every take and return refreshes it.
- While Redis is down an ingest request waits (`redis/client.ts` sets
  `maxRetriesPerRequest: null`), whereas `ARCHITECTURE.md` has ingestion go on.
