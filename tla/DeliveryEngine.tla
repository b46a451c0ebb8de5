--------------------------- MODULE DeliveryEngine ---------------------------
(***************************************************************************)
(* The life of one delivery: the API that accepts it, the BullMQ jobs that *)
(* carry it, the worker slots that run processDelivery on those jobs under *)
(* the Redis lock wh:lock:{id}, the 'failed' listener that dead-letters    *)
(* it, the reconciler, the manual DLQ retry, and the faults the code is    *)
(* written against.  Deliveries share only the per-endpoint breaker and    *)
(* token bucket, whose answers are free choices here.                      *)
(*                                                                         *)
(* Every await of the code that lets another process run between two       *)
(* state changes is a step boundary.  Time is abstracted: a delayed job    *)
(* may be picked up at any moment, a grace period or a next_attempt_at may *)
(* have elapsed at any moment.                                             *)
(***************************************************************************)
EXTENDS Naturals, FiniteSets

CONSTANTS
  Workers,          \* concurrency slots of the worker processes
  RetryJobs,        \* job ids the retry route can mint: `${id}:retry:${ms}`
  MaxAttempts,      \* BACKOFF_BASE_MS.length, the BullMQ `attempts` option
  FailureOutcomes,  \* what a failed HTTP call is classified as
  Budget            \* how often each rare event may happen

\* The rare events: the API dies between ingest and enqueue, or between the
\* DLQ commit and the retry's add; a worker dies inside a run, or its job
\* stalls although it is alive; a worker dies inside the 'failed' listener; a
\* worker process freezes past its lock TTLs; Redis loses its data; a Postgres
\* transaction fails; somebody PATCHes the endpoint.
RareEvents ==
  {"api", "retry", "worker", "handler", "pause", "wipe", "db", "patch"}

RealFailures == {"HTTP_ERROR", "TIMEOUT", "CONN_ERROR"}

Outcomes == {"SUCCESS", "CIRCUIT_OPEN", "LOCK_LOST"} \cup RealFailures

Statuses == {"PENDING", "DELIVERING", "DELIVERED", "FAILED", "DLQ"}

\* The jobId of the ordinary job is the delivery's own id.
DeliveryJob == "deliveryId"

JobIds == {DeliveryJob} \cup RetryJobs

maxStalledCount == 1

ASSUME ConstantsAssumption ==
  /\ MaxAttempts \in Nat \ {0}
  /\ FailureOutcomes \subseteq RealFailures
  /\ Budget \in [RareEvents -> Nat]
  /\ Workers \cap {"free", "orphan", "nobody"} = {}
  /\ RetryJobs \cap {DeliveryJob, "none"} = {}

VARIABLES
  \* Postgres, table deliveries
  status, attempt_count, next_attempt_at, enqueued,
  \* Postgres, delivery_attempts: the rows [number, outcome]
  attempts,
  \* Postgres, delivery_transitions, kept as what the audit reads from it:
  \* each row starts where the previous one ended; rows into DELIVERED
  chained, deliveredRows,
  \* Postgres, endpoints.is_active
  is_active,
  \* Redis, wh:lock:{id}: who owns the token ("orphan": a dead process)
  lock,
  \* Redis, BullMQ queue webhook-delivery, per job id
  jobState, attemptsMade, stalledCount, jobOwner,
  \* Redis, BullMQ queue webhook-dlq: the delivery has an entry
  dlqQueued,
  \* API: the ingest request, and the retries committed but not yet added
  ingest, retrying,
  \* Worker slots: program counter, and the locals of the run
  pc, job, fromStatus, attemptNumber, result, lockLost,
  \* Frozen slots, and what is left of the budget
  paused, left

row      == <<status, chained, deliveredRows>>
ledger   == <<attempt_count, next_attempt_at, attempts>>
postgres == <<row, ledger, enqueued, is_active>>
queue    == <<jobState, attemptsMade, stalledCount, jobOwner>>
api      == <<ingest, retrying>>
locals   == <<job, fromStatus, attemptNumber, result, lockLost>>
run      == <<pc, locals>>
faults   == <<paused, left>>
vars     == <<postgres, lock, queue, dlqQueued, api, run, faults>>

RunLabels ==
  {"acquire", "reread", "gate", "token", "sending", "record", "finally", "settle"}

HandlerLabels == {"dlqRead", "dlqWrite", "dlqAdd"}

\* How a run of the processor ends: it returns, throws, or has moved its job
\* to the delayed set and throws DelayedError.
Endings == {"return", "throw", "delayed"}

JobStates == {"absent", "queued", "active", "completed", "failed"}

RowTyped ==
  /\ status \in Statuses \cup {"none"}
  /\ chained \in BOOLEAN
  /\ deliveredRows \in Nat

LedgerTyped ==
  /\ attempt_count \in Nat
  /\ next_attempt_at \in {"null", "set"}
  /\ attempts \in SUBSET [number : Nat, outcome : Outcomes]

QueueTyped ==
  /\ jobState \in [JobIds -> JobStates]
  /\ attemptsMade \in [JobIds -> Nat]
  /\ stalledCount \in [JobIds -> Nat]
  /\ jobOwner \in [JobIds -> Workers \cup {"nobody"}]

RunTyped ==
  /\ pc \in [Workers -> {"idle"} \cup RunLabels \cup HandlerLabels]
  /\ job \in [Workers -> JobIds \cup {"none"}]
  /\ fromStatus \in [Workers -> Statuses \cup {"none"}]
  /\ attemptNumber \in [Workers -> Nat]
  /\ result \in [Workers -> Outcomes \cup Endings \cup {"none"}]
  /\ lockLost \in [Workers -> BOOLEAN]
  /\ \A w \in Workers : pc[w] = "record" => result[w] \in Outcomes

\* The columns and keys stay within their domains, and what a run is about to
\* record is an outcome.
TypeOK ==
  /\ RowTyped /\ LedgerTyped /\ QueueTyped /\ RunTyped
  /\ enqueued \in BOOLEAN /\ is_active \in BOOLEAN /\ dlqQueued \in BOOLEAN
  /\ lock \in Workers \cup {"free", "orphan"}
  /\ ingest \in {"none", "committed", "added", "done"}
  /\ retrying \in SUBSET RetryJobs
  /\ paused \in SUBSET Workers
  /\ left \in [RareEvents -> Nat]

Init ==
  /\ status = "none" /\ attempt_count = 0 /\ next_attempt_at = "null"
  /\ enqueued = FALSE /\ attempts = {}
  /\ chained = TRUE /\ deliveredRows = 0 /\ is_active = TRUE
  /\ lock = "free"
  /\ jobState = [j \in JobIds |-> "absent"]
  /\ attemptsMade = [j \in JobIds |-> 0]
  /\ stalledCount = [j \in JobIds |-> 0]
  /\ jobOwner = [j \in JobIds |-> "nobody"]
  /\ dlqQueued = FALSE /\ ingest = "none" /\ retrying = {}
  /\ pc = [w \in Workers |-> "idle"]
  /\ job = [w \in Workers |-> "none"]
  /\ fromStatus = [w \in Workers |-> "none"]
  /\ attemptNumber = [w \in Workers |-> 0]
  /\ result = [w \in Workers |-> "none"]
  /\ lockLost = [w \in Workers |-> FALSE]
  /\ paused = {} /\ left = Budget

-----------------------------------------------------------------------------
(* Postgres transactions *)

\* UPDATE deliveries SET status plus the delivery_transitions row, in one
\* transaction.  The UPDATE names the row by id only, and from_status is
\* whatever the caller read earlier.
transition(from, to) ==
  /\ status' = to
  /\ chained' = (chained /\ from = status)
  /\ deliveredRows' = IF to = "DELIVERED" THEN deliveredRows + 1 ELSE deliveredRows

\* Mutant: the table without its unique constraint.
Unique_NoConstraint(n) == TRUE

\* uq_attempts(delivery_id, attempt_number)
Unique(n) == \A a \in attempts : a.number # n

\* Mutant: the status is written outside the transaction of the insert.
recordAttempt_NotAtomic(n, outcome, from, to) ==
  /\ IF Unique(n)
     THEN /\ attempts' = attempts \cup {[number |-> n, outcome |-> outcome]}
          /\ attempt_count' = attempt_count + 1
     ELSE UNCHANGED <<attempts, attempt_count>>
  /\ next_attempt_at' = IF outcome = "SUCCESS" THEN "null" ELSE "set"
  /\ transition(from, to)

\* The attempt row, the status and the counter commit together; a duplicate
\* attempt number rolls all of it back and throws.
recordAttempt(n, outcome, from, to) ==
  /\ Unique(n)
  /\ attempts' = attempts \cup {[number |-> n, outcome |-> outcome]}
  /\ attempt_count' = attempt_count + 1
  /\ next_attempt_at' = IF outcome = "SUCCESS" THEN "null" ELSE "set"
  /\ transition(from, to)

-----------------------------------------------------------------------------
(* BullMQ, as the code uses it *)

\* Mutant: failed jobs do not keep their id, as with removeOnFail.
add_FailedForgotten(j) ==
  /\ jobState' = [jobState EXCEPT ![j] = IF @ \in {"absent", "failed"} THEN "queued" ELSE @]
  /\ UNCHANGED <<attemptsMade, stalledCount, jobOwner>>

\* Queue.add with a custom jobId: a no-op while that id is known in any state.
add(j) ==
  /\ jobState' = [jobState EXCEPT ![j] = IF @ = "absent" THEN "queued" ELSE @]
  /\ UNCHANGED <<attemptsMade, stalledCount, jobOwner>>

\* The slot still holds BullMQ's lock on the job it runs; without it every
\* moveTo... call of the slot is rejected.
Owns(w) == jobState[job[w]] = "active" /\ jobOwner[job[w]] = w

\* Mutant: a failure is requeued without counting the attempt.
Leave_Unburnt(j, state, burnt) ==
  /\ jobState' = [jobState EXCEPT ![j] = state]
  /\ jobOwner' = [jobOwner EXCEPT ![j] = "nobody"]
  /\ UNCHANGED <<attemptsMade, stalledCount>>

\* Job j leaves the active state; burnt is 1 when an attempt was consumed.
Leave(j, state, burnt) ==
  /\ jobState' = [jobState EXCEPT ![j] = state]
  /\ jobOwner' = [jobOwner EXCEPT ![j] = "nobody"]
  /\ attemptsMade' = [attemptsMade EXCEPT ![j] = @ + burnt]
  /\ UNCHANGED stalledCount

moveToDelayed(w) == IF Owns(w) THEN Leave(job[w], "queued", 0) ELSE UNCHANGED queue

-----------------------------------------------------------------------------
(* Control flow of a slot *)

At(w, label) == pc[w] = label /\ w \notin paused

Goto(w, label) == pc' = [pc EXCEPT ![w] = label] /\ UNCHANGED locals

\* The run leaves the try block; its locals are dead from here on.
End(w, how) ==
  /\ pc' = [pc EXCEPT ![w] = "finally"]
  /\ result' = [result EXCEPT ![w] = how]
  /\ fromStatus' = [fromStatus EXCEPT ![w] = "none"]
  /\ attemptNumber' = [attemptNumber EXCEPT ![w] = 0]
  /\ lockLost' = [lockLost EXCEPT ![w] = FALSE]
  /\ UNCHANGED job

\* The slot is free for another job.
Idle(w) ==
  /\ pc' = [pc EXCEPT ![w] = "idle"]
  /\ job' = [job EXCEPT ![w] = "none"]
  /\ result' = [result EXCEPT ![w] = "none"]
  /\ fromStatus' = [fromStatus EXCEPT ![w] = "none"]
  /\ attemptNumber' = [attemptNumber EXCEPT ![w] = 0]
  /\ lockLost' = [lockLost EXCEPT ![w] = FALSE]

\* Mutant: an off-by-one in the listener's check of the budget.
Exhausted_OneEarly(made) == made >= MaxAttempts - 1

\* The listener's check: attemptsMade of the job it is handed, against the
\* length of the backoff table.
Exhausted(made) == made >= MaxAttempts

\* A failed job is retried while it has attempts left (unless BullMQ condemns
\* it), and the failed listener is called: below the budget it returns at
\* once, otherwise it goes on to dead-letter the delivery.
Fail(w, j, condemned) ==
  LET made == attemptsMade[j] + 1 IN
  /\ Leave(j, IF made < MaxAttempts /\ ~condemned THEN "queued" ELSE "failed", 1)
  /\ IF Exhausted(made)
     THEN /\ pc' = [pc EXCEPT ![w] = "dlqRead"]
          /\ job' = [job EXCEPT ![w] = j]
          /\ UNCHANGED <<fromStatus, attemptNumber, result, lockLost>>
     ELSE Idle(w)

-----------------------------------------------------------------------------
(* API *)

\* ingestEvent commits the event and its delivery.
IngestEvent ==
  /\ ingest = "none"
  /\ ingest' = "committed"
  /\ transition("none", "PENDING")
  /\ UNCHANGED <<ledger, enqueued, is_active, lock, queue, dlqQueued, retrying, run, faults>>

\* enqueueDelivery: first the job ...
EnqueueAdd ==
  /\ ingest = "committed"
  /\ ingest' = "added"
  /\ add(DeliveryJob)
  /\ UNCHANGED <<postgres, lock, dlqQueued, retrying, run, faults>>

\* ... then the flag.
EnqueueMark ==
  /\ ingest = "added"
  /\ ingest' = "done"
  /\ enqueued' = TRUE
  /\ UNCHANGED <<row, ledger, is_active, lock, queue, dlqQueued, retrying, run, faults>>

\* POST /dlq/:id/retry: the DLQ -> PENDING commit ...
RetryFromDlq(j) ==
  /\ status = "DLQ"
  /\ jobState[j] = "absent" /\ j \notin retrying
  /\ transition("DLQ", "PENDING")
  /\ retrying' = retrying \cup {j}
  /\ UNCHANGED <<ledger, enqueued, is_active, lock, queue, dlqQueued, ingest, run, faults>>

\* ... then the job, under an id BullMQ has not seen.
RetryAdd(j) ==
  /\ j \in retrying
  /\ retrying' = retrying \ {j}
  /\ add(j)
  /\ UNCHANGED <<postgres, lock, dlqQueued, ingest, run, faults>>

-----------------------------------------------------------------------------
(* Reconciler *)

\* Mutant: the sweep looks only for overdue retries.
NeedsRecovery_FailedOnly == status = "FAILED" /\ next_attempt_at = "set"

\* The rows a sweep selects: DELIVERING is left to whoever holds the lock.
NeedsRecovery ==
  \/ status = "PENDING"
  \/ status = "FAILED" /\ next_attempt_at = "set"

\* One row of a sweep.  The row is locked from SELECT to COMMIT, so nothing
\* else writes it meanwhile; the job is added before the COMMIT, which may
\* still fail and leave the flag as it was.
claimUnenqueued ==
  /\ NeedsRecovery
  /\ add(DeliveryJob)
  /\ enqueued' \in {enqueued, TRUE}
  /\ UNCHANGED <<row, ledger, is_active, lock, dlqQueued, api, run, faults>>

-----------------------------------------------------------------------------
(* processDelivery *)

\* A slot takes a job, unless BullMQ has condemned it for stalling too often.
Pickup(w, j) ==
  /\ At(w, "idle")
  /\ jobState[j] = "queued" /\ stalledCount[j] <= maxStalledCount
  /\ jobState' = [jobState EXCEPT ![j] = "active"]
  /\ jobOwner' = [jobOwner EXCEPT ![j] = w]
  /\ pc' = [pc EXCEPT ![w] = "acquire"]
  /\ job' = [job EXCEPT ![w] = j]
  /\ UNCHANGED <<postgres, lock, attemptsMade, stalledCount, dlqQueued, api,
                 fromStatus, attemptNumber, result, lockLost, faults>>

\* A job that stalled more than maxStalledCount times fails for good, without
\* running the processor, whatever is left of its attempts.
PickupCondemned(w, j) ==
  /\ At(w, "idle")
  /\ jobState[j] = "queued" /\ stalledCount[j] > maxStalledCount
  /\ Fail(w, j, TRUE)
  /\ UNCHANGED <<postgres, lock, dlqQueued, api, faults>>

\* Mutant: SET without NX.
LockFree_NoNX == TRUE

\* SET wh:lock:{id} token NX PX
LockFree == lock = "free"

acquire(w) ==
  /\ At(w, "acquire")
  /\ LockFree
  /\ lock' = w
  /\ Goto(w, "reread")
  /\ UNCHANGED <<postgres, queue, dlqQueued, api, faults>>

\* Somebody else holds the lock: the job is delayed, no attempt is burnt.
Contended(w) ==
  /\ At(w, "acquire")
  /\ ~LockFree
  /\ moveToDelayed(w)
  /\ Idle(w)
  /\ UNCHANGED <<postgres, lock, dlqQueued, api, faults>>

\* Mutant: the re-read does not look for DELIVERED.
Terminal_DlqOnly(s) == s = "DLQ"

\* Statuses at which a run has nothing left to do.
Terminal(s) == s \in {"DELIVERED", "DLQ"}

\* The number comes from the row, not from the job: a retry job starts at 0.
NextNumber == attempt_count + 1

\* The status is read under the lock, and used for the rest of the run.
getForDelivery(w) ==
  /\ At(w, "reread")
  /\ \/ /\ Terminal(status)
        /\ End(w, "return")
        /\ UNCHANGED queue
     \/ /\ ~Terminal(status) /\ ~is_active
        /\ moveToDelayed(w)
        /\ End(w, "delayed")
     \/ /\ ~Terminal(status) /\ is_active
        /\ pc' = [pc EXCEPT ![w] = "gate"]
        /\ fromStatus' = [fromStatus EXCEPT ![w] = status]
        /\ attemptNumber' = [attemptNumber EXCEPT ![w] = NextNumber]
        /\ UNCHANGED <<queue, job, result, lockLost>>
  /\ UNCHANGED <<postgres, lock, dlqQueued, api, faults>>

\* Mutant: from_status as in the other recordAttempt call.
CircuitOpen_FromDelivering(w) ==
  /\ At(w, "gate")
  /\ \/ recordAttempt(attemptNumber[w], "CIRCUIT_OPEN", "DELIVERING", "FAILED")
     \/ ~Unique(attemptNumber[w]) /\ UNCHANGED <<row, ledger>>
  /\ End(w, "throw")
  /\ UNCHANGED <<enqueued, is_active, lock, queue, dlqQueued, api, faults>>

\* The breaker is open: the attempt is recorded as failed without a request.
CircuitOpen(w) ==
  /\ At(w, "gate")
  /\ \/ recordAttempt(attemptNumber[w], "CIRCUIT_OPEN", fromStatus[w], "FAILED")
     \/ ~Unique(attemptNumber[w]) /\ UNCHANGED <<row, ledger>>
  /\ End(w, "throw")
  /\ UNCHANGED <<enqueued, is_active, lock, queue, dlqQueued, api, faults>>

\* The bucket is empty: the job is delayed and nothing is written.
RateLimited(w) ==
  /\ At(w, "gate")
  /\ moveToDelayed(w)
  /\ End(w, "delayed")
  /\ UNCHANGED <<postgres, lock, dlqQueued, api, faults>>

tryAcquire(w) ==
  /\ At(w, "gate")
  /\ Goto(w, "token")
  /\ UNCHANGED <<postgres, lock, queue, dlqQueued, api, faults>>

\* transition(fromStatus -> DELIVERING); the HTTP request starts.
StartDelivering(w) ==
  /\ At(w, "token")
  /\ transition(fromStatus[w], "DELIVERING")
  /\ Goto(w, "sending")
  /\ UNCHANGED <<ledger, enqueued, is_active, lock, queue, dlqQueued, api, faults>>

\* A heartbeat during the request finds the lock gone.
Heartbeat(w) ==
  /\ At(w, "sending")
  /\ lock # w /\ ~lockLost[w]
  /\ lockLost' = [lockLost EXCEPT ![w] = TRUE]
  /\ UNCHANGED <<postgres, lock, queue, dlqQueued, api, pc, job, fromStatus,
                 attemptNumber, result, faults>>

\* What the request is recorded as: nothing it produced counts once the loss
\* of the lock has been noticed.
OutcomesOf(w) ==
  IF lockLost[w] THEN {"LOCK_LOST"} ELSE {"SUCCESS"} \cup FailureOutcomes

deliver(w) ==
  /\ At(w, "sending")
  /\ \E o \in OutcomesOf(w) : result' = [result EXCEPT ![w] = o]
  /\ pc' = [pc EXCEPT ![w] = "record"]
  /\ UNCHANGED <<postgres, lock, queue, dlqQueued, api, job, fromStatus,
                 attemptNumber, lockLost, faults>>

\* Mutant: the outcome is stored in the status column.
ToStatus_Raw(outcome) == outcome

\* Mutant: a result produced under a lost lock still counts.
ToStatus_LostCounts(outcome) ==
  IF outcome \in {"SUCCESS", "LOCK_LOST"} THEN "DELIVERED" ELSE "FAILED"

ToStatus(outcome) == IF outcome = "SUCCESS" THEN "DELIVERED" ELSE "FAILED"

\* The attempt is recorded; a failure, or a duplicate number, throws.
RecordOutcome(w) ==
  /\ At(w, "record")
  /\ \/ /\ recordAttempt(attemptNumber[w], result[w], "DELIVERING", ToStatus(result[w]))
        /\ End(w, IF result[w] = "SUCCESS" THEN "return" ELSE "throw")
     \/ /\ ~Unique(attemptNumber[w])
        /\ UNCHANGED <<row, ledger>>
        /\ End(w, "throw")
  /\ UNCHANGED <<enqueued, is_active, lock, queue, dlqQueued, api, faults>>

\* The token-checked DEL of the finally block.
Released(w) == IF lock = w THEN "free" ELSE lock

release(w) ==
  /\ At(w, "finally")
  /\ lock' = Released(w)
  /\ IF result[w] = "delayed" THEN Idle(w) ELSE Goto(w, "settle")
  /\ UNCHANGED <<postgres, queue, dlqQueued, api, faults>>

\* BullMQ files the job by how the processor ended.  The failed listener runs
\* only if the slot still owned the job.
Settle(w) ==
  LET j == job[w] IN
  /\ At(w, "settle")
  /\ \/ ~Owns(w) /\ UNCHANGED queue /\ Idle(w)
     \/ Owns(w) /\ result[w] = "return" /\ Leave(j, "completed", 0) /\ Idle(w)
     \/ Owns(w) /\ result[w] = "throw" /\ Fail(w, j, FALSE)
  /\ UNCHANGED <<postgres, lock, dlqQueued, api, faults>>

-----------------------------------------------------------------------------
(* handleFailed of the exhausted job, without the lock *)

DlqRead(w) ==
  /\ At(w, "dlqRead")
  /\ IF status = "DLQ"
     THEN Idle(w)
     ELSE /\ pc' = [pc EXCEPT ![w] = "dlqWrite"]
          /\ fromStatus' = [fromStatus EXCEPT ![w] = status]
          /\ UNCHANGED <<job, attemptNumber, result, lockLost>>
  /\ UNCHANGED <<postgres, lock, queue, dlqQueued, api, faults>>

DlqWrite(w) ==
  /\ At(w, "dlqWrite")
  /\ transition(fromStatus[w], "DLQ")
  /\ Goto(w, "dlqAdd")
  /\ UNCHANGED <<ledger, enqueued, is_active, lock, queue, dlqQueued, api, faults>>

DlqAdd(w) ==
  /\ At(w, "dlqAdd")
  /\ dlqQueued' = TRUE
  /\ Idle(w)
  /\ UNCHANGED <<postgres, lock, queue, api, faults>>

-----------------------------------------------------------------------------
(* What time and BullMQ's housekeeping do *)

\* The TTL of a lock whose owner died.
OrphanExpires ==
  /\ lock = "orphan"
  /\ lock' = "free"
  /\ UNCHANGED <<postgres, queue, dlqQueued, api, run, faults>>

\* The TTL of the lock of a frozen owner.
LockExpires(w) ==
  /\ w \in paused /\ lock = w
  /\ lock' = "free"
  /\ UNCHANGED <<postgres, queue, dlqQueued, api, run, faults>>

\* The stalled check: the owner of an active job is dead or frozen.
StalledCheck(j) ==
  /\ jobState[j] = "active"
  /\ jobOwner[j] \in paused \cup {"nobody"}
  /\ jobState' = [jobState EXCEPT ![j] = "queued"]
  /\ jobOwner' = [jobOwner EXCEPT ![j] = "nobody"]
  /\ stalledCount' = [stalledCount EXCEPT ![j] = @ + 1]
  /\ UNCHANGED <<postgres, lock, attemptsMade, dlqQueued, api, run, faults>>

Forget(js) ==
  /\ jobState' = [j \in JobIds |-> IF j \in js THEN "absent" ELSE jobState[j]]
  /\ jobOwner' = [j \in JobIds |-> IF j \in js THEN "nobody" ELSE jobOwner[j]]
  /\ attemptsMade' = [j \in JobIds |-> IF j \in js THEN 0 ELSE attemptsMade[j]]
  /\ stalledCount' = [j \in JobIds |-> IF j \in js THEN 0 ELSE stalledCount[j]]

\* removeOnComplete drops an old completed job; removeOnFail is off.
RemoveOnComplete(j) ==
  /\ jobState[j] = "completed"
  /\ Forget({j})
  /\ UNCHANGED <<postgres, lock, dlqQueued, api, run, faults>>

-----------------------------------------------------------------------------
(* Rare events *)

Spend(event) ==
  /\ left[event] > 0
  /\ left' = [left EXCEPT ![event] = @ - 1]

\* The API dies, or Redis refuses the add: the route logs it and answers 202.
EnqueueLost ==
  /\ Spend("api")
  /\ ingest \in {"committed", "added"}
  /\ ingest' = "done"
  /\ UNCHANGED <<postgres, lock, queue, dlqQueued, retrying, run, paused>>

\* The API dies, or Redis refuses the add, after the retry's commit.
RetryLost(j) ==
  /\ Spend("retry")
  /\ j \in retrying
  /\ retrying' = retrying \ {j}
  /\ UNCHANGED <<postgres, lock, queue, dlqQueued, ingest, run, paused>>

\* The process of slot w dies: its locals go, its lock and its job stay.
Die(w) ==
  /\ lock' = IF lock = w THEN "orphan" ELSE lock
  /\ jobOwner' = [j \in JobIds |-> IF jobOwner[j] = w THEN "nobody" ELSE jobOwner[j]]
  /\ Idle(w)
  /\ paused' = paused \ {w}
  /\ UNCHANGED <<postgres, jobState, attemptsMade, stalledCount, dlqQueued, api>>

WorkerCrash(w) == Spend("worker") /\ pc[w] \in RunLabels /\ Die(w)

\* The renewal of the job's BullMQ lock is lost or late while wh:lock lives on:
\* the job will be given to another slot beside the run.
RenewalLate(w) ==
  /\ Spend("worker")
  /\ pc[w] \in RunLabels /\ lock = w /\ Owns(w)
  /\ jobOwner' = [jobOwner EXCEPT ![job[w]] = "nobody"]
  /\ UNCHANGED <<postgres, lock, jobState, attemptsMade, stalledCount, dlqQueued, api,
                 run, paused>>

HandlerCrash(w) == Spend("handler") /\ pc[w] \in HandlerLabels /\ Die(w)

Freeze(w) ==
  /\ Spend("pause")
  /\ pc[w] # "idle" /\ w \notin paused
  /\ paused' = paused \cup {w}
  /\ UNCHANGED <<postgres, lock, queue, dlqQueued, api, run>>

Thaw(w) ==
  /\ w \in paused
  /\ paused' = paused \ {w}
  /\ UNCHANGED <<postgres, lock, queue, dlqQueued, api, run, left>>

\* Redis restarts empty: locks and both queues are gone.
RedisWipe ==
  /\ Spend("wipe")
  /\ lock' = "free"
  /\ Forget(JobIds)
  /\ dlqQueued' = FALSE
  /\ UNCHANGED <<postgres, api, run, paused>>

\* A query of a run fails and nothing is committed: the run throws.
QueryFails(w) ==
  /\ Spend("db")
  /\ \E l \in {"reread", "gate", "token", "record"} : At(w, l)
  /\ End(w, "throw")
  /\ UNCHANGED <<postgres, lock, queue, dlqQueued, api, paused>>

\* The transaction commits but the connection drops before its reply.
CommitReplyLost(w) ==
  /\ Spend("db")
  /\ \/ /\ At(w, "token")
        /\ transition(fromStatus[w], "DELIVERING")
        /\ UNCHANGED ledger
     \/ /\ At(w, "record")
        /\ recordAttempt(attemptNumber[w], result[w], "DELIVERING", ToStatus(result[w]))
  /\ End(w, "throw")
  /\ UNCHANGED <<enqueued, is_active, lock, queue, dlqQueued, api, paused>>

\* A query of the failed listener fails: it is logged and forgotten.
HandlerQueryFails(w) ==
  /\ Spend("db")
  /\ \/ \E l \in {"dlqRead", "dlqWrite"} : At(w, l) /\ UNCHANGED row
     \/ At(w, "dlqWrite") /\ transition(fromStatus[w], "DLQ")
  /\ Idle(w)
  /\ UNCHANGED <<ledger, enqueued, is_active, lock, queue, dlqQueued, api, paused>>

PatchEndpoint ==
  /\ Spend("patch")
  /\ is_active' = ~is_active
  /\ UNCHANGED <<row, ledger, enqueued, lock, queue, dlqQueued, api, run, paused>>

-----------------------------------------------------------------------------
ApiStep ==
  \/ IngestEvent \/ EnqueueAdd \/ EnqueueMark
  \/ \E j \in RetryJobs : RetryFromDlq(j) \/ RetryAdd(j)

\* One await-to-await step of the run in slot w.
RunStep(w) ==
  \/ acquire(w) \/ Contended(w) \/ getForDelivery(w)
  \/ CircuitOpen(w) \/ RateLimited(w) \/ tryAcquire(w)
  \/ StartDelivering(w) \/ Heartbeat(w) \/ deliver(w) \/ RecordOutcome(w)
  \/ release(w) \/ Settle(w)

HandlerStep(w) == DlqRead(w) \/ DlqWrite(w) \/ DlqAdd(w)

TakeJob(w) == \E j \in JobIds : Pickup(w, j) \/ PickupCondemned(w, j)

Housekeeping ==
  \/ OrphanExpires
  \/ \E w \in Workers : LockExpires(w)
  \/ \E j \in JobIds : StalledCheck(j) \/ RemoveOnComplete(j)

RareEvent ==
  \/ EnqueueLost \/ RedisWipe \/ PatchEndpoint
  \/ \E j \in RetryJobs : RetryLost(j)
  \/ \E w \in Workers :
       \/ WorkerCrash(w) \/ RenewalLate(w) \/ HandlerCrash(w) \/ Freeze(w) \/ Thaw(w)
       \/ QueryFails(w) \/ CommitReplyLost(w) \/ HandlerQueryFails(w)

Next ==
  \/ ApiStep
  \/ claimUnenqueued
  \/ \E w \in Workers : TakeJob(w) \/ RunStep(w) \/ HandlerStep(w)
  \/ Housekeeping
  \/ RareEvent

Spec == Init /\ [][Next]_vars

\* Node runs a resolved await sooner or later; the reconciler, BullMQ's
\* stalled check and Redis TTLs are periodic; some idle slot takes a waiting
\* job; a frozen process is thawed.  A pickup that keeps coming back to the
\* gate is not rate limited for ever: bucket tokens are returned by the runs
\* that hold them and an emptied bucket expires.
Fairness ==
  /\ WF_vars(EnqueueAdd \/ EnqueueMark)
  /\ \A j \in RetryJobs : WF_vars(RetryAdd(j))
  /\ WF_vars(claimUnenqueued)
  /\ WF_vars(\E w \in Workers : TakeJob(w))
  /\ \A w \in Workers :
       /\ WF_vars(RunStep(w)) /\ WF_vars(HandlerStep(w)) /\ WF_vars(Thaw(w))
       /\ SF_vars(CircuitOpen(w) \/ tryAcquire(w))
  /\ WF_vars(OrphanExpires)
  /\ \A j \in JobIds : WF_vars(StalledCheck(j))

FairSpec == Spec /\ Fairness

-----------------------------------------------------------------------------
(* Properties that hold whatever happens: any budget, lock losses included *)

\* I2 and I3 of scripts/invariants.sql: the attempt numbers are exactly
\* 1..attempt_count, no gap and no duplicate, although the number is computed
\* by a run from a row it read long before it inserts.
AttemptLedger ==
  /\ {a.number : a \in attempts} = 1 .. attempt_count
  /\ \A a, b \in attempts : a.number = b.number => a = b

\* The strengthening that makes AttemptLedger inductive: the number a run is
\* about to insert may be stale, but it is never ahead of the table.
Numbered == {"gate", "token", "sending", "record"}

NumbersNotAhead ==
  \A w \in Workers : pc[w] \in Numbered => attemptNumber[w] \in 1 .. attempt_count + 1

\* I5, and its converse count: a delivery is marked DELIVERED exactly as often
\* as a SUCCESS attempt is on record, so no DELIVERED is without its proof.
Successes == {a \in attempts : a.outcome = "SUCCESS"}

SuccessBacked ==
  /\ status = "DELIVERED" => Successes # {}
  /\ deliveredRows = Cardinality(Successes)

\* The attempts as a list, in the order of their numbers.
AttemptList ==
  [i \in 1 .. attempt_count |-> (CHOOSE a \in attempts : a.number = i).outcome]

Trail == INSTANCE AttemptTrail WITH trail <- AttemptList

\* The three tables behave like a list that grows at its end, whose SUCCESS
\* entries alone can make the delivery DELIVERED.
RefinesTrail == Trail!Spec

-----------------------------------------------------------------------------
(* Properties that need the lock to outlive its holder: no pause, no wipe *)

Working == {"reread", "gate", "token", "sending", "record"}

\* Between the locked re-read and the recorded outcome a run holds the lock,
\* hence no two runs work on the delivery at once.
LockGuards == \A w \in Workers : pc[w] \in Working => lock = w

\* I1: the delivery is marked DELIVERED at most once.
DeliveredOnce == deliveredRows <= 1

\* What a run read is still true when it uses it: nobody moved the status
\* between getForDelivery and the transition or recordAttempt that follows.
SnapshotCurrent ==
  \A w \in Workers :
    /\ pc[w] \in {"gate", "token", "dlqWrite"} => status = fromStatus[w]
    /\ pc[w] \in {"sending", "record"} => status = "DELIVERING"
    /\ pc[w] \in {"gate", "token", "sending", "record"}
         => attemptNumber[w] = attempt_count + 1

\* The audit trail reads as one path: every transition row starts at the
\* status where the previous one ended.
AuditChain == chained

\* No request is started once a success is on record.
NoDoubleFire ==
  [][\A w \in Workers :
       pc[w] = "token" /\ pc'[w] = "sending" => Successes = {}]_vars

\* The table of SCHEMA.md 1.6, and PENDING -> FAILED, which it lacks: an open
\* breaker fails a first attempt without passing through DELIVERING.
Legal ==
  {<<"none", "PENDING">>, <<"PENDING", "DELIVERING">>, <<"FAILED", "DELIVERING">>,
   <<"DELIVERING", "DELIVERED">>, <<"DELIVERING", "FAILED">>, <<"FAILED", "DLQ">>,
   <<"DLQ", "PENDING">>, <<"PENDING", "FAILED">>}

\* Although every UPDATE names its row by id only, no writer moves the status
\* along any other edge.
LegalTransitions == [][status' # status => <<status, status'>> \in Legal]_vars

\* DELIVERED is terminal.
DeliveredIsFinal == [][status = "DELIVERED" => status' = "DELIVERED"]_vars

\* Only one job of the delivery is alive at a time.
OneLiveJob ==
  \A i, j \in JobIds :
    jobState[i] \in {"queued", "active"} /\ jobState[j] \in {"queued", "active"} => i = j

\* Check 3 of scripts/expectation.sql: a dead-lettered delivery has used up
\* its attempts.
DlqExhausted == status = "DLQ" => attempt_count >= MaxAttempts

Live(j) == jobState[j] \in {"queued", "active"}

Failed == {j \in JobIds : jobState[j] = "failed"}

\* Runs that died, or lost their job to another slot, so far.
Stalls == Budget["worker"] - left["worker"]

\* Every recorded attempt is paid for: by the budget of a job that has failed
\* for good, by that of the job that is alive or delivered, or by a run that
\* stalled after it recorded.  Hence MaxAttempts bounds attempt_count, as check
\* 1 of scripts/expectation.sql has it, only until a run stalls or a dead-
\* lettered delivery is retried by hand: either takes the code beyond it.
AttemptBound ==
  LET open == status = "DELIVERED" \/ \E j \in JobIds : Live(j) IN
  attempt_count <= MaxAttempts * Cardinality(Failed) + Stalls + IF open THEN MaxAttempts ELSE 0

-----------------------------------------------------------------------------
(* Liveness *)

\* An accepted delivery ends DELIVERED or in the DLQ, if its endpoint does not
\* stay deactivated.
Settled == status \in {"DELIVERED", "DLQ"}

EventuallySettled == <>[]is_active => [](status # "none" => <>Settled)

\* Nothing is left that could run, and nothing but a retry can change that.
Over == retrying = {} /\ jobState[DeliveryJob] = "failed" /\ \A j \in JobIds : ~Live(j)

\* The 'failed' listener died, or the job of a manual retry was never added, and
\* the delivery is left with failed jobs only.
Dropped ==
  /\ left["handler"] # Budget["handler"] \/ left["retry"] # Budget["retry"]
  /\ Over /\ \A w \in Workers : pc[w] \notin HandlerLabels

\* The losses the reconciler and the stalled check are there for are repaired:
\* only those two deaths strand a delivery.
SettledUnlessDropped ==
  <>[]is_active => [](status # "none" => <>(Settled \/ Dropped))
=============================================================================
