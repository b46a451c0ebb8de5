---------------------- MODULE DeliveryEngineInvariants ----------------------
(***************************************************************************)
(* Three inductive invariants of DeliveryEngine: type correctness, with    *)
(* one lemma per helper of the model; the protocol that the lock, BullMQ's *)
(* ownership of jobs and the failed listener, which writes without the     *)
(* lock, follow together; and, resting on it, the snapshots that the runs  *)
(* read and the audit trail they write.  One step per action.              *)
(***************************************************************************)
EXTENDS DeliveryEngine, TLAPS

-----------------------------------------------------------------------------
(* The protocol *)

Holding == Working \cup {"finally"}

Burying == {"dlqRead", "dlqWrite"}

Calm == paused = {} /\ left["pause"] = 0 /\ left["wipe"] = 0

\* The one stall is still to come, is under way, or is counted.
StallInv ==
  \A j \in JobIds :
    /\ stalledCount[j] + left["worker"] <= 1
    /\ jobState[j] = "active" /\ jobOwner[j] = "nobody"
         => left["worker"] = 0 /\ \A i \in JobIds : stalledCount[i] = 0

\* BullMQ's owner of a job runs it, and a run starts as the owner.
OwnerInv ==
  /\ \A j \in JobIds, w \in Workers : jobOwner[j] = w
       => jobState[j] = "active" /\ job[w] = j /\ pc[w] \in RunLabels
  /\ \A w \in Workers : pc[w] \in RunLabels => job[w] \in JobIds
  /\ \A w \in Workers : pc[w] = "acquire" => Owns(w)
  /\ \A w \in Workers : pc[w] = "finally" /\ result[w] = "delayed" => ~Owns(w)

\* While a run holds the lock its job is alive, also if it has lost it; an
\* owner that has released the lock is followed by nobody.
HolderInv ==
  /\ \A w \in Workers : lock = w <=> pc[w] \in Holding
  /\ \A w \in Workers : pc[w] \in Holding => Live(job[w])
  /\ \A w \in Workers : pc[w] = "settle" /\ Owns(w) => lock \notin Workers

\* The failed listener is alone: between its read and its write no job lives
\* and none can come to life.
GraveInv ==
  /\ \A w \in Workers : pc[w] \in Burying => Over /\ status # "DLQ"
  /\ \A v, w \in Workers : pc[v] \in Burying /\ pc[w] \in Burying => v = w
  /\ status = "DLQ" => Over

\* A retry is under way only when everything else is over, so the ordinary
\* job, whose id is taken, cannot come back beside a retry's.
RetryInv ==
  /\ \A i, j \in retrying : i = j
  /\ retrying # {} => jobState[DeliveryJob] = "failed" /\ \A j \in JobIds : ~Live(j)
  /\ \A j \in RetryJobs : jobState[j] # "absent" => jobState[DeliveryJob] = "failed"
  /\ ingest = "none" <=> status = "none"
  /\ status = "none" => \A j \in JobIds : jobState[j] = "absent"

ProtocolInv == Calm /\ StallInv /\ OwnerInv /\ OneLiveJob /\ HolderInv /\ GraveInv /\ RetryInv

-----------------------------------------------------------------------------
\* The part of the types the protocol is about.
ProtocolTypes ==
  /\ pc \in [Workers -> {"idle"} \cup RunLabels \cup HandlerLabels]
  /\ job \in [Workers -> JobIds \cup {"none"}]
  /\ result \in [Workers -> Outcomes \cup Endings \cup {"none"}]
  /\ jobState \in [JobIds -> JobStates] /\ jobOwner \in [JobIds -> Workers \cup {"nobody"}]
  /\ stalledCount \in [JobIds -> Nat] /\ attemptsMade \in [JobIds -> Nat] /\ left \in [RareEvents -> Nat]
  /\ retrying \subseteq RetryJobs /\ status \in Statuses \cup {"none"}
  /\ Workers \cap {"free", "orphan", "nobody"} = {} /\ RetryJobs \subseteq JobIds
  /\ DeliveryJob \in JobIds /\ DeliveryJob \notin RetryJobs /\ "none" \notin JobIds
  /\ \A j \in JobIds : j = DeliveryJob \/ j \in RetryJobs

\* The invariant needs no more than this part of the type invariant.
LEMMA Typed == TypeOK => ProtocolTypes
BY ConstantsAssumption DEF TypeOK, RunTyped, QueueTyped, RowTyped, ProtocolTypes, JobIds, DeliveryJob

\* What becomes of a job that failed, and of the slot that ran it.
FailsTo(w, j, state) ==
  /\ jobState' = [jobState EXCEPT ![j] = state]
  /\ jobOwner' = [jobOwner EXCEPT ![j] = "nobody"]
  /\ UNCHANGED stalledCount
  /\ \/ Idle(w)
     \/ state = "failed" /\ pc' = [pc EXCEPT ![w] = "dlqRead"] /\ UNCHANGED <<job, result>>

\* The failed listener goes on only for a job that is not queued again.
LEMMA FailEffect ==
  ASSUME ProtocolTypes, NEW w \in Workers, job[w] \in JobIds, Fail(w, job[w], FALSE)
  PROVE  \E state \in {"queued", "failed"} : FailsTo(w, job[w], state)
<1>1. attemptsMade[job[w]] + 1 \in Nat /\ MaxAttempts \in Nat
  BY ConstantsAssumption DEF ProtocolTypes
<1>2. [job EXCEPT ![w] = job[w]] = job
  BY DEF ProtocolTypes
<1>3. CASE attemptsMade[job[w]] + 1 >= MaxAttempts
  <2>1. Leave(job[w], "failed", 1)
    BY <1>1, <1>3 DEF Fail
  <2>2. pc' = [pc EXCEPT ![w] = "dlqRead"] /\ UNCHANGED <<job, result>>
    BY <1>2, <1>3 DEF Fail, Exhausted
  <2> QED BY <2>1, <2>2 DEF Leave, FailsTo
<1>4. CASE ~(attemptsMade[job[w]] + 1 >= MaxAttempts)
  <2>1. Leave(job[w], "queued", 1)
    BY <1>1, <1>4 DEF Fail
  <2>2. Idle(w)
    BY <1>4 DEF Fail, Exhausted
  <2> QED BY <2>1, <2>2 DEF Leave, FailsTo
<1> QED BY <1>3, <1>4

\* removeOnComplete forgets one job.
LEMMA RemoveEffect ==
  ASSUME ProtocolTypes, NEW j \in JobIds, RemoveOnComplete(j)
  PROVE  /\ jobState[j] = "completed"
         /\ jobState' = [jobState EXCEPT ![j] = "absent"]
         /\ jobOwner' = [jobOwner EXCEPT ![j] = "nobody"]
         /\ stalledCount' = [stalledCount EXCEPT ![j] = 0]
         /\ UNCHANGED <<lock, pc, job, result, status, ingest, retrying, left, paused>>
BY Zenon DEF RemoveOnComplete, Forget, ProtocolTypes, postgres, row, api, run, locals, faults

\* What a step changes about a slot that dies.
LEMMA DieEffect ==
  ASSUME NEW w \in Workers, WorkerCrash(w) \/ HandlerCrash(w)
  PROVE  /\ lock' = IF lock = w THEN "orphan" ELSE lock
         /\ jobOwner' = [j \in JobIds |-> IF jobOwner[j] = w THEN "nobody" ELSE jobOwner[j]]
         /\ pc' = [pc EXCEPT ![w] = "idle"] /\ job' = [job EXCEPT ![w] = "none"]
         /\ result' = [result EXCEPT ![w] = "none"] /\ paused' = paused \ {w}
         /\ UNCHANGED <<jobState, stalledCount, status, ingest, retrying>>
BY Zenon DEF WorkerCrash, HandlerCrash, Die, Idle, postgres, row, api

\* Every step of the system keeps the protocol invariant.
LEMMA ProtocolStep == ProtocolTypes /\ ProtocolInv /\ [Next]_vars => ProtocolInv'
<1> SUFFICES ASSUME ProtocolTypes, ProtocolInv, [Next]_vars PROVE ProtocolInv'
  OBVIOUS
<1>e. ASSUME NEW w \in Workers, getForDelivery(w) \/ RateLimited(w)
      PROVE  /\ pc[w] \in {"reread", "gate"} /\ UNCHANGED <<lock, job, status, ingest, retrying, left, paused>>
             /\ \/ /\ UNCHANGED <<queue, result>> /\ pc' = [pc EXCEPT ![w] = "gate"]
                \/ /\ UNCHANGED queue
                   /\ pc' = [pc EXCEPT ![w] = "finally"] /\ result' = [result EXCEPT ![w] = "return"]
                \/ /\ moveToDelayed(w)
                   /\ pc' = [pc EXCEPT ![w] = "finally"] /\ result' = [result EXCEPT ![w] = "delayed"]
  BY <1>e, Zenon DEF getForDelivery, RateLimited, End, At, postgres, row, api, faults
<1>f. ASSUME NEW w \in Workers, HandlerStep(w)
      PROVE  /\ UNCHANGED <<lock, queue, ingest, retrying, left, paused>>
             /\ pc[w] \in HandlerLabels
             /\ \/ Idle(w) /\ UNCHANGED status
                \/ /\ pc[w] = "dlqRead" /\ pc' = [pc EXCEPT ![w] = "dlqWrite"]
                   /\ UNCHANGED <<job, result, status>>
                \/ /\ pc[w] = "dlqWrite" /\ pc' = [pc EXCEPT ![w] = "dlqAdd"]
                   /\ UNCHANGED <<job, result>> /\ status' = "DLQ"
  BY <1>f, Zenon DEF HandlerStep, DlqRead, DlqWrite, DlqAdd, transition, Goto, locals, At, postgres, row, api,
                     faults, HandlerLabels
<1>g. ASSUME NEW w \in Workers, WorkerCrash(w) \/ HandlerCrash(w)
      PROVE  /\ left'["pause"] = left["pause"] /\ left'["wipe"] = left["wipe"]
             /\ \/ pc[w] \in RunLabels /\ left["worker"] > 0 /\ left'["worker"] = left["worker"] - 1
                \/ pc[w] \in HandlerLabels /\ left'["worker"] = left["worker"]
  BY <1>g DEF WorkerCrash, HandlerCrash, Spend, RareEvents, ProtocolTypes
<1>h. ASSUME NEW w \in Workers, RenewalLate(w)
      PROVE  /\ Owns(w) /\ pc[w] \in RunLabels /\ lock = w /\ jobOwner' = [jobOwner EXCEPT ![job[w]] = "nobody"]
             /\ left["worker"] > 0 /\ left'["worker"] = left["worker"] - 1
             /\ left'["pause"] = left["pause"] /\ left'["wipe"] = left["wipe"]
             /\ UNCHANGED <<jobState, stalledCount, lock, pc, job, result, status, ingest, retrying, paused>>
  BY <1>h DEF RenewalLate, Spend, RareEvents, ProtocolTypes, postgres, row, api, run, locals
<1>i. ASSUME NEW w \in Workers, Contended(w)
      PROVE  /\ pc[w] = "acquire" /\ moveToDelayed(w) /\ Idle(w)
             /\ UNCHANGED <<lock, status, ingest, retrying, left, paused>>
  BY <1>i DEF Contended, At, postgres, row, api, faults
<1>j. ASSUME NEW w \in Workers, deliver(w)
      PROVE  /\ pc[w] = "sending" /\ pc' = [pc EXCEPT ![w] = "record"]
             /\ \A v \in Workers \ {w} : result'[v] = result[v]
             /\ UNCHANGED <<queue, lock, job, status, ingest, retrying, left, paused>>
  BY <1>j DEF deliver, At, ProtocolTypes, postgres, row, queue, api, faults
<1>k. UNCHANGED vars \/ (\E w \in Workers : Heartbeat(w))
        => UNCHANGED <<queue, lock, pc, job, result, status, ingest, retrying, left, paused>>
  BY Zenon DEF Heartbeat, vars, postgres, row, api, run, locals, faults
<1> USE DEF ProtocolTypes, ProtocolInv, Calm, StallInv, OwnerInv, OneLiveJob, HolderInv, GraveInv, RetryInv,
            Live, Over, Holding, Working, Burying, Owns, RunLabels, HandlerLabels
<1>u. ASSUME UNCHANGED vars \/ \E w \in Workers : Heartbeat(w) PROVE ProtocolInv'
  BY <1>u, <1>k DEF queue
<1>1. CASE IngestEvent
  BY <1>1 DEF IngestEvent, transition, queue, run, locals, faults
<1>2. CASE EnqueueAdd
  BY <1>2 DEF EnqueueAdd, add, postgres, row, run, locals, faults
<1>3. ASSUME NEW j \in RetryJobs, RetryFromDlq(j) PROVE ProtocolInv'
  BY <1>3 DEF RetryFromDlq, transition, queue, run, locals, faults
<1>4. ASSUME NEW j \in RetryJobs, RetryAdd(j) PROVE ProtocolInv'
  BY <1>4 DEF RetryAdd, add, postgres, row, run, locals, faults
<1>5. CASE claimUnenqueued
  BY <1>5 DEF claimUnenqueued, NeedsRecovery, add, row, api, run, locals, faults
<1>6. ASSUME NEW w \in Workers, NEW j \in JobIds, Pickup(w, j) PROVE ProtocolInv'
  BY <1>6 DEF Pickup, At, postgres, row, api, faults
<1>7. ASSUME NEW w \in Workers, acquire(w) PROVE ProtocolInv'
  BY <1>7 DEF acquire, LockFree, At, Goto, locals, postgres, row, queue, api, faults
<1>8. ASSUME NEW w \in Workers, Contended(w) PROVE ProtocolInv'
  <2>1. /\ pc[w] = "acquire" /\ Leave(job[w], "queued", 0) /\ Idle(w)
        /\ UNCHANGED <<lock, status, ingest, retrying, left, paused>>
    BY <1>8, <1>i DEF moveToDelayed
  <2> QED BY <2>1 DEF Leave, Idle
<1>9. ASSUME NEW w \in Workers, Settle(w) PROVE ProtocolInv'
  <2>0. pc[w] = "settle" /\ job[w] \in JobIds
        /\ UNCHANGED <<lock, status, ingest, retrying, left, paused>>
    BY <1>9, Zenon DEF Settle, At, postgres, row, api, faults
  <2>1. CASE ~Owns(w) /\ UNCHANGED queue /\ Idle(w)
    BY <2>0, <2>1 DEF Idle, queue
  <2>2. CASE Owns(w) /\ Leave(job[w], "completed", 0) /\ Idle(w)
    BY <2>0, <2>2 DEF Idle, Leave
  <2>3. CASE Owns(w) /\ Fail(w, job[w], FALSE)
    <3>1. PICK state \in {"queued", "failed"} : FailsTo(w, job[w], state)
      <4> HIDE DEF ProtocolTypes, ProtocolInv
      <4> QED BY <2>0, <2>3, FailEffect, Zenon
    <3>2. CASE Idle(w)
      BY <2>0, <2>3, <3>1, <3>2 DEF FailsTo, Idle
    <3>3. CASE state = "failed" /\ pc' = [pc EXCEPT ![w] = "dlqRead"] /\ UNCHANGED <<job, result>>
      BY <2>0, <2>3, <3>1, <3>3 DEF FailsTo
    <3> QED
      <4> HIDE DEF ProtocolTypes, ProtocolInv
      <4> QED BY <3>1, <3>2, <3>3 DEF FailsTo
  <2> QED
    <3> HIDE DEF ProtocolTypes, ProtocolInv
    <3> QED BY <1>9, <2>1, <2>2, <2>3, Zenon DEF Settle
<1>10. ASSUME NEW w \in Workers, getForDelivery(w) \/ RateLimited(w) PROVE ProtocolInv'
  <2>1. pc[w] \in {"reread", "gate"} /\ UNCHANGED <<lock, job, status, ingest, retrying, left, paused>>
    BY <1>10, <1>e, Zenon
  <2>2. CASE moveToDelayed(w) /\ pc' = [pc EXCEPT ![w] = "finally"] /\ result' = [result EXCEPT ![w] = "delayed"]
    BY <2>1, <2>2 DEF moveToDelayed, Leave, queue
  <2>3. CASE UNCHANGED queue /\ pc' = [pc EXCEPT ![w] = "finally"] /\ result' = [result EXCEPT ![w] = "return"]
    BY <2>1, <2>3 DEF queue
  <2>4. CASE UNCHANGED <<queue, result>> /\ pc' = [pc EXCEPT ![w] = "gate"]
    BY <2>1, <2>4 DEF queue
  <2> QED
    <3> HIDE DEF ProtocolTypes, ProtocolInv
    <3> QED BY <1>10, <1>e, <2>2, <2>3, <2>4, Zenon
<1>11. ASSUME NEW w \in Workers, CircuitOpen(w) \/ RecordOutcome(w) PROVE ProtocolInv'
  <2>1. /\ pc[w] \in {"gate", "record"} /\ pc' = [pc EXCEPT ![w] = "finally"]
        /\ UNCHANGED <<queue, lock, job, ingest, retrying, paused, left>>
        /\ \E how \in {"return", "throw"} : result' = [result EXCEPT ![w] = how]
    BY <1>11, Zenon DEF CircuitOpen, RecordOutcome, End, At, queue, api, faults
  <2>2. status' = status \/ status' \in {"DELIVERED", "FAILED"}
    BY <1>11, Zenon DEF CircuitOpen, RecordOutcome, recordAttempt, transition, ToStatus, row
  <2> QED BY <2>1, <2>2 DEF queue
<1>13. ASSUME NEW w \in Workers, tryAcquire(w) \/ StartDelivering(w) PROVE ProtocolInv'
  BY <1>13 DEF tryAcquire, StartDelivering, transition, Goto, locals, At, postgres, row, queue, api, faults
<1>14. ASSUME NEW w \in Workers, deliver(w) PROVE ProtocolInv'
  BY <1>14, <1>j DEF queue
<1>15. ASSUME NEW w \in Workers, release(w) PROVE ProtocolInv'
  <2>1. pc[w] = "finally" /\ lock = w /\ lock' = "free" /\ UNCHANGED <<queue, status, ingest, retrying, left, paused>>
    BY <1>15, Zenon DEF release, Released, At, postgres, row, queue, api, faults
  <2>2. CASE Idle(w) /\ result[w] = "delayed"
    BY <2>1, <2>2 DEF Idle, queue
  <2>3. CASE Goto(w, "settle")
    BY <2>1, <2>3 DEF Goto, locals, queue
  <2> QED
    <3> HIDE DEF ProtocolTypes, ProtocolInv
    <3> QED BY <1>15, <2>2, <2>3, Zenon DEF release
<1>16. ASSUME NEW w \in Workers, HandlerStep(w) PROVE ProtocolInv'
  <2>1. UNCHANGED <<lock, queue, ingest, retrying, left, paused>> /\ pc[w] \in HandlerLabels
    BY <1>16, <1>f, Zenon
  <2>2. CASE Idle(w) /\ UNCHANGED status
    BY <2>1, <2>2 DEF Idle, queue
  <2>3. CASE pc[w] = "dlqRead" /\ pc' = [pc EXCEPT ![w] = "dlqWrite"] /\ UNCHANGED <<job, result, status>>
    BY <2>1, <2>3 DEF queue
  <2>4. CASE pc[w] = "dlqWrite" /\ pc' = [pc EXCEPT ![w] = "dlqAdd"] /\ UNCHANGED <<job, result>> /\ status' = "DLQ"
    BY <2>1, <2>4 DEF queue
  <2> QED
    <3> HIDE DEF ProtocolTypes, ProtocolInv
    <3> QED BY <1>16, <1>f, <2>2, <2>3, <2>4, Zenon
<1>17. CASE Housekeeping
  <2>1. CASE OrphanExpires
    BY <2>1 DEF OrphanExpires, postgres, row, queue, api, run, locals, faults
  <2>2. ASSUME NEW w \in Workers, LockExpires(w) PROVE FALSE
    BY <2>2, Zenon DEF LockExpires
  <2>3. ASSUME NEW j \in JobIds, StalledCheck(j) PROVE ProtocolInv'
    BY <2>3 DEF StalledCheck, postgres, row, api, run, locals, faults
  <2>4. ASSUME NEW j \in JobIds, RemoveOnComplete(j) PROVE ProtocolInv'
    <3>1. /\ jobState[j] = "completed"
          /\ jobState' = [jobState EXCEPT ![j] = "absent"]
          /\ jobOwner' = [jobOwner EXCEPT ![j] = "nobody"]
          /\ stalledCount' = [stalledCount EXCEPT ![j] = 0]
          /\ UNCHANGED <<lock, pc, job, result, status, ingest, retrying, left, paused>>
      <4> HIDE DEF ProtocolTypes, ProtocolInv
      <4> QED BY <2>4, RemoveEffect, Zenon
    <3>2. Calm' /\ OwnerInv'
      BY <3>1
    <3>5. StallInv'
      <4> SUFFICES ASSUME NEW i \in JobIds
                   PROVE  /\ stalledCount'[i] + left'["worker"] <= 1
                          /\ jobState'[i] = "active" /\ jobOwner'[i] = "nobody"
                               => left'["worker"] = 0 /\ \A k \in JobIds : stalledCount'[k] = 0
        BY Zenon
      <4>1. stalledCount[j] + left["worker"] <= 1 /\ stalledCount[j] \in Nat /\ left["worker"] \in Nat
        BY DEF RareEvents
      <4> QED BY <3>1, <4>1
    <3>3. OneLiveJob' /\ HolderInv'
      BY <3>1
    <3>4. GraveInv' /\ RetryInv'
      BY <3>1
    <3> QED BY <3>2, <3>3, <3>4, <3>5
  <2> QED
    <3> HIDE DEF ProtocolTypes, ProtocolInv
    <3> QED BY <1>17, <2>1, <2>2, <2>3, <2>4, Zenon DEF Housekeeping
<1>18. CASE EnqueueMark \/ EnqueueLost \/ PatchEndpoint
  <2>1. CASE EnqueueMark
    BY <2>1 DEF EnqueueMark, row, queue, run, locals, faults
  <2>2. CASE EnqueueLost
    BY <2>2 DEF EnqueueLost, Spend, RareEvents, postgres, row, queue, run, locals
  <2>3. CASE PatchEndpoint
    BY <2>3 DEF PatchEndpoint, Spend, RareEvents, row, queue, api, run, locals
  <2> QED
    <3> HIDE DEF ProtocolTypes, ProtocolInv
    <3> QED BY <1>18, <2>1, <2>2, <2>3, Zenon
<1>19. ASSUME NEW j \in RetryJobs, RetryLost(j) PROVE ProtocolInv'
  BY <1>19 DEF RetryLost, Spend, RareEvents, postgres, row, queue, run, locals
<1>20. ASSUME NEW w \in Workers, WorkerCrash(w) \/ HandlerCrash(w) PROVE ProtocolInv'
  <2>1. /\ left'["pause"] = 0 /\ left'["wipe"] = 0
        /\ \/ pc[w] \in RunLabels /\ left["worker"] = 1 /\ left'["worker"] = 0
           \/ pc[w] \in HandlerLabels /\ left'["worker"] = left["worker"]
    BY <1>20, <1>g DEF RareEvents
  <2>2. Calm' /\ StallInv'
    BY <1>20, <2>1, DieEffect
  <2>3. OwnerInv' /\ OneLiveJob'
    BY <1>20, DieEffect
  <2>4. HolderInv'
    BY <1>20, DieEffect
  <2>5. GraveInv' /\ RetryInv'
    BY <1>20, DieEffect
  <2> QED BY <2>2, <2>3, <2>4, <2>5, Zenon
<1>21. ASSUME NEW w \in Workers, RenewalLate(w) PROVE ProtocolInv'
  BY <1>21, <1>h DEF RareEvents
<1>22. ASSUME NEW w \in Workers, QueryFails(w) \/ CommitReplyLost(w) PROVE ProtocolInv'
  <2>1. /\ pc[w] \in {"reread", "gate", "token", "record"} /\ pc' = [pc EXCEPT ![w] = "finally"]
        /\ result' = [result EXCEPT ![w] = "throw"]
        /\ UNCHANGED <<queue, lock, job, ingest, retrying, paused>>
        /\ left'["pause"] = 0 /\ left'["wipe"] = 0 /\ left'["worker"] = left["worker"]
    BY <1>22 DEF QueryFails, CommitReplyLost, End, At, Spend, RareEvents, queue, api
  <2>2. status' = status \/ status' \in {"DELIVERING", "DELIVERED", "FAILED"}
    BY <1>22, Zenon DEF QueryFails, CommitReplyLost, recordAttempt, transition, ToStatus, postgres, row
  <2> QED BY <2>1, <2>2 DEF queue
<1>23. ASSUME NEW w \in Workers, HandlerQueryFails(w) PROVE ProtocolInv'
  BY <1>23 DEF HandlerQueryFails, transition, Idle, At, Spend, RareEvents, row, queue, api
<1>24. ASSUME NEW w \in Workers, Freeze(w) \/ Thaw(w) PROVE FALSE
  BY <1>24 DEF Freeze, Thaw, Spend
<1>25. ~RedisWipe
  BY DEF RedisWipe, Spend
<1>26. ASSUME NEW w \in Workers, NEW j \in JobIds, PickupCondemned(w, j) PROVE FALSE
  BY <1>26 DEF PickupCondemned, maxStalledCount, RareEvents
<1> QED
  <2> HIDE DEF ProtocolTypes, ProtocolInv
  <2> QED
    BY <1>1, <1>2, <1>3, <1>4, <1>5, <1>6, <1>7, <1>8, <1>9, <1>10, <1>11, <1>13, <1>14, <1>15,
       <1>16, <1>17, <1>18, <1>19, <1>20, <1>21, <1>22, <1>23, <1>24, <1>25, <1>26, <1>u, Zenon
       DEF Next, ApiStep, TakeJob, RunStep, RareEvent

-----------------------------------------------------------------------------
(* The building blocks of the actions keep their part of the state typed. *)

\* A slot that goes idle has typed locals.
LEMMA IdleTyped ==
  ASSUME RunTyped, NEW w \in Workers, Idle(w)
  PROVE  RunTyped'
BY DEF RunTyped, Idle

\* A run that leaves the try block has typed locals.
LEMMA EndTyped ==
  ASSUME RunTyped, NEW w \in Workers, NEW how \in Endings, End(w, how)
  PROVE  RunTyped'
BY DEF RunTyped, End, RunLabels

\* Moving a slot on to a label other than "record" keeps its locals typed.
LEMMA GotoTyped ==
  ASSUME RunTyped, NEW w \in Workers,
         NEW l \in (RunLabels \cup HandlerLabels) \ {"record"}, Goto(w, l)
  PROVE  RunTyped'
BY DEF RunTyped, Goto, locals

\* A job that leaves the active state keeps the queue typed.
LEMMA LeaveTyped ==
  ASSUME QueueTyped, NEW j, NEW state \in JobStates, NEW burnt \in Nat,
         Leave(j, state, burnt)
  PROVE  QueueTyped'
<1>1. \A i \in JobIds : attemptsMade'[i] \in Nat
  BY DEF QueueTyped, Leave
<1>2. attemptsMade' \in [JobIds -> Nat]
  BY <1>1, Zenon DEF QueueTyped, Leave
<1>3. jobState' \in [JobIds -> JobStates]
  BY Zenon DEF QueueTyped, Leave
<1> QED BY <1>2, <1>3 DEF QueueTyped, Leave

\* So does moveToDelayed.
LEMMA DelayTyped ==
  ASSUME QueueTyped, NEW w \in Workers, moveToDelayed(w)
  PROVE  QueueTyped'
<1>1. CASE Owns(w)
  BY <1>1, LeaveTyped DEF moveToDelayed, JobStates
<1>2. CASE ~Owns(w)
  BY <1>2 DEF moveToDelayed, queue, QueueTyped
<1> QED BY <1>1, <1>2

\* BullMQ's handling of a failure keeps the queue and the slot typed.
LEMMA FailTyped ==
  ASSUME QueueTyped, RunTyped, NEW w \in Workers, NEW j \in JobIds \cup {"none"},
         NEW condemned \in BOOLEAN, Fail(w, j, condemned)
  PROVE  QueueTyped' /\ RunTyped'
<1>1. QueueTyped'
  <2> DEFINE state == IF attemptsMade[j] + 1 < MaxAttempts /\ ~condemned THEN "queued" ELSE "failed"
  <2>1. state \in JobStates
    BY DEF JobStates
  <2>2. Leave(j, state, 1)
    BY DEF Fail
  <2> HIDE DEF state
  <2> QED BY <2>1, <2>2, LeaveTyped
<1>2. CASE Exhausted(attemptsMade[j] + 1)
  <2>1. RunTyped'
    BY <1>2 DEF Fail, RunTyped, HandlerLabels
  <2> QED BY <1>1, <2>1
<1>3. CASE ~Exhausted(attemptsMade[j] + 1)
  <2>1. Idle(w)
    BY <1>3 DEF Fail
  <2> QED BY <1>1, <2>1, IdleTyped
<1> QED BY <1>2, <1>3

\* Removing jobs keeps the queue typed.
LEMMA ForgetTyped ==
  ASSUME QueueTyped, NEW js, Forget(js)
  PROVE  QueueTyped'
BY DEF QueueTyped, Forget, JobStates

\* Writing a status keeps the row typed.
LEMMA TransitionTyped ==
  ASSUME RowTyped, NEW from, NEW to \in Statuses, transition(from, to)
  PROVE  RowTyped'
BY DEF RowTyped, transition

\* Recording an attempt keeps the row and the ledger typed.
LEMMA RecordTyped ==
  ASSUME RowTyped, LedgerTyped, NEW n \in Nat, NEW outcome \in Outcomes,
         NEW from, NEW to \in Statuses, recordAttempt(n, outcome, from, to)
  PROVE  RowTyped' /\ LedgerTyped'
<1>1. RowTyped'
  BY TransitionTyped DEF recordAttempt
<1>2. LedgerTyped'
  BY DEF LedgerTyped, recordAttempt
<1> QED BY <1>1, <1>2

\* The status an outcome leads to is a status.
LEMMA ToStatusTyped == \A o : ToStatus(o) \in Statuses
BY DEF ToStatus, Statuses

-----------------------------------------------------------------------------
(* Type correctness *)

\* The initial state is well typed.
LEMMA InitType == Init => TypeOK
<1> SUFFICES ASSUME Init PROVE TypeOK
  OBVIOUS
<1>1. RowTyped /\ LedgerTyped
  BY DEF Init, RowTyped, LedgerTyped
<1>2. QueueTyped
  BY DEF Init, QueueTyped, JobStates
<1>3. RunTyped
  BY DEF Init, RunTyped
<1> QED BY <1>1, <1>2, <1>3, ConstantsAssumption, Zenon DEF Init, TypeOK

\* Every step of the system keeps the columns, keys and locals in their domains.
LEMMA NextType == TypeOK /\ [Next]_vars => TypeOK'
<1> SUFFICES ASSUME TypeOK, [Next]_vars PROVE TypeOK'
  OBVIOUS
<1> USE DEF TypeOK, postgres, row, ledger, queue, api, locals, run, faults
<1>a. UNCHANGED row => RowTyped'
  BY DEF RowTyped
<1>b. UNCHANGED ledger => LedgerTyped'
  BY DEF LedgerTyped
<1>c. UNCHANGED queue => QueueTyped'
  BY DEF QueueTyped
<1>d. UNCHANGED run => RunTyped'
  BY DEF RunTyped
<1>e. \A j : add(j) => QueueTyped'
  BY Zenon DEF QueueTyped, JobStates, add
<1> USE <1>a, <1>b, <1>c, <1>d, <1>e
<1>1. CASE ApiStep
  <2>1. CASE IngestEvent
    BY <2>1, TransitionTyped, Zenon DEF IngestEvent, Statuses
  <2>2. CASE EnqueueAdd
    BY <2>2, Zenon DEF EnqueueAdd
  <2>3. CASE EnqueueMark
    BY <2>3, Zenon DEF EnqueueMark
  <2>4. ASSUME NEW j \in RetryJobs, RetryFromDlq(j) PROVE TypeOK'
    BY <2>4, TransitionTyped, Zenon DEF RetryFromDlq, Statuses
  <2>5. ASSUME NEW j \in RetryJobs, RetryAdd(j) PROVE TypeOK'
    BY <2>5 DEF RetryAdd
  <2> QED BY <1>1, <2>1, <2>2, <2>3, <2>4, <2>5, Zenon DEF ApiStep
<1>2. CASE claimUnenqueued
  BY <1>2, Zenon DEF claimUnenqueued
<1>3. ASSUME NEW w \in Workers, TakeJob(w) PROVE TypeOK'
  <2>1. ASSUME NEW j \in JobIds, Pickup(w, j) PROVE TypeOK'
    <3>1. QueueTyped' /\ RunTyped'
      BY <2>1 DEF Pickup, QueueTyped, RunTyped, JobStates, RunLabels
    <3> QED BY <2>1, <3>1, Zenon DEF Pickup
  <2>2. ASSUME NEW j \in JobIds, PickupCondemned(w, j) PROVE TypeOK'
    BY <2>2, FailTyped, Zenon DEF PickupCondemned
  <2> QED BY <1>3, <2>1, <2>2, Zenon DEF TakeJob
<1>4. ASSUME NEW w \in Workers, RunStep(w) PROVE TypeOK'
  <2>n. attemptNumber[w] \in Nat
    BY Zenon DEF RunTyped
  <2>1. CASE acquire(w)
    BY <2>1, GotoTyped, Zenon DEF acquire, RunLabels, HandlerLabels
  <2>2. CASE Contended(w)
    BY <2>2, DelayTyped, IdleTyped, Zenon DEF Contended
  <2>3. CASE getForDelivery(w)
    <3>1. CASE End(w, "return") /\ UNCHANGED queue
      BY <2>3, <3>1, EndTyped, Zenon DEF getForDelivery, Endings
    <3>2. CASE End(w, "delayed") /\ moveToDelayed(w)
      BY <2>3, <3>2, EndTyped, DelayTyped, Zenon DEF getForDelivery, Endings
    <3>3. CASE /\ pc' = [pc EXCEPT ![w] = "gate"]
               /\ fromStatus' = [fromStatus EXCEPT ![w] = status]
               /\ attemptNumber' = [attemptNumber EXCEPT ![w] = attempt_count + 1]
               /\ UNCHANGED <<queue, job, result, lockLost>>
      <4>1. RunTyped'
        BY <3>3 DEF RunTyped, RunLabels, RowTyped, LedgerTyped
      <4> QED BY <2>3, <3>3, <4>1, Zenon DEF getForDelivery
    <3> QED BY <2>3, <3>1, <3>2, <3>3, Zenon DEF getForDelivery, NextNumber
  <2>4. CASE CircuitOpen(w)
    <3>1. RunTyped'
      BY <2>4, EndTyped, Zenon DEF CircuitOpen, Endings
    <3>2. RowTyped' /\ LedgerTyped'
      BY <2>4, <2>n, RecordTyped, Zenon DEF CircuitOpen, Outcomes, Statuses
    <3> QED BY <2>4, <3>1, <3>2, Zenon DEF CircuitOpen
  <2>5. CASE RateLimited(w)
    BY <2>5, EndTyped, DelayTyped, Zenon DEF RateLimited, Endings
  <2>6. CASE tryAcquire(w)
    BY <2>6, GotoTyped, Zenon DEF tryAcquire, RunLabels, HandlerLabels
  <2>7. CASE StartDelivering(w)
    BY <2>7, TransitionTyped, GotoTyped, Zenon DEF StartDelivering, Statuses, RunLabels, HandlerLabels
  <2>8. CASE Heartbeat(w)
    <3>1. RunTyped'
      BY <2>8, Zenon DEF Heartbeat, RunTyped
    <3> QED BY <2>8, <3>1, Zenon DEF Heartbeat
  <2>9. CASE deliver(w)
    <3>1. OutcomesOf(w) \subseteq Outcomes
      BY ConstantsAssumption, Zenon DEF OutcomesOf, Outcomes
    <3>2. RunTyped'
      BY <2>9, <3>1, Zenon DEF deliver, RunTyped, RunLabels
    <3> QED BY <2>9, <3>2, Zenon DEF deliver
  <2>10. CASE RecordOutcome(w)
    <3>1. result[w] \in Outcomes
      BY <2>10, Zenon DEF RecordOutcome, At, RunTyped
    <3>2. RunTyped'
      BY <2>10, EndTyped, Zenon DEF RecordOutcome, Endings
    <3>3. RowTyped' /\ LedgerTyped'
      BY <2>10, <2>n, <3>1, RecordTyped, ToStatusTyped, Zenon DEF RecordOutcome
    <3> QED BY <2>10, <3>2, <3>3, Zenon DEF RecordOutcome
  <2>11. CASE release(w)
    <3>1. RunTyped'
      BY <2>11, IdleTyped, GotoTyped DEF release, RunLabels, HandlerLabels
    <3> QED BY <2>11, <3>1, Zenon DEF release, Released
  <2>12. CASE Settle(w)
    <3>1. CASE UNCHANGED queue /\ Idle(w)
      BY <2>12, <3>1, IdleTyped, Zenon DEF Settle
    <3>2. CASE Leave(job[w], "completed", 0) /\ Idle(w)
      BY <2>12, <3>2, IdleTyped, LeaveTyped, Zenon DEF Settle, JobStates
    <3>3. CASE Fail(w, job[w], FALSE)
      <4>1. job[w] \in JobIds \cup {"none"}
        BY DEF RunTyped
      <4>2. QueueTyped' /\ RunTyped'
        BY <3>3, <4>1, FailTyped, Zenon
      <4> QED BY <2>12, <4>2, Zenon DEF Settle
    <3> QED BY <2>12, <3>1, <3>2, <3>3, Zenon DEF Settle
  <2> HIDE DEF TypeOK
  <2> QED BY <1>4, <2>1, <2>2, <2>3, <2>4, <2>5, <2>6, <2>7, <2>8, <2>9, <2>10,
             <2>11, <2>12, Zenon DEF RunStep
<1>5. ASSUME NEW w \in Workers, HandlerStep(w) PROVE TypeOK'
  <2>1. CASE DlqRead(w)
    <3>1. RunTyped'
      BY <2>1, IdleTyped, Zenon DEF DlqRead, RunTyped, RowTyped, HandlerLabels
    <3> QED BY <2>1, <3>1 DEF DlqRead
  <2>2. CASE DlqWrite(w)
    BY <2>2, TransitionTyped, GotoTyped, Zenon DEF DlqWrite, Statuses, RunLabels, HandlerLabels
  <2>3. CASE DlqAdd(w)
    BY <2>3, IdleTyped, Zenon DEF DlqAdd
  <2> QED BY <1>5, <2>1, <2>2, <2>3, Zenon DEF HandlerStep
<1>6. CASE Housekeeping
  <2>1. CASE OrphanExpires
    BY <2>1, Zenon DEF OrphanExpires
  <2>2. ASSUME NEW w \in Workers, LockExpires(w) PROVE TypeOK'
    BY <2>2, Zenon DEF LockExpires
  <2>3. ASSUME NEW j \in JobIds, StalledCheck(j) PROVE TypeOK'
    <3>1. QueueTyped'
      BY <2>3 DEF StalledCheck, QueueTyped, JobStates
    <3> QED BY <2>3, <3>1, Zenon DEF StalledCheck
  <2>4. ASSUME NEW j \in JobIds, RemoveOnComplete(j) PROVE TypeOK'
    BY <2>4, ForgetTyped, Zenon DEF RemoveOnComplete
  <2> QED BY <1>6, <2>1, <2>2, <2>3, <2>4, Zenon DEF Housekeeping
<1>7. CASE RareEvent
  <2>s. ASSUME NEW e, Spend(e) PROVE left' \in [RareEvents -> Nat]
    <3>1. \A r \in RareEvents : left'[r] \in Nat
      BY <2>s DEF Spend
    <3> QED BY <2>s, <3>1, Zenon DEF Spend
  <2>1. CASE EnqueueLost
    BY <2>1, <2>s DEF EnqueueLost
  <2>2. CASE RedisWipe
    BY <2>2, <2>s, ForgetTyped, Zenon DEF RedisWipe
  <2>3. CASE PatchEndpoint
    BY <2>3, <2>s, Zenon DEF PatchEndpoint
  <2>4. ASSUME NEW j \in RetryJobs, RetryLost(j) PROVE TypeOK'
    BY <2>4, <2>s, Zenon DEF RetryLost
  <2>5. ASSUME NEW w \in Workers, WorkerCrash(w) \/ HandlerCrash(w) PROVE TypeOK'
    <3>1. Die(w) /\ left' \in [RareEvents -> Nat]
      BY <2>5, <2>s, Zenon DEF WorkerCrash, HandlerCrash
    <3>2. QueueTyped'
      BY <3>1, Zenon DEF Die, QueueTyped
    <3> QED BY <3>1, <3>2, IdleTyped, Zenon DEF Die
  <2>6. ASSUME NEW w \in Workers, Freeze(w) \/ Thaw(w) PROVE TypeOK'
    BY <2>6, <2>s, Zenon DEF Freeze, Thaw
  <2>7. ASSUME NEW w \in Workers, QueryFails(w) PROVE TypeOK'
    BY <2>7, <2>s, EndTyped, Zenon DEF QueryFails, Endings
  <2>8. ASSUME NEW w \in Workers, CommitReplyLost(w) PROVE TypeOK'
    <3>1. RunTyped'
      BY <2>8, EndTyped, Zenon DEF CommitReplyLost, Endings
    <3>2. RowTyped' /\ LedgerTyped'
      <4>1. attemptNumber[w] \in Nat
        BY Zenon DEF RunTyped
      <4>2. CASE transition(fromStatus[w], "DELIVERING") /\ UNCHANGED ledger
        BY <4>2, TransitionTyped, Zenon DEF Statuses
      <4>3. CASE /\ At(w, "record")
                 /\ recordAttempt(attemptNumber[w], result[w], "DELIVERING", ToStatus(result[w]))
        <5>1. result[w] \in Outcomes
          BY <4>3, Zenon DEF At, RunTyped
        <5> QED BY <4>1, <4>3, <5>1, RecordTyped, ToStatusTyped, Zenon
      <4> QED BY <2>8, <4>2, <4>3, Zenon DEF CommitReplyLost
    <3> QED BY <2>8, <2>s, <3>1, <3>2, Zenon DEF CommitReplyLost
  <2>9. ASSUME NEW w \in Workers, HandlerQueryFails(w) PROVE TypeOK'
    <3>1. RowTyped'
      BY <2>9, TransitionTyped, Zenon DEF HandlerQueryFails, Statuses
    <3>2. RunTyped'
      BY <2>9, IdleTyped, Zenon DEF HandlerQueryFails
    <3> QED BY <2>9, <2>s, <3>1, <3>2, Zenon DEF HandlerQueryFails
  <2>10. ASSUME NEW w \in Workers, RenewalLate(w) PROVE TypeOK'
    <3>1. QueueTyped'
      BY <2>10, Zenon DEF RenewalLate, QueueTyped
    <3> QED BY <2>10, <2>s, <3>1, Zenon DEF RenewalLate
  <2> HIDE DEF TypeOK
  <2> QED BY <1>7, <2>1, <2>2, <2>3, <2>4, <2>5, <2>6, <2>7, <2>8, <2>9, <2>10 DEF RareEvent
<1>8. CASE UNCHANGED vars
  BY <1>8 DEF vars
<1> HIDE DEF TypeOK
<1> QED BY <1>1, <1>2, <1>3, <1>4, <1>5, <1>6, <1>7, <1>8 DEF Next

\* Type correctness of the whole engine.
THEOREM TypeCorrect == Spec => []TypeOK
BY InitType, NextType, PTL DEF Spec

-----------------------------------------------------------------------------
(* One live job *)

NoLockLoss == Budget["pause"] = 0 /\ Budget["wipe"] = 0

\* No lock is taken from a living holder, and at most one job ever stalls.
OneStall == NoLockLoss /\ Budget["worker"] <= 1

\* The protocol invariant holds at the start if at most one stall is to come.
LEMMA ProtocolInit == OneStall /\ Init => ProtocolInv
<1> SUFFICES ASSUME OneStall, Init PROVE ProtocolInv
  OBVIOUS
<1>1. ProtocolTypes
  BY InitType, Typed
<1> QED
  BY <1>1 DEF ProtocolTypes, OneStall, NoLockLoss, Init, ProtocolInv, Calm, StallInv, OwnerInv, OneLiveJob,
              HolderInv, GraveInv, RetryInv, Live, Over, Holding, Working, Burying, Owns, RunLabels,
              HandlerLabels, RareEvents

\* The protocol invariant, in every reachable state.
LEMMA ProtocolAlways == OneStall /\ Spec => [](TypeOK /\ ProtocolInv)
<1>1. OneStall /\ Init => TypeOK /\ ProtocolInv
  BY InitType, ProtocolInit
<1>2. TypeOK /\ ProtocolInv /\ [Next]_vars => (TypeOK /\ ProtocolInv)'
  BY NextType, ProtocolStep, Typed
<1> QED BY <1>1, <1>2, PTL DEF Spec

\* Only one job of the delivery is alive at a time: the ordinary job and the
\* retries take turns, also when a job stalls while its run goes on.
THEOREM OneJobCorrect == OneStall /\ Spec => []OneLiveJob
<1>1. ProtocolInv => OneLiveJob
  BY Zenon DEF ProtocolInv
<1> QED BY <1>1, ProtocolAlways, PTL

-----------------------------------------------------------------------------
(* One writer *)

Writers == Working \cup Burying

\* Who may still write the row: a single slot, and none before the delivery
\* exists or while it is in the DLQ.
OneWriter ==
  /\ \A v, w \in Workers : pc[v] \in Writers /\ pc[w] \in Writers => v = w
  /\ ingest = "none" => status = "none"
  /\ status \in {"none", "DLQ"} => \A w \in Workers : pc[w] \notin Writers

\* The lock keeps the runs apart; a listener writes only when nothing lives.
LEMMA ProtocolOneWriter == ProtocolTypes /\ ProtocolInv => OneWriter
<1> SUFFICES ASSUME ProtocolTypes, ProtocolInv PROVE OneWriter
  BY Zenon
<1> USE DEF ProtocolTypes, ProtocolInv
<1>1. \A w \in Workers : pc[w] \in Working => lock = w /\ job[w] \in JobIds /\ Live(job[w])
  BY Zenon DEF HolderInv, OwnerInv, Holding, Working, RunLabels
<1>2. \A w \in Workers : pc[w] \in Burying => Over /\ status # "DLQ"
  BY Zenon DEF GraveInv
<1>3. status = "DLQ" => Over
  BY Zenon DEF GraveInv
<1>4. status = "none" => \A j \in JobIds : jobState[j] = "absent"
  BY Zenon DEF RetryInv
<1>5. Over => \A j \in JobIds : ~Live(j)
  BY Zenon DEF Over
<1>6. \A v, w \in Workers : pc[v] \in Burying /\ pc[w] \in Burying => v = w
  BY Zenon DEF GraveInv
<1>7. \A v, w \in Workers : pc[v] \in Writers /\ pc[w] \in Writers => v = w
  BY <1>1, <1>2, <1>5, <1>6, Zenon DEF Writers
<1>8. status \in {"none", "DLQ"} => \A w \in Workers : pc[w] \notin Writers
  BY <1>1, <1>2, <1>3, <1>4, <1>5, Zenon DEF Writers, Live, Over
<1>9. ingest = "none" => status = "none"
  BY DEF RetryInv
<1> QED BY <1>7, <1>8, <1>9 DEF OneWriter

Leaving == {"finally", "settle"}

\* The run of w is about to report a failure that BullMQ will count.
Failing(w) == pc[w] \in Leaving /\ Owns(w) /\ result[w] = "throw"

\* While a failure is yet to be counted nobody writes the row.
FailingAlone ==
  \A w \in Workers : Failing(w) =>
    /\ \A v \in Workers : pc[v] \notin Writers
    /\ status \notin {"none", "DLQ"}

\* Its job is alive and has the lock, or has just given it back.
LEMMA ProtocolFailingAlone == ProtocolTypes /\ ProtocolInv => FailingAlone
<1> SUFFICES ASSUME ProtocolTypes, ProtocolInv, NEW w \in Workers, Failing(w)
             PROVE  /\ \A v \in Workers : pc[v] \notin Writers
                    /\ status \notin {"none", "DLQ"}
  BY Zenon DEF FailingAlone
<1>1. job[w] \in JobIds /\ jobState[job[w]] = "active" /\ Live(job[w])
  BY Zenon DEF ProtocolInv, OwnerInv, Failing, Owns, Leaving, RunLabels, Live
<1>2. ~Over /\ status # "none"
  BY <1>1 DEF Over, ProtocolInv, RetryInv
<1>3. \A v \in Workers : pc[v] \notin Burying
  BY <1>2, Zenon DEF ProtocolInv, GraveInv
<1>4. \A v \in Workers : pc[v] \notin Working
  BY DEF ProtocolInv, HolderInv, Failing, Leaving, Holding, Working, ProtocolTypes
<1>5. status # "DLQ"
  BY <1>2, Zenon DEF ProtocolInv, GraveInv
<1> QED BY <1>2, <1>3, <1>4, <1>5 DEF Writers

-----------------------------------------------------------------------------
(* The steps that neither read nor write the row *)

\* Where a run, or the listener, relies on what it has read.
Relying == {"gate", "token", "sending", "record", "dlqWrite"}

\* No job becomes the property of a slot in V, and no count of a job grows.
Yields(V) ==
  \A j \in JobIds :
    /\ attemptsMade'[j] \in {attemptsMade[j], 0}
    /\ \A v \in V : jobState'[j] = "active" /\ jobOwner'[j] = v => jobState[j] = "active" /\ jobOwner[j] = v

\* A failure about to be counted was one before, a listener comes from a
\* counted failure, and no slot relies on what it has not read.
Meek ==
  /\ UNCHANGED <<row, attempt_count>> /\ left'["db"] = left["db"]
  /\ \A v \in Workers :
       /\ Failing(v)' => Failing(v) /\ job'[v] = job[v]
       /\ pc'[v] \in Burying => pc[v] \in Burying \/ (Failing(v) /\ Settle(v))
       /\ pc'[v] \in Relying =>
            /\ fromStatus'[v] = fromStatus[v] /\ attemptNumber'[v] = attemptNumber[v]
            /\ <<pc[v], pc'[v]>> \in {<<"gate", "token">>, <<"sending", "record">>}
                 \cup {<<l, l>> : l \in Relying}
  /\ Yields({}) \/ \E v \in Workers : Failing(v) /\ Settle(v)

\* Nothing changes about the slots.
LEMMA StillIsMeek ==
  ASSUME ProtocolTypes, OwnerInv, Yields(Workers), left'["db"] = left["db"],
         UNCHANGED <<row, attempt_count, pc, job, result, fromStatus, attemptNumber>>
  PROVE  Meek
<1>1. \A v \in Workers : pc[v] \in Leaving => job[v] \in JobIds
  BY Zenon DEF OwnerInv, Leaving, RunLabels
<1>2. \A v \in Workers : Failing(v)' => Failing(v)
  BY <1>1, Zenon DEF Failing, Owns, Yields
<1> QED BY <1>2, Zenon DEF Meek, Relying, Yields

\* One slot moves to where it relies on nothing and reports no failure.
LEMMA MoveIsMeek ==
  ASSUME ProtocolTypes, OwnerInv, NEW w \in Workers, NEW l, Yields(Workers \ {w}), left'["db"] = left["db"],
         UNCHANGED <<row, attempt_count>>, pc' = [pc EXCEPT ![w] = l], l \notin Relying \cup Burying,
         l \in Leaving => (Failing(w)' => Failing(w) /\ job'[w] = job[w]),
         \A v \in Workers \ {w} : /\ job'[v] = job[v] /\ result'[v] = result[v]
                                  /\ fromStatus'[v] = fromStatus[v] /\ attemptNumber'[v] = attemptNumber[v]
  PROVE  Meek
<1>1. \A v \in Workers : pc[v] \in Leaving => job[v] \in JobIds
  BY Zenon DEF OwnerInv, Leaving, RunLabels
<1>2. \A v \in Workers : v # w => pc'[v] = pc[v]
  BY Zenon DEF ProtocolTypes
<1>3. pc'[w] = l
  BY Zenon DEF ProtocolTypes
<1>4. \A v \in Workers : Failing(v)' => Failing(v) /\ job'[v] = job[v]
  <2>1. Failing(w)' => Failing(w) /\ job'[w] = job[w]
    BY <1>3, Zenon DEF Failing
  <2>2. ASSUME NEW v \in Workers, v # w, Failing(v)' PROVE Failing(v) /\ job'[v] = job[v]
    <3>1. pc[v] \in Leaving /\ job'[v] = job[v] /\ result'[v] = result[v] /\ job[v] \in JobIds
      BY <1>1, <1>2, <2>2, Zenon DEF Failing
    <3>2. jobState'[job[v]] = "active" /\ jobOwner'[job[v]] = v /\ result[v] = "throw"
      BY <2>2, <3>1, Zenon DEF Failing, Owns
    <3>3. jobState[job[v]] = "active" /\ jobOwner[job[v]] = v
      BY <2>2, <3>1, <3>2, Zenon DEF Yields
    <3> QED BY <3>1, <3>2, <3>3, Zenon DEF Failing, Owns
  <2> QED BY <2>1, <2>2, Zenon
<1>5. \A v \in Workers : v # w /\ pc'[v] \in Relying => <<pc[v], pc'[v]>> \in {<<k, k>> : k \in Relying}
  BY <1>2, Zenon
<1> QED BY <1>2, <1>3, <1>4, <1>5 DEF Meek, Yields

\* What the queue does when no slot takes a job and no failure is counted.
LEMMA QueueYields ==
  ASSUME ProtocolTypes,
         \/ UNCHANGED queue
         \/ \E j \in JobIds : add(j) \/ RemoveOnComplete(j) \/ StalledCheck(j) \/ Leave(j, "completed", 0)
         \/ \E w \in Workers : job[w] \in JobIds /\ moveToDelayed(w)
         \/ \E w \in Workers : WorkerCrash(w) \/ HandlerCrash(w) \/ RenewalLate(w)
  PROVE  Yields(Workers)
<1> USE DEF ProtocolTypes, Yields
<1>1. CASE UNCHANGED queue
  BY <1>1 DEF queue
<1>2. ASSUME NEW j \in JobIds, add(j) PROVE Yields(Workers)
  BY <1>2 DEF add
<1>3. ASSUME NEW j \in JobIds, RemoveOnComplete(j) PROVE Yields(Workers)
  BY <1>3, Zenon DEF RemoveOnComplete, Forget
<1>4. ASSUME NEW j \in JobIds, StalledCheck(j) PROVE Yields(Workers)
  BY <1>4, Zenon DEF StalledCheck
<1>5. ASSUME NEW j \in JobIds, NEW state \in {"queued", "completed"}, Leave(j, state, 0) PROVE Yields(Workers)
  BY <1>5 DEF Leave
<1>6. ASSUME NEW w \in Workers, job[w] \in JobIds, moveToDelayed(w) PROVE Yields(Workers)
  BY <1>1, <1>5, <1>6, Zenon DEF moveToDelayed
<1>7. ASSUME NEW w \in Workers, WorkerCrash(w) \/ HandlerCrash(w) PROVE Yields(Workers)
  BY <1>7, Zenon DEF WorkerCrash, HandlerCrash, Die
<1>8. ASSUME NEW w \in Workers, RenewalLate(w) PROVE Yields(Workers)
  BY <1>8 DEF RenewalLate
<1> QED
  <2> HIDE DEF Yields
  <2> QED BY <1>1, <1>2, <1>3, <1>4, <1>5, <1>6, <1>7, <1>8, Zenon

\* The steps that do not touch the row.
AsideStep ==
  \/ EnqueueAdd \/ EnqueueMark \/ claimUnenqueued \/ Housekeeping
  \/ EnqueueLost \/ PatchEndpoint \/ UNCHANGED vars
  \/ \E j \in RetryJobs : RetryAdd(j) \/ RetryLost(j)
  \/ \E w \in Workers :
       \/ TakeJob(w) \/ acquire(w) \/ Contended(w) \/ RateLimited(w) \/ tryAcquire(w)
       \/ Heartbeat(w) \/ deliver(w) \/ release(w) \/ Settle(w) \/ DlqAdd(w)
       \/ WorkerCrash(w) \/ RenewalLate(w) \/ HandlerCrash(w)

\* Every one of them is meek.
LEMMA MeekSteps == ASSUME TypeOK, ProtocolTypes, ProtocolInv, AsideStep PROVE Meek
<1>i. OwnerInv /\ \A v \in Workers : pc[v] \in RunLabels => job[v] \in JobIds
  BY Zenon DEF ProtocolInv, OwnerInv
<1>v. ASSUME NEW w \in Workers, Yields(Workers) PROVE Yields(Workers \ {w})
  BY <1>v, Zenon DEF Yields
<1>l. Spend("api") \/ Spend("patch") \/ Spend("retry") \/ Spend("worker") \/ Spend("handler") => left'["db"] = left["db"]
  BY Zenon DEF Spend, RareEvents, ProtocolTypes
<1>1. CASE EnqueueAdd \/ EnqueueMark \/ claimUnenqueued \/ EnqueueLost \/ PatchEndpoint \/ UNCHANGED vars
  <2>1. /\ UNCHANGED <<row, attempt_count, pc, job, result, fromStatus, attemptNumber>>
        /\ left'["db"] = left["db"] /\ (UNCHANGED queue \/ add(DeliveryJob))
    BY <1>1, <1>l, Zenon DEF EnqueueAdd, EnqueueMark, claimUnenqueued, EnqueueLost, PatchEndpoint, vars, postgres,
                             ledger,
                      run, locals, faults
  <2>2. Yields(Workers)
    BY <2>1, QueueYields, Zenon DEF ProtocolTypes
  <2> QED BY <2>1, <2>2, <1>i, StillIsMeek, Zenon
<1>2. CASE Housekeeping
  <2>1. UNCHANGED <<row, attempt_count, pc, job, result, fromStatus, attemptNumber, left>>
    BY <1>2, Zenon DEF Housekeeping, OrphanExpires, LockExpires, StalledCheck, RemoveOnComplete, postgres, ledger,
                       run, locals, faults
  <2>2. Yields(Workers)
    BY <1>2, QueueYields, Zenon DEF Housekeeping, OrphanExpires, LockExpires
  <2> QED BY <2>1, <2>2, <1>i, StillIsMeek
<1>3. ASSUME NEW j \in RetryJobs, RetryAdd(j) \/ RetryLost(j) PROVE Meek
  <2>1. /\ UNCHANGED <<row, attempt_count, pc, job, result, fromStatus, attemptNumber>>
        /\ left'["db"] = left["db"] /\ (UNCHANGED queue \/ add(j))
    BY <1>3, <1>l, Zenon DEF RetryAdd, RetryLost, postgres, ledger, run, locals, faults
  <2>2. Yields(Workers)
    BY <2>1, QueueYields DEF ProtocolTypes
  <2> QED BY <2>1, <2>2, <1>i, StillIsMeek, Zenon
<1>4. ASSUME NEW w \in Workers, Heartbeat(w) \/ RenewalLate(w) PROVE Meek
  <2>1. /\ UNCHANGED <<row, attempt_count, pc, job, result, fromStatus, attemptNumber>>
        /\ left'["db"] = left["db"] /\ (UNCHANGED queue \/ RenewalLate(w))
    BY <1>4, <1>l, Zenon DEF Heartbeat, RenewalLate, postgres, ledger, run, locals, faults
  <2>2. Yields(Workers)
    BY <2>1, QueueYields, Zenon
  <2> QED BY <2>1, <2>2, <1>i, StillIsMeek, Zenon
\* A slot goes idle, or on to a place where it relies on nothing.
<1>m. ASSUME NEW w \in Workers, Yields(Workers), left'["db"] = left["db"], UNCHANGED <<row, attempt_count>>,
             \/ Idle(w) \/ End(w, "delayed") \/ Goto(w, "reread") \/ (pc[w] = "finally" /\ Goto(w, "settle"))
      PROVE  Meek
  <2>1. Yields(Workers \ {w})
    BY <1>m, <1>v, Zenon
  <2>2. \A v \in Workers \ {w} : /\ job'[v] = job[v] /\ result'[v] = result[v]
                                 /\ fromStatus'[v] = fromStatus[v] /\ attemptNumber'[v] = attemptNumber[v]
    BY <1>m DEF Idle, End, Goto, locals, TypeOK, RunTyped
  <2>3. CASE Idle(w) \/ Goto(w, "reread")
    BY <1>m, <1>i, <2>1, <2>2, <2>3, MoveIsMeek, Zenon DEF Idle, Goto, Relying, Burying, Leaving
  <2>4. CASE End(w, "delayed")
    <3>1. ~Failing(w)'
      BY <2>4 DEF End, Failing, ProtocolTypes
    <3> QED BY <1>m, <1>i, <2>1, <2>2, <2>4, <3>1, MoveIsMeek, Zenon DEF End, Relying, Burying
  <2>5. CASE pc[w] = "finally" /\ Goto(w, "settle")
    <3>1. Failing(w)' => Failing(w) /\ job'[w] = job[w]
      BY <1>m, <1>i, <2>5, Zenon DEF Goto, locals, Failing, Leaving, Owns, Yields, RunLabels
    <3> QED BY <1>m, <1>i, <2>1, <2>2, <2>5, <3>1, MoveIsMeek, Zenon DEF Goto, Relying, Burying
  <2> QED BY <1>m, <2>3, <2>4, <2>5, Zenon
<1>5. ASSUME NEW w \in Workers, TakeJob(w) PROVE Meek
  <2>1. ASSUME NEW j \in JobIds, PickupCondemned(w, j) PROVE FALSE
    BY <2>1 DEF PickupCondemned, maxStalledCount, RareEvents, ProtocolInv, StallInv, ProtocolTypes
  <2>2. PICK j \in JobIds : Pickup(w, j)
    BY <1>5, <2>1, Zenon DEF TakeJob
  <2>3. Yields(Workers \ {w})
    BY <2>2, Zenon DEF Pickup, Yields, ProtocolTypes
  <2> QED BY <1>i, <2>2, <2>3, MoveIsMeek, Zenon
          DEF Pickup, Relying, Burying, Leaving, ProtocolTypes, postgres, ledger, faults
<1>6. ASSUME NEW w \in Workers, acquire(w) \/ Contended(w) \/ RateLimited(w) \/ DlqAdd(w) PROVE Meek
  <2>1. /\ UNCHANGED <<row, attempt_count, left>> /\ (UNCHANGED queue \/ (job[w] \in JobIds /\ moveToDelayed(w)))
        /\ Idle(w) \/ End(w, "delayed") \/ Goto(w, "reread")
    BY <1>6, <1>i, Zenon DEF acquire, Contended, RateLimited, DlqAdd, At, RunLabels, postgres, ledger, faults
  <2>2. Yields(Workers)
    BY <2>1, QueueYields, Zenon
  <2> QED BY <1>m, <2>1, <2>2, Zenon
<1>7. ASSUME NEW w \in Workers, release(w) PROVE Meek
  <2>1. /\ UNCHANGED <<row, attempt_count, left, queue>>
        /\ Idle(w) \/ (pc[w] = "finally" /\ Goto(w, "settle"))
    BY <1>7, Zenon DEF release, At, postgres, ledger, faults
  <2>2. Yields(Workers)
    BY <2>1, QueueYields, Zenon
  <2> QED BY <1>m, <2>1, <2>2
<1>8. ASSUME NEW w \in Workers, WorkerCrash(w) \/ HandlerCrash(w) PROVE Meek
  <2>1. UNCHANGED <<row, attempt_count>> /\ left'["db"] = left["db"] /\ Idle(w)
    BY <1>8, <1>l, Zenon DEF WorkerCrash, HandlerCrash, Die, postgres, ledger
  <2>2. Yields(Workers)
    BY <1>8, QueueYields, Zenon
  <2> QED BY <1>m, <2>1, <2>2, Zenon
<1>9. ASSUME NEW w \in Workers, tryAcquire(w) \/ deliver(w) PROVE Meek
  <2>1. /\ UNCHANGED <<row, attempt_count, left, queue, job, fromStatus, attemptNumber>>
        /\ \/ pc[w] = "gate" /\ pc' = [pc EXCEPT ![w] = "token"]
           \/ pc[w] = "sending" /\ pc' = [pc EXCEPT ![w] = "record"]
        /\ \A v \in Workers \ {w} : result'[v] = result[v]
    BY <1>9 DEF tryAcquire, deliver, At, Goto, locals, postgres, ledger, faults, ProtocolTypes
  <2>2. Yields(Workers)
    BY <2>1, QueueYields, Zenon
  <2>3. pc'[w] \in {"token", "record"} /\ \A v \in Workers \ {w} : pc'[v] = pc[v]
    BY <2>1, Zenon DEF ProtocolTypes
  <2>4. \A v \in Workers : Failing(v)' => Failing(v)
    BY <2>1, <2>3, Zenon DEF Failing, Leaving, Owns, queue
  <2>5. \A v \in Workers : pc'[v] \in Relying =>
          <<pc[v], pc'[v]>> \in {<<"gate", "token">>, <<"sending", "record">>} \cup {<<l, l>> : l \in Relying}
    BY <2>1, <2>3, Zenon DEF ProtocolTypes
  <2>6. \A v \in Workers : pc'[v] \in Burying => pc[v] \in Burying
    BY <2>3 DEF Burying
  <2> QED BY <2>1, <2>2, <2>4, <2>5, <2>6, Zenon DEF Meek, Yields
<1>10. ASSUME NEW w \in Workers, Settle(w) PROVE Meek
  <2>1. pc[w] = "settle" /\ job[w] \in JobIds /\ UNCHANGED <<row, attempt_count, left>>
    BY <1>10, <1>i, Zenon DEF Settle, At, RunLabels, postgres, ledger, faults
  <2>2. CASE Idle(w) /\ (UNCHANGED queue \/ Leave(job[w], "completed", 0))
    <3>1. Yields(Workers)
      BY <2>1, <2>2, QueueYields, Zenon
    <3> QED BY <1>m, <2>1, <2>2, <3>1, Zenon
  <2>3. CASE Owns(w) /\ result[w] = "throw" /\ Fail(w, job[w], FALSE)
    <3>1. PICK state \in {"queued", "failed"} : FailsTo(w, job[w], state)
      BY <2>1, <2>3, FailEffect, Zenon
    <3>2. \A v \in Workers \ {w} : fromStatus'[v] = fromStatus[v] /\ attemptNumber'[v] = attemptNumber[v]
      BY <2>3 DEF Fail, Idle, TypeOK, RunTyped
    <3>3. \A v \in Workers \ {w} : /\ job'[v] = job[v] /\ result'[v] = result[v] /\ pc'[v] = pc[v]
                                   /\ Owns(v)' => jobOwner[job[v]] = v /\ jobState[job[v]] = "active"
      BY <2>1, <3>1 DEF FailsTo, Idle, Owns, ProtocolTypes
    <3>4. pc'[w] \in {"idle", "dlqRead"} /\ Failing(w)
      BY <2>1, <2>3, <3>1, Zenon DEF FailsTo, Idle, ProtocolTypes, Failing, Leaving
    <3> QED BY <1>10, <2>1, <3>2, <3>3, <3>4 DEF Meek, Failing, Leaving, Owns, Relying, Burying
  <2> QED BY <1>10, <2>2, <2>3, Zenon DEF Settle
<1> QED BY <1>1, <1>2, <1>3, <1>4, <1>5, <1>6, <1>7, <1>8, <1>9, <1>10, Zenon DEF AsideStep

-----------------------------------------------------------------------------
(* The audit trail *)

SnapshotInv == SnapshotCurrent /\ AuditChain

\* With a single writer every write starts from the status it found.
LEMMA SnapshotStep ==
  ASSUME TypeOK, ProtocolInv, SnapshotInv, [Next]_vars
  PROVE  SnapshotInv'
<1>t. ProtocolTypes /\ OneWriter
  BY Typed, ProtocolOneWriter, Zenon
<1>n. ~RedisWipe /\ \A w \in Workers : ~Freeze(w) /\ ~Thaw(w)
  BY DEF RedisWipe, Freeze, Thaw, Spend, ProtocolInv, Calm
<1>m. Meek => SnapshotInv'
  BY Zenon DEF SnapshotInv, SnapshotCurrent, AuditChain, Meek, Relying, row
\* The one writer stops relying on what it read, and so does everybody.
<1>w. ASSUME NEW w \in Workers, pc[w] \in Writers, chained',
             \A v \in Workers \ {w} : pc'[v] = pc[v], pc'[w] \in {"idle", "finally", "dlqAdd"}
      PROVE  SnapshotInv'
  BY <1>t, <1>w DEF OneWriter, Writers, Working, Burying, SnapshotInv, SnapshotCurrent, AuditChain
<1>p. ASSUME NEW w \in Workers, NEW l, pc' = [pc EXCEPT ![w] = l]
      PROVE  pc'[w] = l /\ \A v \in Workers \ {w} : pc'[v] = pc[v]
  BY <1>p, Zenon DEF TypeOK, RunTyped
<1>1. CASE IngestEvent \/ \E j \in RetryJobs : RetryFromDlq(j)
  <2>1. status \in {"none", "DLQ"} /\ chained' /\ UNCHANGED pc
    BY <1>1, <1>t, Zenon DEF IngestEvent, RetryFromDlq, transition, OneWriter, SnapshotInv, AuditChain, run
  <2> QED BY <1>t, <2>1 DEF OneWriter, Writers, Working, Burying, SnapshotInv, SnapshotCurrent, AuditChain
<1>2. ASSUME NEW w \in Workers, getForDelivery(w) \/ DlqRead(w) PROVE SnapshotInv'
  <2>1. /\ UNCHANGED <<row, attempt_count>> /\ pc[w] \in Writers /\ chained
        /\ \A v \in Workers \ {w} : pc'[v] = pc[v]
        /\ \/ pc'[w] \in {"idle", "finally"}
           \/ pc'[w] = "gate" /\ fromStatus'[w] = status /\ attemptNumber'[w] = attempt_count + 1
           \/ pc'[w] = "dlqWrite" /\ fromStatus'[w] = status
    BY <1>2, Zenon DEF getForDelivery, DlqRead, NextNumber, At, End, Idle, postgres, ledger, TypeOK, RunTyped, Writers,
                Working, Burying, SnapshotInv, AuditChain
  <2> QED BY <1>t, <1>w, <2>1, Zenon DEF OneWriter, Writers, Working, Burying, SnapshotInv, SnapshotCurrent,
                                         AuditChain, row
<1>3. ASSUME NEW w \in Workers, StartDelivering(w) PROVE SnapshotInv'
  <2>1. /\ pc[w] = "token" /\ pc'[w] = "sending" /\ status' = "DELIVERING" /\ chained' /\ attemptNumber' = attemptNumber
        /\ UNCHANGED attempt_count /\ \A v \in Workers \ {w} : pc'[v] = pc[v]
    BY <1>3, Zenon DEF StartDelivering, transition, At, Goto, locals, ledger, TypeOK, RunTyped, SnapshotInv,
                       SnapshotCurrent,
                AuditChain
  <2> QED BY <1>t, <2>1 DEF OneWriter, Writers, Working, Burying, SnapshotInv, SnapshotCurrent, AuditChain
<1>4. ASSUME NEW w \in Workers, CircuitOpen(w) \/ RecordOutcome(w) \/ QueryFails(w) \/ CommitReplyLost(w)
      PROVE  SnapshotInv'
  <2>1. pc[w] \in {"reread", "gate", "token", "record"} /\ pc' = [pc EXCEPT ![w] = "finally"]
    BY <1>4, Zenon DEF CircuitOpen, RecordOutcome, QueryFails, CommitReplyLost, At, End
  <2>2. chained'
    BY <1>4, Zenon DEF CircuitOpen, RecordOutcome, QueryFails, CommitReplyLost, recordAttempt, transition, At, postgres,
                row, SnapshotInv, SnapshotCurrent, AuditChain
  <2> QED BY <1>p, <1>w, <2>1, <2>2, Zenon DEF Writers, Working
<1>5. ASSUME NEW w \in Workers, DlqWrite(w) \/ HandlerQueryFails(w) PROVE SnapshotInv'
  <2>1. pc[w] \in {"dlqRead", "dlqWrite"} /\ \E l \in {"idle", "dlqAdd"} : pc' = [pc EXCEPT ![w] = l]
    BY <1>5, Zenon DEF DlqWrite, HandlerQueryFails, At, Goto, Idle
  <2>2. chained'
    BY <1>5, Zenon DEF DlqWrite, HandlerQueryFails, transition, At, row, SnapshotInv, SnapshotCurrent, AuditChain
  <2> QED BY <1>p, <1>w, <2>1, <2>2, Zenon DEF Writers, Burying
<1> QED
  BY <1>t, <1>n, <1>m, <1>1, <1>2, <1>3, <1>4, <1>5, MeekSteps
     DEF Next, ApiStep, RunStep, HandlerStep, RareEvent, AsideStep

\* The status and the attempt number a run works with are those of the row, up
\* to the commit that uses them; and every row of delivery_transitions starts
\* where the last one ended.
LEMMA SnapshotAlways == OneStall /\ Spec => [](TypeOK /\ ProtocolInv /\ SnapshotInv)
<1>1. Init => SnapshotInv
  BY DEF Init, SnapshotInv, SnapshotCurrent, AuditChain
<1>2. TypeOK /\ ProtocolInv /\ SnapshotInv /\ [Next]_vars => SnapshotInv'
  BY SnapshotStep
<1> QED BY <1>1, <1>2, ProtocolAlways, PTL DEF Spec

\* Nobody moves the row between a read and the write that relies on it,
\* whatever transactions fail or lose their reply.
THEOREM SnapshotCorrect == OneStall /\ Spec => []SnapshotCurrent
<1>1. SnapshotInv => SnapshotCurrent
  BY DEF SnapshotInv
<1> QED BY <1>1, SnapshotAlways, PTL

\* delivery_transitions reads as one path.
THEOREM AuditCorrect == OneStall /\ Spec => []AuditChain
<1>1. SnapshotInv => AuditChain
  BY DEF SnapshotInv
<1> QED BY <1>1, SnapshotAlways, PTL
=============================================================================
