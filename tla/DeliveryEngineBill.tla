------------------------- MODULE DeliveryEngineBill -------------------------
(***************************************************************************)
(* The bound on recorded attempts, by bookkeeping: every attempt is        *)
(* charged to a job that failed for good, to a failure BullMQ counted or   *)
(* is about to count on the live job, or to a run that stalled.            *)
(***************************************************************************)
EXTENDS DeliveryEngineInvariants, Integers, FiniteSetTheorems

-----------------------------------------------------------------------------
(* The bill of attempts *)

\* What the failed jobs and the counted stalls have paid for.
Paid == MaxAttempts * Cardinality(Failed)
Room == Paid + Stalls

Open == status # "DELIVERED"

\* BullMQ has yet to file the job of w, or will never hear of its run.
Reporting(w) == pc[w] \in Leaving /\ Owns(w)
Stray(w)     == pc[w] \in Working /\ ~Owns(w)

\* A job that fails pays for its attempts, a stall for one.
RoomStep ==
  /\ Room \in Int
  /\ Failed' = Failed /\ left'["worker"] = left["worker"] => Room' = Room
  /\ Failed' = Failed /\ left'["worker"] = left["worker"] - 1 => Room' = Room + 1
  /\ \A j \in JobIds \ Failed :
       Failed' = Failed \cup {j} /\ left'["worker"] = left["worker"] => Room' = Room + MaxAttempts

\* BullMQ's count of a job's failures.
BurntInv ==
  \A j \in JobIds :
    /\ Live(j) => attemptsMade[j] < MaxAttempts
    /\ jobState[j] = "absent" => attemptsMade[j] = 0

\* A run goes on, and does not complete its job, only while the delivery is
\* open.
CareInv ==
  \A w \in Workers :
    /\ Reporting(w) /\ result[w] = "return" => ~Open
    /\ pc[w] \in {"gate", "token"} => fromStatus[w] # "DELIVERED"

\* An open delivery has recorded no more attempts than the failed jobs, the
\* stalls and the live job's failures account for, and one that BullMQ is about
\* to hear of; a stray run still has its stall to spend.
BillInv ==
  /\ BurntInv /\ CareInv
  /\ \A j \in JobIds : Live(j) /\ Open =>
       \/ attempt_count <= Room + attemptsMade[j]
       \/ /\ attempt_count <= Room + attemptsMade[j] + 1
          /\ \E w \in Workers : Reporting(w) /\ job[w] = j
  /\ \A w \in Workers : Stray(w) /\ Open => attempt_count + 1 <= Room + attemptsMade[job[w]]
  /\ Open /\ (\A j \in JobIds : ~Live(j)) => attempt_count <= Room
  /\ \A w \in Workers : pc[w] \in Burying => attempt_count <= Room
  /\ ~Open => attempt_count <= Room + MaxAttempts

-----------------------------------------------------------------------------
\* No slot but those outside V gains or loses a job.
Keeps(V) ==
  \A j \in JobIds, v \in V :
    jobState'[j] = "active" /\ jobOwner'[j] = v <=> jobState[j] = "active" /\ jobOwner[j] = v

\* No job fails and none is counted; a job comes to life only alone, and is
\* completed only for a delivered delivery.
Gentle ==
  \A j \in JobIds :
    /\ jobState'[j] = "failed" <=> jobState[j] = "failed"
    /\ Live(j)' => \/ Live(j) /\ attemptsMade'[j] = attemptsMade[j]
                   \/ attemptsMade'[j] = 0 /\ \A i \in JobIds : ~Live(i)
    /\ jobState'[j] = "absent" => attemptsMade'[j] = 0
    /\ Live(j) => Live(j)' \/ (jobState'[j] = "completed" /\ ~Open)

\* What slot v may do meanwhile.
TameSlot(v) ==
  /\ Reporting(v) => (Reporting(v)' /\ job'[v] = job[v]) \/ jobState'[job[v]] = "completed"
  /\ Stray(v)' => Stray(v) /\ job'[v] = job[v]
  /\ pc'[v] \in Burying => pc[v] \in Burying
  /\ Reporting(v)' /\ result'[v] = "return" => ~Open'
  /\ pc'[v] \in {"gate", "token"} => fromStatus'[v] # "DELIVERED"

\* A step that costs nothing.
Tame ==
  /\ Gentle /\ UNCHANGED attempt_count /\ (Open' <=> Open) /\ left'["worker"] = left["worker"]
  /\ \A v \in Workers : TameSlot(v)

\* The types the bill is about.
BillTypes ==
  ProtocolTypes /\ attempt_count \in Nat /\ fromStatus \in [Workers -> Statuses \cup {"none"}]

\* They are part of the type invariant.
LEMMA BillTyped == TypeOK => BillTypes
BY Typed DEF TypeOK, LedgerTyped, RunTyped, BillTypes

\* A step that costs nothing keeps the bill.
LEMMA TameKeeps ==
  ASSUME BillTypes, RoomStep, ProtocolInv, BillInv, Tame
  PROVE  BillInv'
<1>1. Failed' = Failed
  BY DEF Failed, Tame, Gentle
<1>2. Room' = Room /\ Room \in Int
  BY <1>1 DEF Tame, RoomStep
<1>3. attempt_count \in Nat /\ MaxAttempts \in Nat /\ attemptsMade \in [JobIds -> Nat]
  BY ConstantsAssumption DEF BillTypes, ProtocolTypes
<1>j. \A v \in Workers : pc[v] \in RunLabels => job[v] \in JobIds
  BY DEF ProtocolInv, OwnerInv
<1> HIDE DEF Room
<1>4. BurntInv'
  BY <1>3, ConstantsAssumption DEF BillInv, BurntInv, Tame, Gentle
<1>5. CareInv'
  BY DEF CareInv, Tame, TameSlot
<1>6. ASSUME NEW j \in JobIds, Live(j)', Open'
      PROVE  \/ attempt_count' <= Room' + attemptsMade'[j]
             \/ /\ attempt_count' <= Room' + attemptsMade'[j] + 1
                /\ \E w \in Workers : Reporting(w)' /\ job'[w] = j
  <2>1. CASE attemptsMade'[j] = 0 /\ \A i \in JobIds : ~Live(i)
    BY <1>2, <1>3, <1>6, <2>1 DEF BillInv, Tame
  <2>2. CASE Live(j) /\ attemptsMade'[j] = attemptsMade[j]
    <3>1. jobState'[j] # "completed"
      BY <1>6 DEF Live
    <3>2. \A w \in Workers : Reporting(w) /\ job[w] = j => Reporting(w)' /\ job'[w] = j
      BY <3>1 DEF Tame, TameSlot
    <3> QED BY <1>2, <1>3, <1>6, <2>2, <3>2, Zenon DEF BillInv, Tame
  <2> QED BY <1>6, <2>1, <2>2, Zenon DEF Tame, Gentle
<1>7. ASSUME NEW w \in Workers, Stray(w)', Open' PROVE attempt_count' + 1 <= Room' + attemptsMade'[job'[w]]
  <2>1. Stray(w) /\ job'[w] = job[w]
    BY <1>7 DEF Tame, TameSlot
  <2>2. job[w] \in JobIds /\ Live(job[w]) /\ lock = w
    BY <1>j, <2>1, Zenon DEF Stray, Working, RunLabels, ProtocolInv, HolderInv, Holding
  <2>3. attemptsMade'[job[w]] = attemptsMade[job[w]]
    BY <1>7, <2>2, Zenon DEF Tame, Gentle, Live
  <2> QED BY <1>2, <1>7, <2>1, <2>3, Zenon DEF BillInv, Tame
<1>8. Open' /\ (\A j \in JobIds : ~Live(j)') => attempt_count' <= Room'
  BY <1>2 DEF BillInv, Tame, Gentle
<1>9. \A w \in Workers : pc'[w] \in Burying => attempt_count' <= Room'
  BY <1>2 DEF BillInv, Tame, TameSlot
<1>10. ~Open' => attempt_count' <= Room' + MaxAttempts
  BY <1>1, <1>2, Zenon DEF BillInv, Tame
<1> QED BY <1>4, <1>5, <1>6, <1>7, <1>8, <1>9, <1>10, Zenon DEF BillInv

\* A slot whose locals and job stay as they are is tame.
LEMMA BystanderIsTame ==
  ASSUME ProtocolInv, CareInv, NEW v \in Workers, Keeps({v}), Open' <=> Open,
         pc'[v] = pc[v], job'[v] = job[v], result'[v] = result[v], fromStatus'[v] = fromStatus[v]
  PROVE  TameSlot(v)
<1>1. pc[v] \in RunLabels => job[v] \in JobIds
  BY DEF ProtocolInv, OwnerInv
<1>2. pc[v] \in RunLabels => (Owns(v)' <=> Owns(v))
  BY <1>1 DEF Owns, Keeps
<1> QED BY <1>2, Zenon DEF TameSlot, Reporting, Stray, CareInv, Leaving, Working, RunLabels

\* A queue that is left alone, or in which a job is added, forgotten, stalled,
\* taken, put back, or completed after a success.
LEMMA QueueGentle ==
  ASSUME ProtocolTypes, ProtocolInv, OneLiveJob', BurntInv,
         \/ UNCHANGED queue
         \/ \E j \in JobIds : add(j) \/ RemoveOnComplete(j) \/ StalledCheck(j)
         \/ \E j \in JobIds : ~Open /\ jobState[j] = "active" /\ Leave(j, "completed", 0)
         \/ \E w \in Workers : job[w] \in JobIds /\ moveToDelayed(w)
         \/ \E w \in Workers, j \in JobIds : Pickup(w, j)
         \/ \E w \in Workers : HandlerCrash(w)
  PROVE  Gentle
<1>a. \A j \in JobIds : attemptsMade[j] \in Nat
  BY DEF ProtocolTypes
<1> USE DEF ProtocolTypes, Gentle, BurntInv, Live
<1>1. CASE UNCHANGED queue
  BY <1>1, Zenon DEF queue
<1>2. ASSUME NEW j \in JobIds, add(j) PROVE Gentle
  <2>1. jobState' = [jobState EXCEPT ![j] = IF @ = "absent" THEN "queued" ELSE @] /\ UNCHANGED attemptsMade
    BY <1>2, Zenon DEF add
  <2>2. CASE jobState[j] = "absent"
    <3>1. \A i \in JobIds : ~Live(i)
      BY <2>1, <2>2, Zenon DEF OneLiveJob
    <3> QED BY <2>1, <2>2, <3>1, Zenon
  <2>3. CASE jobState[j] # "absent"
    BY <2>1, <2>3, Zenon
  <2> QED BY <2>2, <2>3, Zenon
<1>3. ASSUME NEW j \in JobIds, RemoveOnComplete(j) PROVE Gentle
  BY <1>3, Zenon DEF RemoveOnComplete, Forget
<1>4. ASSUME NEW j \in JobIds, StalledCheck(j) PROVE Gentle
  BY <1>4, Zenon DEF StalledCheck
<1>5. ASSUME NEW j \in JobIds, jobState[j] = "active", Leave(j, "queued", 0) PROVE Gentle
  BY <1>5, <1>a DEF Leave
<1>6. ASSUME NEW j \in JobIds, ~Open, jobState[j] = "active", Leave(j, "completed", 0) PROVE Gentle
  BY <1>6, <1>a DEF Leave
<1>7. ASSUME NEW w \in Workers, job[w] \in JobIds, moveToDelayed(w) PROVE Gentle
  BY <1>1, <1>5, <1>7, Zenon DEF moveToDelayed, Owns
<1>8. ASSUME NEW w \in Workers, NEW j \in JobIds, Pickup(w, j) PROVE Gentle
  BY <1>8, Zenon DEF Pickup
<1>9. ASSUME NEW w \in Workers, HandlerCrash(w) PROVE Gentle
  BY <1>9 DEF HandlerCrash, Die
<1> QED
  <2> HIDE DEF Gentle
  <2> QED BY <1>1, <1>2, <1>3, <1>4, <1>6, <1>7, <1>8, <1>9, Zenon

\* No slot gains or loses a job by them, but for the one that moves.
LEMMA QueueKeeps ==
  ASSUME ProtocolTypes, ProtocolInv
  PROVE  /\ (\/ UNCHANGED queue \/ \E j \in JobIds : add(j) \/ RemoveOnComplete(j) \/ StalledCheck(j)) => Keeps(Workers)
         /\ \A w \in Workers :
              \/ UNCHANGED queue \/ \E j \in JobIds : Pickup(w, j)
              \/ job[w] \in JobIds /\ moveToDelayed(w)
              \/ job[w] \in JobIds /\ Owns(w) /\ \E state \in JobStates, n \in {0, 1} : Leave(job[w], state, n)
              \/ HandlerCrash(w) \/ WorkerCrash(w) \/ RenewalLate(w)
              => Keeps(Workers \ {w})
<1> USE DEF ProtocolTypes, Keeps
<1>1. UNCHANGED queue => Keeps(Workers) /\ \A w \in Workers : Keeps(Workers \ {w})
  BY DEF queue
<1>2. ASSUME NEW j \in JobIds, add(j) PROVE Keeps(Workers)
  BY <1>2, Zenon DEF add
<1>3. ASSUME NEW j \in JobIds, RemoveOnComplete(j) PROVE Keeps(Workers)
  BY <1>3, Zenon DEF RemoveOnComplete, Forget
<1>4. ASSUME NEW j \in JobIds, StalledCheck(j) PROVE Keeps(Workers)
  BY <1>4, Zenon DEF StalledCheck, ProtocolInv, Calm
<1>5. ASSUME NEW w \in Workers, NEW j \in JobIds, Pickup(w, j) PROVE Keeps(Workers \ {w})
  BY <1>5, Zenon DEF Pickup
<1>6. ASSUME NEW w \in Workers, NEW state, NEW n, job[w] \in JobIds, Owns(w), Leave(job[w], state, n)
      PROVE  Keeps(Workers \ {w})
  BY <1>6 DEF Leave, Owns
<1>7. ASSUME NEW w \in Workers, job[w] \in JobIds, moveToDelayed(w) PROVE Keeps(Workers \ {w})
  BY <1>1, <1>6, <1>7, Zenon DEF moveToDelayed
<1>8. ASSUME NEW w \in Workers, HandlerCrash(w) \/ WorkerCrash(w) PROVE Keeps(Workers \ {w})
  BY <1>8 DEF HandlerCrash, WorkerCrash, Die
<1>9. ASSUME NEW w \in Workers, RenewalLate(w) PROVE Keeps(Workers \ {w})
  BY <1>9 DEF RenewalLate, Owns
<1> QED
  <2> HIDE DEF Keeps
  <2> QED BY <1>1, <1>2, <1>3, <1>4, <1>5, <1>6, <1>7, <1>8, <1>9, Zenon

\* If one slot moves, a step is tame when it is tame about that slot.
LEMMA MoverIsTame ==
  ASSUME ProtocolInv, CareInv, Gentle, NEW w \in Workers, Keeps(Workers \ {w}), TameSlot(w),
         UNCHANGED attempt_count, Open' <=> Open, left'["worker"] = left["worker"],
         \A v \in Workers \ {w} : /\ pc'[v] = pc[v] /\ job'[v] = job[v] /\ result'[v] = result[v]
                                  /\ fromStatus'[v] = fromStatus[v]
  PROVE  Tame
<1>1. ASSUME NEW v \in Workers, v # w PROVE TameSlot(v)
  <2>1. Keeps({v})
    BY <1>1, Zenon DEF Keeps
  <2> QED BY <1>1, <2>1, BystanderIsTame, Zenon
<1> QED BY <1>1, Zenon DEF Tame

\* The steps of the API, of the reconciler and of time.
LEMMA BackgroundIsTame ==
  ASSUME ProtocolTypes, ProtocolInv, OneLiveJob', BurntInv, CareInv,
         \/ ApiStep \/ claimUnenqueued \/ Housekeeping \/ EnqueueLost \/ PatchEndpoint \/ UNCHANGED vars
         \/ \E j \in RetryJobs : RetryLost(j)
         \/ \E w \in Workers : Heartbeat(w)
  PROVE  Tame
<1>l. Spend("api") \/ Spend("patch") \/ Spend("retry") => left'["worker"] = left["worker"]
  BY DEF Spend, RareEvents, ProtocolTypes
<1>r. DeliveryJob \in JobIds /\ RetryJobs \subseteq JobIds
  BY Zenon DEF ProtocolTypes
<1>1. /\ UNCHANGED <<attempt_count, pc, job, result, fromStatus>> /\ left'["worker"] = left["worker"]
      /\ \/ UNCHANGED queue
         \/ \E j \in JobIds : add(j) \/ RemoveOnComplete(j) \/ StalledCheck(j)
  <2>1. CASE ApiStep
    BY <2>1, <1>r, Zenon DEF ApiStep, IngestEvent, EnqueueAdd, EnqueueMark, RetryFromDlq, RetryAdd, postgres, ledger,
                             run, locals, faults
  <2>2. CASE claimUnenqueued \/ UNCHANGED vars \/ \E w \in Workers : Heartbeat(w)
    BY <2>2, <1>r, Zenon DEF claimUnenqueued, vars, Heartbeat, postgres, ledger, run, locals, faults
  <2>3. CASE Housekeeping
    BY <2>3, Zenon DEF Housekeeping, OrphanExpires, LockExpires, StalledCheck, RemoveOnComplete, postgres, ledger,
                       run, locals, faults
  <2>4. CASE EnqueueLost \/ PatchEndpoint \/ \E j \in RetryJobs : RetryLost(j)
    BY <2>4, <1>l, Zenon DEF EnqueueLost, PatchEndpoint, RetryLost, postgres, ledger, run, locals
  <2> QED BY <2>1, <2>2, <2>3, <2>4, Zenon
<1>2. status' = status \/ (status \in {"none", "DLQ"} /\ status' = "PENDING")
  <2>1. ingest = "none" => status = "none"
    BY DEF ProtocolInv, RetryInv
  <2>2. CASE ApiStep
    BY <2>1, <2>2, Zenon DEF ApiStep, IngestEvent, EnqueueAdd, EnqueueMark, RetryFromDlq, RetryAdd, transition,
                             postgres, row
  <2>3. CASE ~ApiStep
    BY <2>3, Zenon DEF claimUnenqueued, Housekeeping, OrphanExpires, LockExpires, StalledCheck, RemoveOnComplete,
                       EnqueueLost, PatchEndpoint, RetryLost, Heartbeat, vars, postgres, row
  <2> QED BY <2>2, <2>3, Zenon
<1>3. Open' <=> Open
  BY <1>2 DEF Open
<1>4. Gentle /\ Keeps(Workers)
  BY <1>1, QueueGentle, QueueKeeps, Zenon
<1>5. ASSUME NEW v \in Workers PROVE TameSlot(v)
  <2>1. Keeps({v})
    BY <1>4 DEF Keeps
  <2> QED BY <1>1, <1>3, <2>1, BystanderIsTame, Zenon
<1> QED BY <1>1, <1>3, <1>4, <1>5, Zenon DEF Tame

\* A run leaves the try block by an exception and records nothing.
Throws(w) ==
  /\ pc[w] \in Working /\ End(w, "throw") /\ left'["worker"] = left["worker"] /\ UNCHANGED <<attempt_count, queue>>
  /\ status' = status \/ (pc[w] = "token" /\ status' = "DELIVERING")

\* A delivery whose run is past the re-read is open.
LEMMA ReadIsOpen ==
  ASSUME SnapshotInv, CareInv, NEW w \in Workers, pc[w] \in {"gate", "token", "sending", "record"}
  PROVE  Open
BY Zenon DEF SnapshotInv, SnapshotCurrent, CareInv, Open

\* The slot goes idle, with nothing to report or its job completed.
LEMMA IdleIsTame ==
  ASSUME BillTypes, ProtocolInv, CareInv, NEW w \in Workers, Idle(w), Gentle, Keeps(Workers \ {w}),
         UNCHANGED <<attempt_count, status>>, left'["worker"] = left["worker"],
         Reporting(w) => jobState'[job[w]] = "completed"
  PROVE  Tame
<1>1. pc'[w] = "idle" /\ \A v \in Workers \ {w} : /\ pc'[v] = pc[v] /\ job'[v] = job[v] /\ result'[v] = result[v]
                                                /\ fromStatus'[v] = fromStatus[v]
  BY DEF Idle, BillTypes, ProtocolTypes
<1>2. TameSlot(w)
  BY <1>1, Zenon DEF TameSlot, Reporting, Stray, Leaving, Working, Burying
<1>3. Open' <=> Open
  BY Zenon DEF Open
<1> QED BY <1>1, <1>2, <1>3, MoverIsTame, Zenon

\* The run leaves the try block, and returns only if the delivery is closed.
LEMMA LeaveIsTame ==
  ASSUME BillTypes, ProtocolInv, CareInv, NEW w \in Workers, NEW how \in Endings, pc[w] \in Working, End(w, how),
         Gentle, Keeps(Workers \ {w}), UNCHANGED attempt_count, Open' <=> Open, left'["worker"] = left["worker"],
         how = "return" => ~Open
  PROVE  Tame
<1>1. /\ pc'[w] = "finally" /\ result'[w] = how
      /\ \A v \in Workers \ {w} : /\ pc'[v] = pc[v] /\ job'[v] = job[v] /\ result'[v] = result[v]
                                  /\ fromStatus'[v] = fromStatus[v]
  BY Zenon DEF End, BillTypes, ProtocolTypes
<1>2. TameSlot(w)
  BY <1>1, Zenon DEF TameSlot, Reporting, Stray, Leaving, Working, Burying
<1> QED BY <1>1, <1>2, MoverIsTame, Zenon

\* The slot goes on from one label to the next.
LEMMA GoIsTame ==
  ASSUME ProtocolTypes, ProtocolInv, OneLiveJob', BurntInv, CareInv, NEW w \in Workers, NEW l,
         pc' = [pc EXCEPT ![w] = l], UNCHANGED <<queue, attempt_count, job, left>>, Open' <=> Open,
         \A v \in Workers \ {w} : result'[v] = result[v] /\ fromStatus'[v] = fromStatus[v],
         \/ <<pc[w], l>> \in {<<"token", "sending">>, <<"sending", "record">>, <<"dlqRead", "dlqWrite">>}
         \/ <<pc[w], l>> = <<"acquire", "reread">>
         \/ <<pc[w], l>> \in {<<"reread", "gate">>, <<"gate", "token">>} /\ fromStatus'[w] # "DELIVERED"
         \/ <<pc[w], l>> = <<"finally", "settle">> /\ result'[w] = result[w]
  PROVE  Tame
<1>1. pc'[w] = l /\ \A v \in Workers \ {w} : pc'[v] = pc[v]
  BY Zenon DEF ProtocolTypes
<1>2. Owns(w)' <=> Owns(w)
  BY Zenon DEF Owns, queue
<1>3. pc[w] = "acquire" => Owns(w)
  BY DEF ProtocolInv, OwnerInv
<1>4. Gentle /\ Keeps(Workers \ {w})
  BY QueueGentle, QueueKeeps, Zenon
<1>5. TameSlot(w)
  BY <1>1, <1>2, <1>3, Zenon DEF TameSlot, Reporting, Stray, Leaving, Working, Burying, CareInv
<1> QED BY <1>1, <1>4, <1>5, MoverIsTame, Zenon

\* A run ends without a record.
LEMMA EndIsTame ==
  ASSUME BillTypes, ProtocolInv, OneLiveJob', SnapshotInv, BurntInv, CareInv, NEW w \in Workers,
         \/ Contended(w) \/ RateLimited(w) \/ Throws(w)
         \/ release(w) /\ result[w] = "delayed"
         \/ getForDelivery(w) /\ pc'[w] = "finally"
  PROVE  Tame
<1>t. ProtocolTypes /\ OneWriter
  BY ProtocolOneWriter, Zenon DEF BillTypes
<1>j. pc[w] \in RunLabels => job[w] \in JobIds
  BY DEF ProtocolInv, OwnerInv
<1>q. UNCHANGED queue \/ (job[w] \in JobIds /\ moveToDelayed(w)) => Gentle /\ Keeps(Workers \ {w})
  BY <1>t, QueueGentle, QueueKeeps, Zenon
<1>1. CASE Contended(w)
  <2>1. pc[w] = "acquire" /\ moveToDelayed(w) /\ Idle(w) /\ UNCHANGED <<attempt_count, status, left>>
    BY <1>1, Zenon DEF Contended, At, postgres, ledger, row, faults
  <2>2. job[w] \in JobIds /\ ~Reporting(w)
    BY <1>j, <2>1, Zenon DEF RunLabels, Reporting, Leaving
  <2> QED BY IdleIsTame, <1>q, <2>1, <2>2, Zenon
<1>2. CASE RateLimited(w)
  <2>1. pc[w] = "gate" /\ moveToDelayed(w) /\ End(w, "delayed") /\ UNCHANGED <<attempt_count, status, left>>
    BY <1>2, Zenon DEF RateLimited, At, postgres, ledger, row, faults
  <2>2. job[w] \in JobIds /\ pc[w] \in Working /\ (Open' <=> Open) /\ "delayed" \in Endings
    BY <1>j, <2>1, Zenon DEF RunLabels, Working, Open, Endings
  <2> QED BY LeaveIsTame, <1>q, <2>1, <2>2, Zenon
<1>3. CASE Throws(w)
  <2>1. Open' <=> Open
    BY <1>3, ReadIsOpen, Zenon DEF Throws, Open
  <2> QED BY <1>3, LeaveIsTame, <1>q, <2>1, Zenon DEF Throws, Endings
<1>4. CASE release(w) /\ result[w] = "delayed"
  <2>1. pc[w] = "finally" /\ Idle(w) /\ UNCHANGED <<attempt_count, status, left, queue>>
    BY <1>4, Zenon DEF release, At, postgres, ledger, row, faults
  <2>2. ~Reporting(w)
    BY <1>4, <2>1, Zenon DEF Reporting, ProtocolInv, OwnerInv
  <2> QED BY IdleIsTame, <1>q, <2>1, <2>2, Zenon
<1>5. CASE getForDelivery(w) /\ pc'[w] = "finally"
  <2>1. /\ pc[w] = "reread" /\ UNCHANGED <<attempt_count, status, left>>
        /\ \/ Terminal(status) /\ End(w, "return") /\ UNCHANGED queue
           \/ moveToDelayed(w) /\ End(w, "delayed")
    BY <1>5, <1>t, Zenon DEF getForDelivery, At, postgres, ledger, row, faults, ProtocolTypes
  <2>2. job[w] \in JobIds /\ pc[w] \in Working /\ (Open' <=> Open) /\ (Terminal(status) => ~Open)
    BY <1>j, <1>t, <2>1, Zenon DEF RunLabels, Working, Open, Terminal, OneWriter, Writers
  <2> QED BY LeaveIsTame, <1>q, <2>1, <2>2, Zenon DEF Endings
<1> QED BY <1>1, <1>2, <1>3, <1>4, <1>5, Zenon

\* BullMQ files a job whose run did not fail, or a listener stops.
LEMMA FileIsTame ==
  ASSUME BillTypes, ProtocolInv, OneLiveJob', BurntInv, CareInv, NEW w \in Workers,
         \/ DlqAdd(w) \/ HandlerCrash(w)
         \/ Settle(w) /\ ~Failing(w)
         \/ DlqRead(w) /\ pc'[w] = "idle"
         \/ HandlerQueryFails(w) /\ UNCHANGED row
  PROVE  Tame
<1>t. ProtocolTypes
  BY Zenon DEF BillTypes
<1>j. pc[w] \in RunLabels => job[w] \in JobIds
  BY Zenon DEF ProtocolInv, OwnerInv
<1>l. Spend("handler") \/ Spend("db") => left'["worker"] = left["worker"]
  BY <1>t DEF Spend, RareEvents, ProtocolTypes
<1>q. UNCHANGED queue \/ (job[w] \in JobIds /\ moveToDelayed(w)) => Gentle /\ Keeps(Workers \ {w})
  BY <1>t, QueueGentle, QueueKeeps, Zenon
<1>1. CASE DlqAdd(w) \/ (DlqRead(w) /\ pc'[w] = "idle") \/ (HandlerQueryFails(w) /\ UNCHANGED row)
  <2>1. /\ pc[w] \in HandlerLabels /\ Idle(w) /\ UNCHANGED <<attempt_count, status, queue>>
        /\ left'["worker"] = left["worker"]
    BY <1>1, <1>l, <1>t, Zenon DEF DlqAdd, DlqRead, HandlerQueryFails, At, postgres, ledger, row, faults,
                                   HandlerLabels, ProtocolTypes
  <2>2. ~Reporting(w)
    BY <2>1, Zenon DEF HandlerLabels, Reporting, Leaving
  <2> QED BY IdleIsTame, <1>q, <2>1, <2>2, Zenon
<1>2. CASE HandlerCrash(w)
  <2>1. pc[w] \in HandlerLabels /\ Idle(w) /\ UNCHANGED <<attempt_count, status>> /\ left'["worker"] = left["worker"]
    BY <1>2, <1>l, Zenon DEF HandlerCrash, Die, postgres, ledger, row
  <2>2. ~Reporting(w)
    BY <2>1 DEF HandlerLabels, Reporting, Leaving
  <2>3. Gentle /\ Keeps(Workers \ {w})
    BY <1>2, <1>t, QueueGentle, QueueKeeps, Zenon
  <2> QED BY IdleIsTame, <2>1, <2>2, <2>3, Zenon
<1>3. CASE Settle(w) /\ ~Failing(w)
  <2>1. pc[w] = "settle" /\ job[w] \in JobIds /\ UNCHANGED <<attempt_count, status, left>>
    BY <1>3, <1>j, Zenon DEF Settle, At, RunLabels, postgres, ledger, row, faults
  <2>2. CASE ~Owns(w) /\ UNCHANGED queue /\ Idle(w)
    <3>1. ~Reporting(w)
      BY <2>2, Zenon DEF Reporting
    <3> QED BY IdleIsTame, <1>q, <2>1, <2>2, <3>1, Zenon
  <2>3. CASE Owns(w) /\ result[w] = "return" /\ Leave(job[w], "completed", 0) /\ Idle(w)
    <3>1. ~Open /\ jobState[job[w]] = "active"
      BY <2>1, <2>3, Zenon DEF CareInv, Reporting, Leaving, Owns
    <3>2. Gentle /\ Keeps(Workers \ {w}) /\ jobState'[job[w]] = "completed"
      <4>1. Gentle
        BY <1>t, <2>1, <2>3, <3>1, QueueGentle, Zenon
      <4>2. Keeps(Workers \ {w})
        BY <1>t, <2>1, <2>3, QueueKeeps, Zenon DEF JobStates
      <4>3. jobState'[job[w]] = "completed"
        BY <1>t, <2>1, <2>3, Zenon DEF Leave, ProtocolTypes
      <4> QED BY <4>1, <4>2, <4>3, Zenon
    <3> QED BY IdleIsTame, <2>1, <2>3, <3>2, Zenon
  <2>4. ~(Owns(w) /\ result[w] = "throw")
    BY <1>3, <2>1, Zenon DEF Failing, Leaving
  <2> QED BY <1>3, <2>2, <2>3, <2>4, Zenon DEF Settle
<1> QED BY <1>1, <1>2, <1>3, Zenon

\* A slot goes on with its run, or with the listener.
LEMMA MoveIsTame ==
  ASSUME BillTypes, ProtocolInv, OneLiveJob', SnapshotInv, BurntInv, CareInv, NEW w \in Workers,
         \/ TakeJob(w) \/ acquire(w) \/ tryAcquire(w) \/ StartDelivering(w) \/ deliver(w)
         \/ release(w) /\ result[w] # "delayed"
         \/ getForDelivery(w) /\ pc'[w] # "finally"
         \/ DlqRead(w) /\ pc'[w] # "idle"
  PROVE  Tame
<1>t. ProtocolTypes
  BY Zenon DEF BillTypes
<1>j. pc[w] \in RunLabels => job[w] \in JobIds
  BY Zenon DEF ProtocolInv, OwnerInv
<1>1. CASE TakeJob(w)
  <2>1. ASSUME NEW j \in JobIds, PickupCondemned(w, j) PROVE FALSE
    BY <1>t, <2>1 DEF PickupCondemned, maxStalledCount, RareEvents, ProtocolInv, StallInv, ProtocolTypes
  <2>2. PICK j \in JobIds : Pickup(w, j)
    BY <1>1, <2>1, Zenon DEF TakeJob
  <2>3. /\ pc[w] = "idle" /\ pc'[w] = "acquire" /\ UNCHANGED <<attempt_count, status, left>>
        /\ \A v \in Workers \ {w} : /\ pc'[v] = pc[v] /\ job'[v] = job[v] /\ result'[v] = result[v]
                                    /\ fromStatus'[v] = fromStatus[v]
    BY <1>t, <2>2, Zenon DEF Pickup, At, postgres, ledger, row, faults, ProtocolTypes
  <2>4. Gentle /\ Keeps(Workers \ {w})
    BY <1>t, <2>2, QueueGentle, QueueKeeps, Zenon
  <2>5. TameSlot(w) /\ (Open' <=> Open)
    BY <2>3, Zenon DEF TameSlot, Reporting, Stray, Leaving, Working, Burying, Open
  <2> QED BY <2>3, <2>4, <2>5, MoverIsTame, Zenon
<1>2. CASE acquire(w) \/ tryAcquire(w)
  <2>1. /\ UNCHANGED <<queue, attempt_count, job, left, status, result, fromStatus>>
        /\ \/ pc[w] = "acquire" /\ pc' = [pc EXCEPT ![w] = "reread"]
           \/ pc[w] = "gate" /\ pc' = [pc EXCEPT ![w] = "token"]
    BY <1>2, Zenon DEF acquire, tryAcquire, At, Goto, locals, postgres, ledger, row, faults
  <2>2. pc[w] = "gate" => fromStatus[w] # "DELIVERED"
    BY DEF CareInv
  <2> QED BY <1>t, GoIsTame, <2>1, <2>2, Zenon DEF Open
<1>3. CASE StartDelivering(w)
  <2>1. /\ UNCHANGED <<queue, attempt_count, job, left, result, fromStatus>> /\ status' = "DELIVERING"
        /\ pc[w] = "token" /\ pc' = [pc EXCEPT ![w] = "sending"]
    BY <1>3, Zenon DEF StartDelivering, transition, At, Goto, locals, ledger, faults
  <2>2. Open' /\ Open
    BY <2>1, ReadIsOpen, Zenon DEF Open
  <2> QED BY <1>t, GoIsTame, <2>1, <2>2, Zenon
<1>4. CASE deliver(w)
  <2>1. /\ UNCHANGED <<queue, attempt_count, job, left, status, fromStatus>>
        /\ pc[w] = "sending" /\ pc' = [pc EXCEPT ![w] = "record"]
        /\ \A v \in Workers \ {w} : result'[v] = result[v]
    BY <1>4, <1>t, Zenon DEF deliver, At, postgres, ledger, row, faults, ProtocolTypes
  <2> QED BY <1>t, GoIsTame, <2>1, Zenon DEF Open
<1>5. CASE release(w) /\ result[w] # "delayed"
  <2>1. /\ UNCHANGED <<queue, attempt_count, job, left, status, result, fromStatus>>
        /\ pc[w] = "finally" /\ pc' = [pc EXCEPT ![w] = "settle"]
    BY <1>5, Zenon DEF release, At, Goto, locals, postgres, ledger, row, faults
  <2> QED BY <1>t, GoIsTame, <2>1, Zenon DEF Open
<1>6. CASE getForDelivery(w) /\ pc'[w] # "finally"
  <2>1. /\ UNCHANGED <<queue, attempt_count, job, left, status, result>> /\ ~Terminal(status)
        /\ pc[w] = "reread" /\ pc' = [pc EXCEPT ![w] = "gate"] /\ fromStatus' = [fromStatus EXCEPT ![w] = status]
    BY <1>6, <1>t, Zenon DEF getForDelivery, At, End, postgres, ledger, row, faults, ProtocolTypes
  <2>2. fromStatus'[w] # "DELIVERED" /\ \A v \in Workers \ {w} : fromStatus'[v] = fromStatus[v]
    BY <2>1 DEF Terminal, BillTypes
  <2> QED BY <1>t, GoIsTame, <2>1, <2>2, Zenon DEF Open
<1>7. CASE DlqRead(w) /\ pc'[w] # "idle"
  <2>1. /\ UNCHANGED <<queue, attempt_count, job, left, status, result>>
        /\ pc[w] = "dlqRead" /\ pc' = [pc EXCEPT ![w] = "dlqWrite"] /\ fromStatus' = [fromStatus EXCEPT ![w] = status]
    BY <1>7, <1>t, Zenon DEF DlqRead, At, Idle, postgres, ledger, row, faults, ProtocolTypes
  <2>2. \A v \in Workers \ {w} : fromStatus'[v] = fromStatus[v]
    BY <2>1, Zenon DEF BillTypes
  <2> QED BY <1>t, GoIsTame, <2>1, <2>2, Zenon DEF Open
<1> QED BY <1>1, <1>2, <1>3, <1>4, <1>5, <1>6, <1>7, Zenon

\* A run records an attempt, and has its failure counted or its stall to spend.
LEMMA RecordKeeps ==
  ASSUME BillTypes, RoomStep, ProtocolInv, SnapshotInv, BillInv, NEW w \in Workers, pc[w] \in {"gate", "record"},
         pc' = [pc EXCEPT ![w] = "finally"], UNCHANGED <<queue, job>>, left'["worker"] = left["worker"],
         attempt_count' = attempt_count + 1, result'[w] = "return" => ~Open'
  PROVE  BillInv'
<1> DEFINE j == job[w]
<1>1. /\ lock = w /\ j \in JobIds /\ Live(j) /\ \A i \in JobIds : Live(i) => i = j
      /\ \A v \in Workers : v # w => pc[v] \notin Holding
  BY DEF ProtocolInv, HolderInv, OwnerInv, OneLiveJob, Live, Holding, Working, RunLabels
<1>2. pc'[w] = "finally" /\ \A v \in Workers : v # w => pc'[v] = pc[v]
  BY Zenon DEF BillTypes, ProtocolTypes
<1>3. \A v \in Workers : ~Reporting(v) /\ (Reporting(v)' => v = w)
  BY <1>1, <1>2, Zenon DEF Reporting, Leaving, Holding, Owns, queue, ProtocolInv, HolderInv
<1>4. \A v \in Workers : ~Stray(v)' /\ pc'[v] \notin Burying /\ pc'[v] \notin {"gate", "token"}
  <2>1. \A v \in Workers : pc[v] \notin Burying
    BY <1>1, Zenon DEF ProtocolInv, GraveInv, Over
  <2> QED BY <1>1, <1>2, <2>1, Zenon DEF Stray, Working, Holding, Burying
<1>5. /\ attempt_count \in Nat /\ MaxAttempts \in Nat /\ attemptsMade[j] \in Nat /\ Room \in Int
      /\ attemptsMade[j] < MaxAttempts /\ Open
  BY <1>1, ReadIsOpen, ConstantsAssumption, Zenon DEF BillTypes, ProtocolTypes, RoomStep, BillInv, BurntInv
<1>6. Failed' = Failed /\ Room' = Room /\ j \notin Failed
  <2>1. Failed' = Failed /\ j \notin Failed
    BY <1>1, Zenon DEF Failed, queue, Live
  <2> QED BY <2>1, Zenon DEF RoomStep
<1> HIDE DEF Room, Failed
<1>7. \/ attempt_count + 1 <= Room + attemptsMade[j] + 1 /\ Owns(w)
      \/ attempt_count + 1 <= Room + attemptsMade[j]
  <2>1. CASE Owns(w)
    BY <1>1, <1>3, <1>5, <2>1 DEF BillInv
  <2>2. CASE ~Owns(w)
    BY <1>5, <2>2, Zenon DEF BillInv, Stray, Working
  <2> QED BY <2>1, <2>2, Zenon
<1>8. Owns(w) => Reporting(w)' /\ job'[w] = j
  BY <1>2, Zenon DEF Reporting, Leaving, Owns, queue
<1>9. BurntInv' /\ CareInv' /\ \A i \in JobIds : Live(i)' <=> Live(i)
  <2>1. BurntInv' /\ \A i \in JobIds : Live(i)' <=> Live(i)
    BY Zenon DEF BillInv, BurntInv, queue, Live
  <2>2. CareInv'
    BY <1>3, <1>4, Zenon DEF CareInv
  <2> QED BY <2>1, <2>2, Zenon
<1>10. attempt_count' <= Room' + MaxAttempts
  BY <1>1, <1>5, <1>6, <1>7
<1>11. attemptsMade' = attemptsMade
  BY Zenon DEF queue
<1> HIDE DEF j
<1>12. ASSUME NEW i \in JobIds, Live(i)'
      PROVE  \/ attempt_count' <= Room' + attemptsMade'[i]
             \/ /\ attempt_count' <= Room' + attemptsMade'[i] + 1
                /\ \E v \in Workers : Reporting(v)' /\ job'[v] = i
  <2>1. i = j
    BY <1>1, <1>9, <1>12, Zenon
  <2> QED BY <1>6, <1>7, <1>8, <1>11, <2>1, Zenon
<1> QED BY <1>1, <1>4, <1>9, <1>10, <1>12, Zenon DEF BillInv

\* The dead letter is written when everything recorded has been paid for.
LEMMA BuryKeeps ==
  ASSUME BillTypes, RoomStep, ProtocolInv, BillInv, NEW w \in Workers, pc[w] = "dlqWrite", NEW l \in {"dlqAdd", "idle"},
         pc' = [pc EXCEPT ![w] = l], UNCHANGED <<queue, attempt_count>>, left'["worker"] = left["worker"],
         status' = "DLQ",
         \A v \in Workers \ {w} : job'[v] = job[v]
  PROVE  BillInv'
<1>1. Over /\ attempt_count <= Room
  BY Zenon DEF ProtocolInv, GraveInv, BillInv, Burying
<1>2. \A j \in JobIds : ~Live(j) /\ ~Live(j)' /\ jobState'[j] # "active"
  BY <1>1, Zenon DEF Over, Live, queue
<1>3. pc'[w] = l /\ \A v \in Workers : v # w => pc'[v] = pc[v]
  BY Zenon DEF BillTypes, ProtocolTypes
<1>4. \A v \in Workers : pc[v] \in RunLabels => job[v] \in JobIds
  BY Zenon DEF ProtocolInv, OwnerInv
<1>5. \A v \in Workers : pc[v] \notin Holding
  BY <1>2, <1>4, Zenon DEF ProtocolInv, HolderInv, Holding, Working, RunLabels
<1>6. \A v \in Workers : ~Stray(v)' /\ ~Reporting(v)' /\ pc'[v] \notin {"gate", "token"}
  BY <1>2, <1>3, <1>4, <1>5, Zenon DEF Stray, Reporting, Leaving, Holding, Working, Owns, RunLabels
<1>7. Room' = Room
  BY Zenon DEF RoomStep, Failed, queue
<1>8. BurntInv' /\ CareInv' /\ Open'
  BY <1>2, <1>6, Zenon DEF BillInv, BurntInv, CareInv, Open, queue
<1> HIDE DEF Room
<1> QED BY <1>1, <1>2, <1>6, <1>7, <1>8, Zenon DEF BillInv

\* BullMQ counts a failure; a job that fails for good pays for all of its
\* attempts.
LEMMA FailKeeps ==
  ASSUME BillTypes, RoomStep, ProtocolInv, BillInv, NEW w \in Workers, Failing(w), Settle(w)
  PROVE  BillInv'
<1> DEFINE j == job[w]
<1>1. /\ pc[w] = "settle" /\ Owns(w) /\ Fail(w, j, FALSE) /\ UNCHANGED <<attempt_count, status, left>>
  BY Zenon DEF Settle, At, Failing, postgres, ledger, row, faults
<1>2. j \in JobIds /\ jobState[j] = "active" /\ lock \notin Workers
  BY <1>1, Zenon DEF ProtocolInv, OwnerInv, HolderInv, RunLabels, Owns
<1>3. Live(j) /\ \A i \in JobIds : Live(i) => i = j
  BY <1>2, Zenon DEF Live, ProtocolInv, OneLiveJob
<1>4. \A v \in Workers : pc[v] \notin Holding /\ pc[v] \notin Burying
  BY <1>2, <1>3, Zenon DEF ProtocolInv, HolderInv, GraveInv, Over
<1>5. /\ attempt_count \in Nat /\ MaxAttempts \in Nat /\ attemptsMade \in [JobIds -> Nat] /\ Room \in Int
      /\ attemptsMade[j] < MaxAttempts
  BY <1>2, <1>3, ConstantsAssumption, Zenon DEF BillTypes, ProtocolTypes, RoomStep, BillInv, BurntInv
<1>6. /\ \A v \in Workers : v # w => pc'[v] = pc[v] /\ job'[v] = job[v]
      /\ attemptsMade' = [attemptsMade EXCEPT ![j] = @ + 1] /\ jobOwner' = [jobOwner EXCEPT ![j] = "nobody"]
      /\ \/ attemptsMade[j] + 1 < MaxAttempts /\ jobState' = [jobState EXCEPT ![j] = "queued"] /\ pc'[w] = "idle"
         \/ attemptsMade[j] + 1 = MaxAttempts /\ jobState' = [jobState EXCEPT ![j] = "failed"] /\ pc'[w] = "dlqRead"
  <2>1. attemptsMade[j] + 1 < MaxAttempts \/ attemptsMade[j] + 1 = MaxAttempts
    BY <1>2, <1>5
  <2>2. CASE attemptsMade[j] + 1 < MaxAttempts
    <3>1. ~Exhausted(attemptsMade[j] + 1)
      BY <1>2, <1>5, <2>2 DEF Exhausted
    <3>2. Leave(j, "queued", 1) /\ Idle(w)
      BY <1>1, <2>2, <3>1, Zenon DEF Fail
    <3> QED BY <2>2, <3>2, Zenon DEF Leave, Idle, BillTypes, ProtocolTypes
  <2>3. CASE attemptsMade[j] + 1 = MaxAttempts
    <3>1. Exhausted(attemptsMade[j] + 1) /\ ~(attemptsMade[j] + 1 < MaxAttempts)
      BY <1>2, <1>5, <2>3 DEF Exhausted
    <3>2. Leave(j, "failed", 1) /\ pc' = [pc EXCEPT ![w] = "dlqRead"] /\ job' = [job EXCEPT ![w] = j]
      BY <1>1, <3>1, Zenon DEF Fail
    <3> QED BY <2>3, <3>2, Zenon DEF Leave, BillTypes, ProtocolTypes
  <2> QED BY <2>1, <2>2, <2>3, Zenon
<1>7. \A v \in Workers : ~Reporting(v)' /\ ~Stray(v)' /\ pc'[v] \notin {"gate", "token"}
  <2>1. \A v \in Workers : pc[v] \in RunLabels => job[v] \in JobIds
    BY Zenon DEF ProtocolInv, OwnerInv
  <2>2. \A i \in JobIds : jobState'[i] # "active"
    BY <1>2, <1>3, <1>6 DEF Live, BillTypes, ProtocolTypes
  <2>3. ~Reporting(w)' /\ ~Stray(w)' /\ pc'[w] \notin {"gate", "token"}
    BY <1>6, Zenon DEF Reporting, Stray, Leaving, Working
  <2>4. ASSUME NEW v \in Workers, v # w PROVE ~Reporting(v)' /\ ~Stray(v)' /\ pc'[v] \notin {"gate", "token"}
    BY <1>4, <1>6, <2>1, <2>2, <2>4, Zenon DEF Reporting, Stray, Leaving, Working, Holding, RunLabels, Owns
  <2> QED BY <2>3, <2>4, Zenon
<1>8. CareInv' /\ (Open' <=> Open) /\ attempt_count' = attempt_count /\ left'["worker"] = left["worker"]
  BY <1>1, <1>7, Zenon DEF CareInv, Open
<1>9. Open => attempt_count <= Room + attemptsMade[j] + 1
  BY <1>2, <1>3, <1>5 DEF BillInv
<1>10. CASE attemptsMade[j] + 1 < MaxAttempts /\ jobState' = [jobState EXCEPT ![j] = "queued"] /\ pc'[w] = "idle"
  <2>1. Failed' = Failed /\ Room' = Room /\ BurntInv' /\ attemptsMade'[j] = attemptsMade[j] + 1
        /\ \A i \in JobIds : Live(i)' <=> i = j
    <3>1. Failed' = Failed
      BY <1>2, <1>10, Zenon DEF Failed, BillTypes, ProtocolTypes
    <3>2. BurntInv' /\ attemptsMade'[j] = attemptsMade[j] + 1
      BY <1>2, <1>5, <1>6, <1>10 DEF BurntInv, BillInv, Live, BillTypes, ProtocolTypes
    <3>3. \A i \in JobIds : Live(i)' <=> i = j
      BY <1>2, <1>3, <1>10, Zenon DEF Live, BillTypes, ProtocolTypes
    <3> QED BY <1>8, <3>1, <3>2, <3>3, Zenon DEF RoomStep
  <2>2. \A v \in Workers : pc'[v] \notin Burying
    BY <1>4, <1>6, <1>10, Zenon DEF Burying
  <2> HIDE DEF j, Room, Failed
  <2> QED BY <1>2, <1>5, <1>7, <1>8, <1>9, <2>1, <2>2 DEF BillInv
<1>11. CASE attemptsMade[j] + 1 = MaxAttempts /\ jobState' = [jobState EXCEPT ![j] = "failed"] /\ pc'[w] = "dlqRead"
  <2>1. j \notin Failed /\ Failed' = Failed \cup {j} /\ BurntInv' /\ \A i \in JobIds : ~Live(i)'
    <3>1. j \notin Failed /\ Failed' = Failed \cup {j}
      BY <1>2, <1>11 DEF Failed, BillTypes, ProtocolTypes
    <3>2. \A i \in JobIds : ~Live(i)'
      BY <1>2, <1>3, <1>11, Zenon DEF Live, BillTypes, ProtocolTypes
    <3>3. BurntInv'
      BY <1>2, <1>5, <1>6, <1>11, <3>2 DEF BurntInv, BillInv, BillTypes, ProtocolTypes
    <3> QED BY <3>1, <3>2, <3>3, Zenon
  <2>2. Room' = Room + MaxAttempts
    BY <1>2, <1>8, <2>1, Zenon DEF RoomStep
  <2> HIDE DEF j, Room, Failed
  <2>3. attempt_count' <= Room'
    <3>1. ~Open => attempt_count <= Room + MaxAttempts
      BY DEF BillInv
    <3>2. Open => attempt_count <= Room + MaxAttempts
      BY <1>2, <1>5, <1>9, <1>11
    <3> QED BY <1>8, <2>2, <3>1, <3>2, Zenon
  <2>4. attempt_count' <= Room' + MaxAttempts
    BY <1>5, <1>8, <2>2, <2>3
  <2> QED BY <1>7, <1>8, <2>1, <2>3, <2>4, Zenon DEF BillInv
<1> QED BY <1>6, <1>10, <1>11, Zenon

\* A run that dies, or that BullMQ gives up, is paid for by the stall.
LEMMA StallKeeps ==
  ASSUME BillTypes, RoomStep, ProtocolInv, BillInv, NEW w \in Workers, WorkerCrash(w) \/ RenewalLate(w)
  PROVE  BillInv'
<1>1. UNCHANGED <<attempt_count, status, jobState, attemptsMade>> /\ left'["worker"] = left["worker"] - 1
  BY Zenon DEF WorkerCrash, RenewalLate, Die, Spend, RareEvents, postgres, ledger, row, BillTypes, ProtocolTypes
<1>2. /\ \A v \in Workers : v # w => /\ pc'[v] = pc[v] /\ job'[v] = job[v] /\ result'[v] = result[v]
                                     /\ fromStatus'[v] = fromStatus[v]
      /\ \/ pc'[w] = "idle"
         \/ /\ pc'[w] = pc[w] /\ job'[w] = job[w] /\ pc[w] \in RunLabels /\ lock = w /\ Owns(w) /\ ~Owns(w)'
            /\ fromStatus'[w] = fromStatus[w]
  <2>1. CASE WorkerCrash(w)
    BY <2>1, Zenon DEF WorkerCrash, Die, Idle, BillTypes, ProtocolTypes
  <2>2. CASE RenewalLate(w)
    <3>1. job[w] \in JobIds /\ w # "nobody"
      BY <2>2 DEF RenewalLate, ProtocolInv, OwnerInv, BillTypes, ProtocolTypes
    <3> QED BY <2>2, <3>1, Zenon DEF RenewalLate, run, locals, Owns, BillTypes, ProtocolTypes
  <2> QED BY <2>1, <2>2, Zenon
<1>3. Keeps(Workers \ {w})
  BY QueueKeeps, Zenon DEF BillTypes
<1>4. \A v \in Workers : v # w => (Reporting(v)' => Reporting(v)) /\ (Stray(v)' => Stray(v))
  <2>1. \A v \in Workers : pc[v] \in RunLabels => job[v] \in JobIds
    BY Zenon DEF ProtocolInv, OwnerInv
  <2>2. ASSUME NEW v \in Workers, v # w, pc[v] \in RunLabels PROVE Owns(v)' <=> Owns(v)
    BY <1>2, <1>3, <2>1, <2>2 DEF Keeps, Owns
  <2> QED BY <1>2, <2>2, Zenon DEF Reporting, Stray, Leaving, Working, RunLabels
<1>5. Room \in Int /\ Room' = Room + 1 /\ Failed' = Failed
  BY <1>1, Zenon DEF RoomStep, Failed
<1>6. attempt_count \in Nat /\ MaxAttempts \in Nat /\ \A j \in JobIds : attemptsMade[j] \in Nat
  BY ConstantsAssumption, Zenon DEF BillTypes, ProtocolTypes
<1>7. BurntInv' /\ CareInv' /\ (Open' <=> Open) /\ \A j \in JobIds : Live(j)' <=> Live(j)
  <2>1. BurntInv' /\ (Open' <=> Open) /\ \A j \in JobIds : Live(j)' <=> Live(j)
    BY <1>1, Zenon DEF BillInv, BurntInv, Open, Live
  <2>2. CareInv'
    BY <1>2, <1>4, <2>1 DEF BillInv, CareInv, Reporting, Leaving
  <2> QED BY <2>1, <2>2, Zenon
<1>8. ASSUME Stray(w)', Open PROVE attempt_count <= Room + attemptsMade[job[w]] /\ job'[w] = job[w] /\ job[w] \in JobIds
  <2>1. pc[w] \in Working /\ job'[w] = job[w] /\ lock = w /\ Owns(w)
    BY <1>2, <1>8, Zenon DEF Stray, Working
  <2>2. job[w] \in JobIds /\ Live(job[w])
    BY <2>1, Zenon DEF ProtocolInv, OwnerInv, HolderInv, Holding, Working, RunLabels
  <2>3. \A v \in Workers : Reporting(v) => job[v] # job[w]
    BY <2>1, Zenon DEF Reporting, Owns, Leaving, Working
  <2> QED BY <1>8, <2>1, <2>2, <2>3 DEF BillInv
<1>9. \A v \in Workers : pc'[v] \in Burying => pc[v] \in Burying
  BY <1>2, Zenon DEF Burying
<1>10. \A v \in Workers : Stray(v) => job[v] \in JobIds
  BY Zenon DEF Stray, ProtocolInv, OwnerInv, Working, RunLabels
<1> HIDE DEF Room, Failed
<1>11. ASSUME NEW v \in Workers, Stray(v)', Open PROVE attempt_count' + 1 <= Room' + attemptsMade'[job'[v]]
  BY <1>1, <1>2, <1>4, <1>5, <1>6, <1>8, <1>10, <1>11 DEF BillInv
<1> QED BY <1>1, <1>5, <1>6, <1>7, <1>9, <1>11 DEF BillInv

\* A run that reaches the end of its work records an attempt or throws.
LEMMA RunEnds ==
  ASSUME BillTypes, NEW w \in Workers, CircuitOpen(w) \/ RecordOutcome(w) \/ CommitReplyLost(w) \/ QueryFails(w)
  PROVE  \/ Throws(w)
         \/ /\ pc[w] \in {"gate", "record"} /\ pc' = [pc EXCEPT ![w] = "finally"] /\ UNCHANGED <<queue, job>>
            /\ left'["worker"] = left["worker"] /\ attempt_count' = attempt_count + 1
            /\ result'[w] = "return" => ~Open'
<1>1. left'["worker"] = left["worker"]
  <2>1. UNCHANGED left \/ left' = [left EXCEPT !["db"] = @ - 1]
    BY Zenon DEF CircuitOpen, RecordOutcome, CommitReplyLost, QueryFails, faults, Spend
  <2> QED BY <2>1, Zenon DEF RareEvents, BillTypes, ProtocolTypes
<1>2. ASSUME NEW how, End(w, how) PROVE result'[w] = how
  BY <1>2, Zenon DEF End, BillTypes, ProtocolTypes
<1>3. CASE CircuitOpen(w)
  BY <1>1, <1>2, <1>3, Zenon DEF CircuitOpen, At, recordAttempt, ledger, row, End, Throws, Working
<1>4. CASE RecordOutcome(w)
  <2>1. CASE result[w] = "SUCCESS" /\ recordAttempt(attemptNumber[w], result[w], "DELIVERING", ToStatus(result[w]))
    BY <1>1, <1>4, <2>1, Zenon DEF RecordOutcome, At, recordAttempt, transition, ToStatus, End, Open
  <2>2. CASE result[w] # "SUCCESS" /\ recordAttempt(attemptNumber[w], result[w], "DELIVERING", ToStatus(result[w]))
    <3>1. End(w, "throw")
      BY <1>4, <2>2, Zenon DEF RecordOutcome
    <3> QED BY <1>1, <1>2, <1>4, <2>2, <3>1, Zenon DEF RecordOutcome, At, recordAttempt, End
  <2>3. CASE UNCHANGED <<row, ledger>> /\ End(w, "throw")
    BY <1>1, <1>4, <2>3, Zenon DEF RecordOutcome, At, ledger, row, Throws, Working
  <2> QED BY <1>4, <2>1, <2>2, <2>3, Zenon DEF RecordOutcome
<1>5. CASE CommitReplyLost(w)
  BY <1>1, <1>2, <1>5, Zenon DEF CommitReplyLost, At, recordAttempt, transition, ledger, End, Throws, Working
<1>6. CASE QueryFails(w)
  BY <1>1, <1>6, Zenon DEF QueryFails, At, postgres, ledger, row, Throws, Working
<1> QED BY <1>3, <1>4, <1>5, <1>6, Zenon

\* Every step of the system keeps the bill.
LEMMA BillStep ==
  ASSUME TypeOK, RoomStep, ProtocolInv, SnapshotInv, BillInv, [Next]_vars
  PROVE  BillInv'
<1>t. BillTypes /\ ProtocolTypes /\ OneLiveJob' /\ BurntInv /\ CareInv
  <2>1. ProtocolInv'
    BY Typed, ProtocolStep, Zenon
  <2> QED BY <2>1, Typed, BillTyped, Zenon DEF ProtocolInv, BillInv
<1>n. ~RedisWipe /\ \A w \in Workers : ~Freeze(w) /\ ~Thaw(w)
  BY DEF RedisWipe, Freeze, Thaw, Spend, ProtocolInv, Calm
<1>m. Tame => BillInv'
  BY <1>t, TameKeeps, Zenon
<1>1. CASE \/ ApiStep \/ claimUnenqueued \/ Housekeeping \/ EnqueueLost \/ PatchEndpoint \/ UNCHANGED vars
           \/ \E j \in RetryJobs : RetryLost(j)
           \/ \E w \in Workers : Heartbeat(w)
  BY <1>t, <1>m, <1>1, BackgroundIsTame, Zenon
<1>2. ASSUME NEW w \in Workers, TakeJob(w) \/ RunStep(w) PROVE BillInv'
  <2>1. CASE CircuitOpen(w) \/ RecordOutcome(w)
    BY <1>t, <1>m, <2>1, RunEnds, RecordKeeps, EndIsTame, Zenon
  <2>2. CASE Settle(w)
    BY <1>t, <1>m, <2>2, FailKeeps, FileIsTame, Zenon
  <2>3. CASE Contended(w) \/ RateLimited(w) \/ release(w) \/ getForDelivery(w)
    BY <1>t, <1>m, <2>3, EndIsTame, MoveIsTame, Zenon
  <2>4. CASE TakeJob(w) \/ acquire(w) \/ tryAcquire(w) \/ StartDelivering(w) \/ deliver(w)
    BY <1>t, <1>m, <2>4, MoveIsTame, Zenon
  <2> QED BY <1>2, <2>1, <2>2, <2>3, <2>4, <1>1, Zenon DEF RunStep
<1>b. ASSUME NEW w \in Workers, DlqWrite(w) \/ HandlerQueryFails(w) PROVE BillInv'
  <2>1. CASE HandlerQueryFails(w) /\ UNCHANGED row
    BY <1>t, <1>m, <2>1, FileIsTame, Zenon
  <2>2. CASE DlqWrite(w) \/ ~UNCHANGED row
    <3>1. /\ pc[w] = "dlqWrite" /\ \E l \in {"dlqAdd", "idle"} : pc' = [pc EXCEPT ![w] = l]
          /\ UNCHANGED <<queue, attempt_count>> /\ status' = "DLQ"
      BY <1>b, <2>2, Zenon DEF DlqWrite, HandlerQueryFails, At, Goto, Idle, transition, ledger
    <3>2. \A v \in Workers \ {w} : job'[v] = job[v]
      BY <1>b, <1>t, Zenon DEF DlqWrite, HandlerQueryFails, Goto, Idle, locals, BillTypes, ProtocolTypes
    <3>3. left'["worker"] = left["worker"]
      BY <1>b, <1>t, Zenon DEF DlqWrite, HandlerQueryFails, faults, Spend, RareEvents, BillTypes, ProtocolTypes
    <3> QED BY <1>t, <3>1, <3>2, <3>3, BuryKeeps, Zenon
  <2> QED BY <1>b, <2>1, <2>2, Zenon
<1>3. ASSUME NEW w \in Workers, HandlerStep(w) PROVE BillInv'
  <2>1. CASE DlqRead(w)
    BY <1>t, <1>m, <2>1, FileIsTame, MoveIsTame, Zenon
  <2>2. CASE DlqAdd(w)
    BY <1>t, <1>m, <2>2, FileIsTame, Zenon
  <2> QED BY <1>3, <1>b, <2>1, <2>2, Zenon DEF HandlerStep
<1>4. CASE RareEvent
  <2>1. ASSUME NEW w \in Workers, QueryFails(w) \/ CommitReplyLost(w) PROVE BillInv'
    BY <1>t, <1>m, <2>1, RunEnds, RecordKeeps, EndIsTame, Zenon
  <2>2. ASSUME NEW w \in Workers, WorkerCrash(w) \/ RenewalLate(w) PROVE BillInv'
    BY <1>t, <2>2, StallKeeps, Zenon
  <2>3. ASSUME NEW w \in Workers, HandlerCrash(w) PROVE BillInv'
    BY <1>t, <1>m, <2>3, FileIsTame, Zenon
  <2> QED BY <1>4, <1>n, <1>b, <1>1, <2>1, <2>2, <2>3, Zenon DEF RareEvent
<1> QED BY <1>1, <1>2, <1>3, <1>4, Zenon DEF Next

\* The failed jobs are finitely many.
LEMMA PaidFacts ==
  ASSUME IsFiniteSet(RetryJobs)
  PROVE  IsFiniteSet(Failed) /\ Cardinality(Failed) \in Nat /\ Paid \in Nat
<1>1. IsFiniteSet(JobIds)
  <2>1. JobIds = RetryJobs \cup {DeliveryJob}
    BY Zenon DEF JobIds
  <2> QED BY <2>1, FS_AddElement, Zenon
<1>2. IsFiniteSet(Failed)
  BY <1>1, FS_Subset, Zenon DEF Failed
<1>3. Cardinality(Failed) \in Nat
  BY <1>2, FS_CardinalityType, Zenon
<1>4. \A m, n \in Nat : m * n \in Nat
  OBVIOUS
<1> QED BY <1>2, <1>3, <1>4, ConstantsAssumption, Zenon DEF Paid

\* A job that fails pays for its attempts, a stall for one.
LEMMA RoomSteps == ASSUME ProtocolTypes, IsFiniteSet(RetryJobs) PROVE RoomStep
<1>1. Paid \in Nat /\ left["worker"] \in Nat /\ Budget["worker"] \in Nat /\ MaxAttempts \in Nat
  BY PaidFacts, ConstantsAssumption, Zenon DEF ProtocolTypes, RareEvents
<1>2. Failed' = Failed => Paid' = Paid
  BY Zenon DEF Paid
<1>3. ASSUME NEW j \in JobIds \ Failed, Failed' = Failed \cup {j} PROVE Paid' = Paid + MaxAttempts
  <2>1. IsFiniteSet(Failed)
    BY PaidFacts, Zenon
  <2>2. Cardinality(Failed) \in Nat /\ Cardinality(Failed') = Cardinality(Failed) + 1
    BY <1>3, <2>1, FS_AddElement, FS_CardinalityType, Zenon
  <2>3. \A a, b \in Nat : b * (a + 1) = b * a + b
    OBVIOUS
  <2> QED BY <1>1, <2>2, <2>3, Zenon DEF Paid
<1> HIDE DEF Paid
<1> QED BY <1>1, <1>2, <1>3 DEF RoomStep, Room, Stalls

\* The bill bounds the attempts.
LEMMA BillBounds ==
  ASSUME TypeOK, IsFiniteSet(RetryJobs), BillInv
  PROVE  AttemptBound
<1>1. /\ Paid \in Nat /\ attempt_count \in Nat /\ MaxAttempts \in Nat /\ Stalls \in Int
      /\ \A j \in JobIds : attemptsMade[j] \in Nat
  BY PaidFacts, ConstantsAssumption DEF TypeOK, LedgerTyped, QueueTyped, Stalls, RareEvents
<1> HIDE DEF Paid
<1>2. CASE status = "DELIVERED"
  BY <1>1, <1>2 DEF BillInv, Open, Room, AttemptBound, Paid
<1>3. ASSUME NEW j \in JobIds, Live(j), Open PROVE AttemptBound
  <2>1. attemptsMade[j] < MaxAttempts /\ attempt_count <= Room + attemptsMade[j] + 1
    BY <1>1, <1>3 DEF BillInv, BurntInv, Room
  <2> QED BY <1>1, <1>3, <2>1 DEF Room, AttemptBound, Paid
<1>4. CASE Open /\ \A j \in JobIds : ~Live(j)
  <2>1. attempt_count <= Room
    BY <1>4, Zenon DEF BillInv
  <2> QED BY <1>1, <2>1 DEF Room, AttemptBound, Paid
<1> QED BY <1>2, <1>3, <1>4, Zenon DEF Open

\* However often queries and replies are lost, listeners die and the delivery
\* is dead-lettered and retried by hand, every attempt is paid for by a job that
\* failed, by the one that is alive or delivered, or by the run that stalled.
THEOREM AttemptBoundCorrect ==
  ASSUME IsFiniteSet(RetryJobs)
  PROVE  OneStall /\ Spec => []AttemptBound
<1>1. Init => BillInv
  <2> SUFFICES ASSUME Init PROVE BillInv
    BY Zenon
  <2>1. \A j \in JobIds : jobState[j] = "absent" /\ attemptsMade[j] = 0
    BY Zenon DEF Init
  <2>2. \A w \in Workers : pc[w] = "idle"
    BY Zenon DEF Init
  <2>3. attempt_count = 0 /\ left = Budget
    BY DEF Init
  <2>4. 0 <= Room /\ 0 <= Room + MaxAttempts
    <3>1. Paid \in Nat
      BY PaidFacts, Zenon
    <3>2. Stalls = 0
      BY <2>3, ConstantsAssumption DEF Stalls, RareEvents
    <3> HIDE DEF Paid, Stalls
    <3> QED BY <3>1, <3>2, ConstantsAssumption DEF Room
  <2> HIDE DEF Room, Failed
  <2> QED BY <2>1, <2>2, <2>3, <2>4, Zenon DEF BillInv, BurntInv, CareInv, Live, Reporting, Stray, Leaving,
                                               Working, Burying
<1>2. TypeOK /\ ProtocolInv /\ SnapshotInv /\ BillInv /\ [Next]_vars => BillInv'
  BY BillStep, RoomSteps, Typed, Zenon
<1>3. TypeOK /\ BillInv => AttemptBound
  BY BillBounds
<1> QED BY <1>1, <1>2, <1>3, SnapshotAlways, PTL DEF Spec
=============================================================================
