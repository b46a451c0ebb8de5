------------------------ MODULE DeliveryEngineProofs ------------------------
(***************************************************************************)
(* What Postgres is left with: the attempt ledger, the refinement of       *)
(* AttemptTrail, every DELIVERED with its SUCCESS and the lock, for every  *)
(* number of slots, retries and attempts; and, without faults, a single    *)
(* delivery, legal transitions and spent dead letters.                     *)
(***************************************************************************)
EXTENDS DeliveryEngineInvariants, Sequences, FiniteSetTheorems

-----------------------------------------------------------------------------
(* What a step does to Postgres, and to the numbers the runs carry *)

\* The ledger is left alone, and the status is at most moved by hand.
MoveStep ==
  /\ UNCHANGED ledger
  /\ \/ UNCHANGED row
     \/ \E from \in Statuses \cup {"none"}, to \in {"PENDING", "DELIVERING", "DLQ"} :
          transition(from, to)

\* A run records an attempt under the number it carries.
RecordStep ==
  \E w \in Workers, outcome \in Outcomes, from \in Statuses \cup {"none"} :
    /\ pc[w] \in Numbered
    /\ recordAttempt(attemptNumber[w], outcome, from, ToStatus(outcome))

\* A run keeps its number, drops it, or has just computed it from the row.
NumberStep ==
  \A v \in Workers : pc'[v] \in Numbered =>
    \/ pc[v] \in Numbered /\ attemptNumber'[v] = attemptNumber[v]
    \/ attemptNumber'[v] = attempt_count + 1

\* Only processDelivery records attempts, and it does so under its own number.
LEMMA PostgresStep == TypeOK /\ [Next]_vars => MoveStep \/ RecordStep
<1> SUFFICES ASSUME TypeOK, [Next]_vars PROVE MoveStep \/ RecordStep
  OBVIOUS
<1>t. /\ \A w \in Workers : fromStatus[w] \in Statuses \cup {"none"}
      /\ \A w \in Workers : pc[w] = "record" => result[w] \in Outcomes
  BY DEF TypeOK, RunTyped
<1>s. "DELIVERING" \in Statuses /\ "DLQ" \in Statuses
  BY DEF Statuses
<1> USE DEF MoveStep, postgres
<1>1. CASE ApiStep
  BY <1>1, <1>s DEF ApiStep, IngestEvent, EnqueueAdd, EnqueueMark, RetryFromDlq, RetryAdd
<1>2. CASE claimUnenqueued
  BY <1>2 DEF claimUnenqueued
<1>3. ASSUME NEW w \in Workers, TakeJob(w) PROVE MoveStep
  BY <1>3, Zenon DEF TakeJob, Pickup, PickupCondemned
<1>4. ASSUME NEW w \in Workers, RunStep(w) PROVE MoveStep \/ RecordStep
  <2>1. CASE CircuitOpen(w)
    <3>1. CASE recordAttempt(attemptNumber[w], "CIRCUIT_OPEN", fromStatus[w], "FAILED")
      <4>1. "CIRCUIT_OPEN" \in Outcomes /\ ToStatus("CIRCUIT_OPEN") = "FAILED"
        BY DEF Outcomes, ToStatus
      <4>2. pc[w] \in Numbered
        BY <2>1 DEF CircuitOpen, At, Numbered
      <4> QED BY <1>t, <3>1, <4>1, <4>2 DEF RecordStep
    <3>2. CASE UNCHANGED <<row, ledger>>
      BY <3>2
    <3> QED BY <2>1, <3>1, <3>2 DEF CircuitOpen
  <2>2. CASE StartDelivering(w)
    BY <2>2, <1>t DEF StartDelivering
  <2>3. CASE RecordOutcome(w)
    <3>1. CASE recordAttempt(attemptNumber[w], result[w], "DELIVERING", ToStatus(result[w]))
      <4>1. pc[w] \in Numbered /\ result[w] \in Outcomes
        BY <2>3, <1>t DEF RecordOutcome, At, Numbered
      <4> QED BY <1>s, <3>1, <4>1 DEF RecordStep
    <3>2. CASE UNCHANGED <<row, ledger>>
      BY <3>2
    <3> QED BY <2>3, <3>1, <3>2 DEF RecordOutcome
  <2>4. CASE \/ acquire(w) \/ Contended(w) \/ getForDelivery(w) \/ RateLimited(w)
             \/ tryAcquire(w) \/ Heartbeat(w) \/ deliver(w) \/ release(w) \/ Settle(w)
    BY <2>4, Zenon DEF acquire, Contended, getForDelivery, RateLimited, tryAcquire, Heartbeat,
                deliver, release, Settle
  <2> QED BY <1>4, <2>1, <2>2, <2>3, <2>4, Zenon DEF RunStep
<1>5. ASSUME NEW w \in Workers, HandlerStep(w) PROVE MoveStep
  BY <1>5, <1>t DEF HandlerStep, DlqRead, DlqWrite, DlqAdd
<1>6. CASE Housekeeping
  BY <1>6, Zenon DEF Housekeeping, OrphanExpires, LockExpires, StalledCheck, RemoveOnComplete
<1>7. CASE RareEvent
  <2>1. ASSUME NEW w \in Workers, CommitReplyLost(w) PROVE MoveStep \/ RecordStep
    <3>1. CASE transition(fromStatus[w], "DELIVERING") /\ UNCHANGED ledger
      BY <1>t, <3>1
    <3>2. CASE /\ At(w, "record")
               /\ recordAttempt(attemptNumber[w], result[w], "DELIVERING", ToStatus(result[w]))
      <4>1. pc[w] \in Numbered /\ result[w] \in Outcomes
        BY <3>2, <1>t DEF At, Numbered
      <4> QED BY <1>s, <3>2, <4>1, Zenon DEF RecordStep
    <3> QED BY <2>1, <3>1, <3>2 DEF CommitReplyLost
  <2>2. ASSUME NEW w \in Workers, HandlerQueryFails(w) PROVE MoveStep
    BY <2>2, <1>t, Zenon DEF HandlerQueryFails
  <2>3. ASSUME NEW w \in Workers,
               \/ WorkerCrash(w) \/ RenewalLate(w) \/ HandlerCrash(w)
               \/ Freeze(w) \/ Thaw(w) \/ QueryFails(w)
        PROVE  MoveStep
    BY <2>3 DEF WorkerCrash, RenewalLate, HandlerCrash, Die, Freeze, Thaw, QueryFails
  <2>4. ASSUME NEW j \in RetryJobs, RetryLost(j) PROVE MoveStep
    BY <2>4 DEF RetryLost
  <2>5. CASE EnqueueLost \/ RedisWipe \/ PatchEndpoint
    BY <2>5 DEF EnqueueLost, RedisWipe, PatchEndpoint
  <2> QED BY <1>7, <2>1, <2>2, <2>3, <2>4, <2>5, Zenon DEF RareEvent
<1>8. CASE UNCHANGED vars
  BY <1>8 DEF vars
<1> QED BY <1>1, <1>2, <1>3, <1>4, <1>5, <1>6, <1>7, <1>8, Zenon DEF Next

\* No step invents a number: getForDelivery computes it, nothing else sets it.
LEMMA NumbersStep == TypeOK /\ [Next]_vars => NumberStep
<1> SUFFICES ASSUME TypeOK, [Next]_vars PROVE NumberStep
  OBVIOUS
<1>t. /\ pc \in [Workers -> {"idle"} \cup RunLabels \cup HandlerLabels]
      /\ attemptNumber \in [Workers -> Nat]
  BY DEF TypeOK, RunTyped
<1>i. \A w \in Workers : Idle(w) => NumberStep
  BY <1>t DEF Idle, NumberStep, Numbered
<1>e. \A w \in Workers, how \in Endings : End(w, how) => NumberStep
  BY <1>t DEF End, NumberStep, Numbered
<1>g. \A w \in Workers : \A l : pc[w] \in Numbered \/ l \notin Numbered => (Goto(w, l) => NumberStep)
  BY <1>t DEF Goto, locals, NumberStep
<1>u. UNCHANGED <<pc, attemptNumber>> => NumberStep
  BY Zenon DEF NumberStep
<1> USE <1>t, <1>i, <1>e, <1>g, <1>u DEF run, locals, Endings
<1>1. CASE ApiStep
  BY <1>1 DEF ApiStep, IngestEvent, EnqueueAdd, EnqueueMark, RetryFromDlq, RetryAdd
<1>2. CASE claimUnenqueued
  BY <1>2 DEF claimUnenqueued
<1>f. \A w \in Workers : \A j, c : Fail(w, j, c) => NumberStep
  BY DEF Fail, NumberStep, Numbered
<1>3. ASSUME NEW w \in Workers, TakeJob(w) PROVE NumberStep
  <2>1. ASSUME NEW j \in JobIds, Pickup(w, j) PROVE NumberStep
    BY <2>1 DEF Pickup, NumberStep, Numbered
  <2>2. ASSUME NEW j \in JobIds, PickupCondemned(w, j) PROVE NumberStep
    BY <2>2, <1>f, Zenon DEF PickupCondemned
  <2> QED BY <1>3, <2>1, <2>2, Zenon DEF TakeJob
<1>4. ASSUME NEW w \in Workers, RunStep(w) PROVE NumberStep
  <2>1. CASE acquire(w)
    BY <2>1, Zenon DEF acquire, Numbered
  <2>2. CASE getForDelivery(w)
    BY <2>2 DEF getForDelivery, NumberStep, NextNumber
  <2>3. CASE tryAcquire(w) \/ StartDelivering(w)
    BY <2>3 DEF tryAcquire, StartDelivering, At, Numbered
  <2>4. CASE Heartbeat(w)
    BY <2>4, Zenon DEF Heartbeat
  <2>5. CASE deliver(w)
    BY <2>5 DEF deliver, At, Numbered, NumberStep
  <2>6. CASE release(w)
    BY <2>6 DEF release, Numbered
  <2>7. CASE Settle(w)
    BY <2>7, <1>f, Zenon DEF Settle
  <2>8. CASE Contended(w) \/ CircuitOpen(w) \/ RateLimited(w) \/ RecordOutcome(w)
    BY <2>8 DEF Contended, CircuitOpen, RateLimited, RecordOutcome
  <2> QED BY <1>4, <2>1, <2>2, <2>3, <2>4, <2>5, <2>6, <2>7, <2>8, Zenon DEF RunStep
<1>5. ASSUME NEW w \in Workers, HandlerStep(w) PROVE NumberStep
  <2>1. CASE DlqRead(w)
    BY <2>1, Zenon DEF DlqRead, NumberStep, Numbered
  <2>2. CASE DlqWrite(w) \/ DlqAdd(w)
    BY <2>2 DEF DlqWrite, DlqAdd, Numbered
  <2> QED BY <1>5, <2>1, <2>2, Zenon DEF HandlerStep
<1>6. CASE Housekeeping
  BY <1>6, Zenon DEF Housekeeping, OrphanExpires, LockExpires, StalledCheck, RemoveOnComplete
<1>7. CASE RareEvent
  BY <1>7, Zenon DEF RareEvent, EnqueueLost, RedisWipe, PatchEndpoint, RetryLost, WorkerCrash,
              RenewalLate, HandlerCrash, Die, Freeze, Thaw, QueryFails, CommitReplyLost, HandlerQueryFails
<1>8. CASE UNCHANGED vars
  BY <1>8, Zenon DEF vars
<1> QED BY <1>1, <1>2, <1>3, <1>4, <1>5, <1>6, <1>7, <1>8, Zenon DEF Next

-----------------------------------------------------------------------------
(* The attempt ledger *)

LedgerInv == AttemptLedger /\ NumbersNotAhead

\* A number that is not ahead of the ledger and not in it is the next one.
LEMMA NumberIsNext ==
  ASSUME TypeOK, LedgerInv, NEW w \in Workers, pc[w] \in Numbered, Unique(attemptNumber[w])
  PROVE  attemptNumber[w] = attempt_count + 1
<1>1. attemptNumber[w] \in 1 .. attempt_count + 1 /\ attempt_count \in Nat
  BY Zenon DEF TypeOK, LedgerTyped, LedgerInv, NumbersNotAhead
<1>2. attemptNumber[w] \notin {a.number : a \in attempts}
  BY DEF Unique
<1>3. attemptNumber[w] \notin 1 .. attempt_count
  BY <1>2 DEF LedgerInv, AttemptLedger
<1> QED BY <1>1, <1>3

\* The ledger invariant is inductive.
LEMMA LedgerStep == TypeOK /\ LedgerInv /\ [Next]_vars => LedgerInv'
<1> SUFFICES ASSUME TypeOK, LedgerInv, [Next]_vars PROVE LedgerInv'
  BY Zenon
<1>t. attempt_count \in Nat /\ attempt_count' \in Nat
  BY NextType DEF TypeOK, LedgerTyped
<1>n. NumberStep
  BY NumbersStep
<1>1. CASE MoveStep
  <2>1. AttemptLedger'
    BY <1>1, Zenon DEF MoveStep, ledger, LedgerInv, AttemptLedger
  <2>2. NumbersNotAhead'
    BY <1>1, <1>n, <1>t DEF MoveStep, ledger, LedgerInv, NumbersNotAhead, NumberStep
  <2> QED BY <2>1, <2>2, Zenon DEF LedgerInv
<1>2. CASE RecordStep
  <2>1. PICK w \in Workers, outcome \in Outcomes, from \in Statuses \cup {"none"} :
          /\ pc[w] \in Numbered
          /\ recordAttempt(attemptNumber[w], outcome, from, ToStatus(outcome))
    BY <1>2, Zenon DEF RecordStep
  <2>2. attemptNumber[w] = attempt_count + 1
    BY <2>1, NumberIsNext, Zenon DEF recordAttempt
  <2>3. /\ attempts' = attempts \cup {[number |-> attempt_count + 1, outcome |-> outcome]}
        /\ attempt_count' = attempt_count + 1
    BY <2>1, <2>2, Zenon DEF recordAttempt
  <2>4. AttemptLedger'
    <3>1. {a.number : a \in attempts'} = {a.number : a \in attempts} \cup {attempt_count + 1}
      <4> DEFINE new == [number |-> attempt_count + 1, outcome |-> outcome]
      <4>1. new.number = attempt_count + 1 /\ attempts' = attempts \cup {new}
        BY <2>3, Zenon
      <4> HIDE DEF new
      <4> QED BY <4>1, Zenon
    <3>2. {a.number : a \in attempts'} = 1 .. attempt_count'
      BY <1>t, <2>3, <3>1 DEF LedgerInv, AttemptLedger
    <3>3. \A a \in attempts : a.number # attempt_count + 1
      BY <2>1, <2>2, Zenon DEF recordAttempt, Unique
    <3>4. \A a, b \in attempts' : a.number = b.number => a = b
      BY <2>3, <3>3 DEF LedgerInv, AttemptLedger
    <3> QED BY <3>2, <3>4 DEF AttemptLedger
  <2>5. NumbersNotAhead'
    BY <1>n, <1>t, <2>3 DEF LedgerInv, NumbersNotAhead, NumberStep
  <2> QED BY <2>4, <2>5, Zenon DEF LedgerInv
<1> QED BY <1>1, <1>2, PostgresStep, Zenon

\* The ledger invariant holds throughout.
LEMMA LedgerAlways == Spec => [](TypeOK /\ LedgerInv)
<1>1. Init => TypeOK /\ LedgerInv
  <2>1. Init => AttemptLedger
    BY DEF Init, AttemptLedger
  <2>2. Init => NumbersNotAhead
    BY DEF Init, NumbersNotAhead, Numbered
  <2> QED BY <2>1, <2>2, InitType, Zenon DEF LedgerInv
<1>2. TypeOK /\ LedgerInv /\ [Next]_vars => (TypeOK /\ LedgerInv)'
  BY NextType, LedgerStep
<1> QED BY <1>1, <1>2, PTL DEF Spec

\* I2 and I3: whatever crashes, freezes, wipes and failed transactions occur,
\* the attempt numbers of the delivery are exactly 1..attempt_count.
THEOREM LedgerCorrect == Spec => []AttemptLedger
<1>1. LedgerInv => AttemptLedger
  BY DEF LedgerInv
<1> QED BY <1>1, LedgerAlways, PTL

\* A run never carries a number beyond the next free one.
THEOREM NumbersCorrect == Spec => []NumbersNotAhead
<1>1. LedgerInv => NumbersNotAhead
  BY DEF LedgerInv
<1> QED BY <1>1, LedgerAlways, PTL

-----------------------------------------------------------------------------
(* Every DELIVERED has its SUCCESS *)

SuccessInv == SuccessBacked /\ IsFiniteSet(attempts)

\* The invariant is inductive: the row and its proof commit together.
LEMMA SuccessStep == TypeOK /\ SuccessInv /\ [Next]_vars => SuccessInv'
<1> SUFFICES ASSUME TypeOK, SuccessInv, [Next]_vars PROVE SuccessInv'
  OBVIOUS
<1>f. IsFiniteSet(Successes)
  BY FS_Subset DEF SuccessInv, Successes
<1>c. Cardinality(Successes) \in Nat
  BY <1>f, FS_CardinalityType, Zenon
<1>1. CASE MoveStep
  <2>1. attempts' = attempts /\ Successes' = Successes
    BY <1>1 DEF MoveStep, ledger, Successes
  <2>2. CASE UNCHANGED row
    BY <2>1, <2>2 DEF row, SuccessInv, SuccessBacked
  <2>3. ASSUME NEW from, NEW to \in {"PENDING", "DELIVERING", "DLQ"}, transition(from, to)
        PROVE  SuccessInv'
    BY <2>1, <2>3 DEF transition, SuccessInv, SuccessBacked
  <2> QED BY <1>1, <2>2, <2>3, Zenon DEF MoveStep
<1>2. CASE RecordStep
  <2>1. PICK w \in Workers, outcome \in Outcomes, from \in Statuses \cup {"none"} :
          recordAttempt(attemptNumber[w], outcome, from, ToStatus(outcome))
    BY <1>2, Zenon DEF RecordStep
  <2> DEFINE r == [number |-> attemptNumber[w], outcome |-> outcome]
  <2>2. r \notin attempts /\ attempts' = attempts \cup {r}
    BY <2>1, Zenon DEF recordAttempt, Unique
  <2>3. IsFiniteSet(attempts')
    BY <2>2, FS_AddElement, Zenon DEF SuccessInv
  <2>4. CASE outcome = "SUCCESS"
    <3>1. Successes' = Successes \cup {r} /\ r \notin Successes
      BY <2>2, <2>4 DEF Successes
    <3>2. Cardinality(Successes') = Cardinality(Successes) + 1
      BY <1>f, <3>1, FS_AddElement, Zenon
    <3>3. deliveredRows' = deliveredRows + 1
      BY <2>1, <2>4, Zenon DEF recordAttempt, transition, ToStatus
    <3> QED BY <2>3, <3>1, <3>2, <3>3, Zenon DEF SuccessInv, SuccessBacked
  <2>5. CASE outcome # "SUCCESS"
    <3>1. Successes' = Successes
      BY <2>2, <2>5 DEF Successes
    <3>2. deliveredRows' = deliveredRows /\ status' = "FAILED"
      BY <2>1, <2>5 DEF recordAttempt, transition, ToStatus
    <3> QED BY <2>3, <3>1, <3>2, Zenon DEF SuccessInv, SuccessBacked
  <2> QED BY <2>4, <2>5, Zenon
<1> QED BY <1>1, <1>2, PostgresStep, Zenon

\* The invariant, in every reachable state.
LEMMA SuccessAlways == Spec => [](TypeOK /\ SuccessInv)
<1>1. Init => TypeOK /\ SuccessInv
  <2>1. Init => SuccessInv
    BY FS_EmptySet DEF Init, SuccessInv, SuccessBacked, Successes
  <2> QED BY <2>1, InitType, Zenon
<1>2. TypeOK /\ SuccessInv /\ [Next]_vars => (TypeOK /\ SuccessInv)'
  BY NextType, SuccessStep
<1> QED BY <1>1, <1>2, PTL DEF Spec

\* I5: the delivery is marked DELIVERED exactly as often as it has a SUCCESS
\* attempt, and is never DELIVERED without one.
THEOREM SuccessCorrect == Spec => []SuccessBacked
<1>1. SuccessInv => SuccessBacked
  BY DEF SuccessInv
<1> QED BY <1>1, SuccessAlways, PTL

-----------------------------------------------------------------------------
(* Refinement of AttemptTrail *)

\* The entry of the list at i is the outcome of the one attempt numbered i.
LEMMA ListEntry ==
  ASSUME LedgerInv, NEW a \in attempts
  PROVE  a.number \in 1 .. attempt_count /\ AttemptList[a.number] = a.outcome
<1>1. a.number \in 1 .. attempt_count
  BY DEF LedgerInv, AttemptLedger
<1>2. (CHOOSE b \in attempts : b.number = a.number) = a
  BY DEF LedgerInv, AttemptLedger
<1> QED BY <1>1, <1>2 DEF AttemptList

\* Recording an attempt appends its outcome to the list.
LEMMA RecordAppends ==
  ASSUME TypeOK, LedgerInv, LedgerInv', NEW w \in Workers, NEW outcome \in Outcomes,
         NEW from, pc[w] \in Numbered,
         recordAttempt(attemptNumber[w], outcome, from, ToStatus(outcome))
  PROVE  AttemptList' = Append(AttemptList, outcome)
<1> DEFINE n == attempt_count + 1
           r == [number |-> n, outcome |-> outcome]
<1>t. attempt_count \in Nat /\ attempts \in SUBSET [number : Nat, outcome : Outcomes]
  BY Zenon DEF TypeOK, LedgerTyped
<1>1. attemptNumber[w] = n
  BY NumberIsNext, Zenon DEF recordAttempt
<1>2. attempts' = attempts \cup {r} /\ attempt_count' = n
  BY <1>1, Zenon DEF recordAttempt
<1>3. AttemptList'[n] = outcome
  <2>1. (CHOOSE b \in attempts' : b.number = n) = r
    BY <1>2 DEF LedgerInv, AttemptLedger
  <2> QED BY <1>t, <1>2, <2>1 DEF AttemptList
<1>4. ASSUME NEW k \in 1 .. attempt_count PROVE AttemptList'[k] = AttemptList[k]
  <2>1. PICK a \in attempts : a.number = k
    BY <1>4 DEF LedgerInv, AttemptLedger
  <2>2. AttemptList[k] = a.outcome
    BY <2>1, ListEntry, Zenon
  <2>3. (CHOOSE b \in attempts' : b.number = k) = a
    BY <1>2, <2>1, Zenon DEF LedgerInv, AttemptLedger
  <2>4. AttemptList'[k] = a.outcome
    BY <1>t, <1>2, <2>3 DEF AttemptList
  <2> QED BY <2>2, <2>4, Zenon
<1>5. AttemptList \in Seq(Outcomes) /\ Len(AttemptList) = attempt_count
  <2>1. ASSUME NEW k \in 1 .. attempt_count PROVE AttemptList[k] \in Outcomes
    <3>1. PICK a \in attempts : a.number = k
      BY <2>1 DEF LedgerInv, AttemptLedger
    <3> QED BY <1>t, <3>1, ListEntry, Zenon
  <2>2. AttemptList = [k \in 1 .. attempt_count |-> AttemptList[k]]
    BY DEF AttemptList
  <2>3. AttemptList \in [1 .. attempt_count -> Outcomes]
    BY <2>1, <2>2, Zenon
  <2> QED BY <1>t, <2>3
<1>6. AttemptList' = [k \in 1 .. n |-> AttemptList'[k]]
  BY <1>2 DEF AttemptList
<1> HIDE DEF n, r
<1> QED BY <1>t, <1>3, <1>4, <1>5, <1>6 DEF n

\* The three tables implement the append-only list of AttemptTrail, whatever
\* the workers, the queue and the faults do.
THEOREM TrailRefinement == Spec => RefinesTrail
<1>1. Init => Trail!Init
  BY DEF Init, Trail!Init, AttemptList
<1>2. TypeOK /\ LedgerInv /\ LedgerInv' /\ [Next]_vars => [Trail!Next]_<<status, AttemptList>>
  <2> SUFFICES ASSUME TypeOK, LedgerInv, LedgerInv', [Next]_vars
               PROVE  [Trail!Next]_<<status, AttemptList>>
    OBVIOUS
  <2>1. CASE MoveStep
    <3>1. AttemptList' = AttemptList
      BY <2>1 DEF MoveStep, ledger, AttemptList
    <3>2. CASE UNCHANGED row
      BY <3>1, <3>2, Zenon DEF row
    <3>3. ASSUME NEW from, NEW to \in {"PENDING", "DELIVERING", "DLQ"}, transition(from, to)
          PROVE  Trail!Next
      BY <3>1, <3>3, Zenon DEF transition, Trail!Next, Trail!Move
    <3> QED BY <2>1, <3>2, <3>3, Zenon DEF MoveStep
  <2>2. CASE RecordStep
    <3>1. PICK w \in Workers, outcome \in Outcomes, from \in Statuses \cup {"none"} :
            /\ pc[w] \in Numbered
            /\ recordAttempt(attemptNumber[w], outcome, from, ToStatus(outcome))
      BY <2>2, Zenon DEF RecordStep
    <3>2. AttemptList' = Append(AttemptList, outcome)
      BY <3>1, RecordAppends, Zenon
    <3>3. status' = ToStatus(outcome)
      BY <3>1, Zenon DEF recordAttempt, transition
    <3> QED BY <3>2, <3>3, Zenon DEF ToStatus, Trail!Next, Trail!Record
  <2> QED BY <2>1, <2>2, PostgresStep, Zenon
<1> QED BY <1>1, <1>2, LedgerAlways, PTL DEF Spec, RefinesTrail, Trail!Spec

-----------------------------------------------------------------------------
(* The lock, when nothing takes it from a living holder *)

LockInv == LockGuards /\ paused = {} /\ left["pause"] = 0 /\ left["wipe"] = 0

\* A slot starts working only by acquiring the lock, and nobody else frees it.
LEMMA LockStep == TypeOK /\ LockInv /\ [Next]_vars => LockInv'
<1> SUFFICES ASSUME TypeOK, LockInv, [Next]_vars PROVE LockInv'
  BY Zenon
<1>t. /\ pc \in [Workers -> {"idle"} \cup RunLabels \cup HandlerLabels]
      /\ left \in [RareEvents -> Nat]
      /\ Workers \cap {"free", "orphan"} = {}
  BY ConstantsAssumption, Zenon DEF TypeOK, RunTyped
<1> USE <1>t DEF LockInv, LockGuards, Working
<1>i. ASSUME NEW w \in Workers, Idle(w), lock' \in {lock, Released(w)} PROVE LockGuards'
  BY <1>i, Zenon DEF Idle, Released
<1>e. ASSUME NEW w \in Workers, NEW how, End(w, how), lock' = lock PROVE LockGuards'
  BY <1>e, Zenon DEF End
<1>f. ASSUME NEW w \in Workers, NEW j, NEW c, Fail(w, j, c), lock' = lock PROVE LockGuards'
  BY <1>f, <1>i, Zenon DEF Fail
<1>u. UNCHANGED <<pc, lock>> => LockGuards'
  OBVIOUS
<1>p. UNCHANGED <<paused, left>> /\ LockGuards' => LockInv'
  OBVIOUS
<1>1. CASE ApiStep \/ claimUnenqueued
  BY <1>1, <1>u, Zenon DEF ApiStep, claimUnenqueued, IngestEvent, EnqueueAdd, EnqueueMark,
                    RetryFromDlq, RetryAdd, run, faults
<1>3. ASSUME NEW w \in Workers, TakeJob(w) PROVE LockInv'
  <2>1. ASSUME NEW j \in JobIds, Pickup(w, j) PROVE LockInv'
    BY <2>1 DEF Pickup, faults
  <2>2. ASSUME NEW j \in JobIds, PickupCondemned(w, j) PROVE LockInv'
    BY <2>2, <1>f, <1>p, Zenon DEF PickupCondemned, faults
  <2> QED BY <1>3, <2>1, <2>2, Zenon DEF TakeJob
<1>4. ASSUME NEW w \in Workers, RunStep(w) PROVE LockInv'
  <2>1. CASE acquire(w)
    BY <2>1, Zenon DEF acquire, LockFree, Goto, faults
  <2>2. CASE Contended(w)
    BY <2>2, <1>i, <1>p, Zenon DEF Contended, faults
  <2>3. CASE getForDelivery(w)
    <3>1. CASE \E how \in Endings : End(w, how)
      BY <2>3, <3>1, <1>e, <1>p, Zenon DEF getForDelivery, faults
    <3>2. CASE pc' = [pc EXCEPT ![w] = "gate"]
      BY <2>3, <3>2, Zenon DEF getForDelivery, At, faults
    <3> QED BY <2>3, <3>1, <3>2, Zenon DEF getForDelivery, Endings
  <2>4. CASE CircuitOpen(w) \/ RateLimited(w) \/ RecordOutcome(w)
    BY <2>4, <1>e, <1>p, Zenon DEF CircuitOpen, RateLimited, RecordOutcome, faults
  <2>5. CASE tryAcquire(w) \/ StartDelivering(w)
    BY <2>5, Zenon DEF tryAcquire, StartDelivering, At, Goto, faults
  <2>6. CASE Heartbeat(w)
    BY <2>6, Zenon DEF Heartbeat, faults
  <2>7. CASE deliver(w)
    BY <2>7, Zenon DEF deliver, At, faults
  <2>8. CASE release(w)
    <3>1. CASE Idle(w)
      BY <2>8, <3>1, <1>i, <1>p, Zenon DEF release, faults
    <3>2. CASE Goto(w, "settle")
      BY <2>8, <3>2 DEF release, Released, Goto, faults
    <3> QED BY <2>8, <3>1, <3>2, Zenon DEF release
  <2>9. CASE Settle(w)
    BY <2>9, <1>i, <1>f, <1>p, Zenon DEF Settle, faults
  <2> QED BY <1>4, <2>1, <2>2, <2>3, <2>4, <2>5, <2>6, <2>7, <2>8, <2>9 DEF RunStep
<1>5. ASSUME NEW w \in Workers, HandlerStep(w) PROVE LockInv'
  <2>1. CASE DlqRead(w)
    BY <2>1, <1>i, <1>p, Zenon DEF DlqRead, faults
  <2>2. CASE DlqWrite(w)
    BY <2>2, Zenon DEF DlqWrite, Goto, faults
  <2>3. CASE DlqAdd(w)
    BY <2>3, <1>i, <1>p, Zenon DEF DlqAdd, faults
  <2> QED BY <1>5, <2>1, <2>2, <2>3, Zenon DEF HandlerStep
<1>6. CASE Housekeeping
  <2>1. CASE OrphanExpires
    BY <2>1, Zenon DEF OrphanExpires, run, faults
  <2>2. ASSUME NEW w \in Workers, LockExpires(w) PROVE LockInv'
    BY <2>2, Zenon DEF LockExpires
  <2>3. ASSUME NEW j \in JobIds, StalledCheck(j) \/ RemoveOnComplete(j) PROVE LockInv'
    BY <2>3, Zenon DEF StalledCheck, RemoveOnComplete, run, faults
  <2> QED BY <1>6, <2>1, <2>2, <2>3, Zenon DEF Housekeeping
<1>7. CASE RareEvent
  <2>s. ASSUME NEW e \in RareEvents \ {"pause", "wipe"}, Spend(e)
        PROVE  left'["pause"] = 0 /\ left'["wipe"] = 0
    BY <2>s, Zenon DEF Spend, RareEvents
  <2>1. CASE EnqueueLost \/ PatchEndpoint
    BY <2>1, <2>s, Zenon DEF EnqueueLost, PatchEndpoint, RareEvents, run
  <2>2. CASE RedisWipe
    BY <2>2 DEF RedisWipe, Spend
  <2>3. ASSUME NEW j \in RetryJobs, RetryLost(j) PROVE LockInv'
    BY <2>3, <2>s, Zenon DEF RetryLost, RareEvents, run
  <2>4. ASSUME NEW w \in Workers, WorkerCrash(w) \/ HandlerCrash(w) PROVE LockInv'
    <3>1. Die(w) /\ left'["pause"] = 0 /\ left'["wipe"] = 0
      BY <2>4, <2>s, Zenon DEF WorkerCrash, HandlerCrash, RareEvents
    <3> QED BY <3>1, Zenon DEF Die, Idle
  <2>5. ASSUME NEW w \in Workers, Freeze(w) \/ Thaw(w) PROVE LockInv'
    BY <2>5 DEF Freeze, Thaw, Spend
  <2>6. ASSUME NEW w \in Workers, QueryFails(w) \/ CommitReplyLost(w) PROVE LockInv'
    BY <2>6, <2>s, <1>e, Zenon DEF QueryFails, CommitReplyLost, RareEvents
  <2>7. ASSUME NEW w \in Workers, HandlerQueryFails(w) PROVE LockInv'
    BY <2>7, <2>s, <1>i, Zenon DEF HandlerQueryFails, RareEvents
  <2>8. ASSUME NEW w \in Workers, RenewalLate(w) PROVE LockInv'
    BY <2>8, <2>s, Zenon DEF RenewalLate, RareEvents, run
  <2> QED BY <1>7, <2>1, <2>2, <2>3, <2>4, <2>5, <2>6, <2>7, <2>8, Zenon DEF RareEvent
<1>8. CASE UNCHANGED vars
  BY <1>8 DEF vars, run, faults
<1> QED BY <1>1, <1>3, <1>4, <1>5, <1>6, <1>7, <1>8, Zenon DEF Next

\* As long as no process freezes past its TTL and Redis keeps its data, a run
\* holds the lock from its re-read to its recorded outcome: crashes, failed
\* transactions and stalled jobs do not let a second run in.
THEOREM LockCorrect == NoLockLoss /\ Spec => []LockGuards
<1>1. NoLockLoss /\ Init => TypeOK /\ LockInv
  <2>1. NoLockLoss /\ Init => LockInv
    BY DEF Init, NoLockLoss, LockInv, LockGuards, Working
  <2> QED BY <2>1, InitType, Zenon
<1>2. TypeOK /\ LockInv /\ [Next]_vars => (TypeOK /\ LockInv)'
  BY NextType, LockStep, Zenon
<1>3. LockInv => LockGuards
  BY Zenon DEF LockInv
<1> QED BY <1>1, <1>2, <1>3, PTL DEF Spec
-----------------------------------------------------------------------------
(* Delivered once *)

\* Nor does a transaction fail, or commit without its reply.
NoFault == OneStall /\ Budget["db"] = 0

\* A success closes the delivery: no run past the locked re-read, no failure
\* yet to be counted and no listener sees any status but an open one.
WonInv ==
  /\ left["db"] = 0
  /\ deliveredRows = IF status = "DELIVERED" THEN 1 ELSE 0
  /\ \A w \in Workers : pc[w] \in {"gate", "token"} => fromStatus[w] \in {"PENDING", "FAILED", "DELIVERING"}
  /\ \A w \in Workers : Failing(w) => status = "FAILED"
  /\ \A w \in Workers : pc[w] \in Burying => status = "FAILED"

\* An attempt number that is current is free.
LEMMA CurrentIsFree ==
  ASSUME TypeOK, LedgerInv, SnapshotInv, NEW w \in Workers, pc[w] \in {"gate", "record"}
  PROVE  Unique(attemptNumber[w])
<1>1. attemptNumber[w] = attempt_count + 1 /\ attempt_count \in Nat
  BY DEF SnapshotInv, SnapshotCurrent, TypeOK, LedgerTyped
<1>2. \A a \in attempts : a.number \in 1 .. attempt_count
  BY Zenon DEF LedgerInv, AttemptLedger
<1> QED BY <1>1, <1>2 DEF Unique

\* The status moves along an edge of the state machine or not at all.
LegalStep == status' # status => <<status, status'>> \in Legal

\* A failure yet to be counted has its attempt on record, and a dead letter
\* comes from a listener, which comes from a counted failure.
Modest ==
  /\ \A v \in Workers :
       /\ Failing(v)' => /\ job'[v] = job[v] /\ job[v] \in JobIds
                         /\ Failing(v) \/ attempt_count' = attempt_count + 1
       /\ pc'[v] \in Burying => pc[v] \in Burying \/ (Failing(v) /\ Settle(v))
  /\ status' = "DLQ" => status = "DLQ" \/ \E v \in Workers : pc[v] \in Burying
  /\ Yields({}) \/ \E v \in Workers : Failing(v) /\ Settle(v)

\* What the writer w of the row does: nobody else writes, fails or relies on
\* the row, so its own step decides.
WriterStep(w) ==
  /\ pc[w] \in Writers /\ Yields(Workers) /\ left'["db"] = left["db"] /\ UNCHANGED job
  /\ \A v \in Workers \ {w} : pc'[v] = pc[v] /\ result'[v] = result[v] /\ fromStatus'[v] = fromStatus[v]

\* The steps that read or write the row under the lock, or in the listener.
LEMMA WriterSteps ==
  ASSUME TypeOK, ProtocolTypes, ProtocolInv, NEW w \in Workers,
         getForDelivery(w) \/ CircuitOpen(w) \/ StartDelivering(w) \/ RecordOutcome(w) \/ DlqWrite(w)
  PROVE  WriterStep(w)
<1>1. job[w] \in JobIds \/ ~getForDelivery(w)
  BY Zenon DEF getForDelivery, At, ProtocolInv, OwnerInv, RunLabels
<1>2. UNCHANGED queue \/ (job[w] \in JobIds /\ moveToDelayed(w))
  BY <1>1, Zenon DEF getForDelivery, CircuitOpen, StartDelivering, RecordOutcome, DlqWrite
<1>3. Yields(Workers)
  BY <1>2, QueueYields, Zenon
<1>4. pc[w] \in Writers /\ left' = left /\ UNCHANGED job
  BY Zenon DEF getForDelivery, CircuitOpen, StartDelivering, RecordOutcome, DlqWrite, At, End, Goto, locals, faults,
               Writers, Working, Burying
<1>5. \A v \in Workers \ {w} : pc'[v] = pc[v] /\ result'[v] = result[v] /\ fromStatus'[v] = fromStatus[v]
  BY Zenon DEF getForDelivery, CircuitOpen, StartDelivering, RecordOutcome, DlqWrite, End, Goto, locals, TypeOK,
               RunTyped
<1> QED BY <1>3, <1>4, <1>5, Zenon DEF WriterStep

\* A writer's step is right if it is right about the status and about itself.
LEMMA WriterKeeps ==
  ASSUME ProtocolTypes, ProtocolInv, OneWriter, FailingAlone, WonInv, NEW w \in Workers, WriterStep(w), LegalStep,
         deliveredRows' = IF status' = "DELIVERED" THEN 1 ELSE 0,
         pc'[w] \in {"gate", "token"} => fromStatus'[w] \in {"PENDING", "FAILED", "DELIVERING"},
         Failing(w)' => pc[w] \in Working /\ status' = "FAILED" /\ attempt_count' = attempt_count + 1,
         pc'[w] \notin Burying, status' = "DLQ" => pc[w] \in Burying
  PROVE  WonInv' /\ LegalStep /\ Modest
<1>1. \A v \in Workers : ~Failing(v) /\ (v # w => pc[v] \notin Writers)
  BY Zenon DEF OneWriter, FailingAlone, WriterStep
<1>2. \A v \in Workers : pc[v] \in Leaving => job[v] \in JobIds
  BY Zenon DEF ProtocolInv, OwnerInv, Leaving, RunLabels
<1>3. \A v \in Workers \ {w} : ~Failing(v)'
  BY <1>1, <1>2 DEF WriterStep, Failing, Owns, Yields
<1>4. Failing(w)' => job[w] \in JobIds
  BY Zenon DEF ProtocolInv, OwnerInv, Working, RunLabels
<1>5. \A v \in Workers \ {w} : pc'[v] \notin Writers
  BY <1>1 DEF WriterStep
<1>6. Modest
  BY <1>3, <1>4, <1>5, Zenon DEF Modest, WriterStep, Writers, Yields
<1> QED BY <1>3, <1>5, <1>6, Zenon DEF WonInv, WriterStep, Writers, Working

\* Only an open delivery is written, and along a legal edge.
LEMMA WonStep ==
  ASSUME TypeOK, ProtocolInv, SnapshotInv, LedgerInv, WonInv, [Next]_vars
  PROVE  WonInv' /\ LegalStep /\ Modest
<1>t. ProtocolTypes /\ OneWriter /\ FailingAlone
  BY Typed, ProtocolOneWriter, ProtocolFailingAlone, Zenon
<1>n. ~RedisWipe /\ \A w \in Workers : ~Freeze(w) /\ ~Thaw(w)
  BY DEF RedisWipe, Freeze, Thaw, Spend, ProtocolInv, Calm
<1>d. \A w \in Workers : ~QueryFails(w) /\ ~CommitReplyLost(w) /\ ~HandlerQueryFails(w)
  <2>1. ~Spend("db")
    BY DEF Spend, WonInv
  <2> QED BY <2>1, Zenon DEF QueryFails, CommitReplyLost, HandlerQueryFails
<1>j. \A v \in Workers : pc[v] \in Leaving => job[v] \in JobIds
  BY DEF ProtocolInv, OwnerInv, Leaving, RunLabels
<1>m. Meek => WonInv' /\ LegalStep /\ Modest
  <2>1. Meek => LegalStep /\ Modest
    BY <1>j DEF Meek, Modest, LegalStep, row, Failing
  <2>2. Meek => WonInv'
    BY Zenon DEF Meek, WonInv, row, Relying
  <2> QED BY <2>1, <2>2, Zenon
<1>1. CASE IngestEvent \/ \E j \in RetryJobs : RetryFromDlq(j)
  <2>1. /\ status \in {"none", "DLQ"} /\ status' = "PENDING" /\ deliveredRows' = deliveredRows
        /\ LegalStep /\ UNCHANGED <<pc, job, result, fromStatus, queue, left>>
    BY <1>1, <1>t, Zenon DEF IngestEvent, RetryFromDlq, transition, OneWriter, LegalStep, Legal, run, locals, faults
  <2>2. \A v \in Workers : ~Failing(v)' /\ pc'[v] \notin Writers
    BY <1>t, <2>1, Zenon DEF OneWriter, FailingAlone, Failing, Owns, queue
  <2>3. Yields({})
    BY <2>1, Zenon DEF Yields, queue
  <2> QED BY <2>1, <2>2, <2>3, Zenon DEF WonInv, Modest, Writers, Working
<1>2. ASSUME NEW w \in Workers, getForDelivery(w) PROVE WonInv' /\ LegalStep /\ Modest
  <2>1. /\ UNCHANGED status /\ deliveredRows' = deliveredRows
        /\ \/ pc'[w] = "finally" /\ result'[w] # "throw"
           \/ pc'[w] = "gate" /\ fromStatus'[w] = status /\ ~Terminal(status)
    BY <1>2, Zenon DEF getForDelivery, End, postgres, row, TypeOK, RunTyped
  <2>2. pc[w] \in Writers /\ status \in Statuses \cup {"none"}
    BY <1>2, <1>t, Zenon DEF getForDelivery, At, Writers, Working, ProtocolTypes
  <2>3. ~Failing(w)' /\ pc'[w] \notin Burying
    BY <2>1, Zenon DEF Failing, Leaving, Burying
  <2>4. pc'[w] \in {"gate", "token"} => fromStatus'[w] \in {"PENDING", "FAILED", "DELIVERING"}
    BY <1>t, <2>1, <2>2, Zenon DEF OneWriter, Terminal, Statuses
  <2>5. LegalStep /\ status # "DLQ"
    BY <1>t, <2>1, <2>2, Zenon DEF LegalStep, OneWriter
  <2>6. deliveredRows' = IF status' = "DELIVERED" THEN 1 ELSE 0
    BY <2>1, Zenon DEF WonInv
  <2> QED BY <1>2, <1>t, <2>1, <2>3, <2>4, <2>5, <2>6, WriterSteps, WriterKeeps
<1>3. ASSUME NEW w \in Workers, CircuitOpen(w) \/ RecordOutcome(w) PROVE WonInv' /\ LegalStep /\ Modest
  <2>1. /\ pc[w] \in {"gate", "record"} /\ pc' = [pc EXCEPT ![w] = "finally"]
        /\ \/ /\ recordAttempt(attemptNumber[w], "CIRCUIT_OPEN", fromStatus[w], "FAILED") /\ pc[w] = "gate"
           \/ /\ recordAttempt(attemptNumber[w], result[w], "DELIVERING", ToStatus(result[w])) /\ pc[w] = "record"
              /\ result' = [result EXCEPT ![w] = IF result[w] = "SUCCESS" THEN "return" ELSE "throw"]
    BY <1>3, CurrentIsFree, Zenon DEF CircuitOpen, RecordOutcome, At, End
  <2>2. status \in {"PENDING", "FAILED", "DELIVERING"} /\ (pc[w] = "record" => status = "DELIVERING")
    BY <2>1, Zenon DEF SnapshotInv, SnapshotCurrent, WonInv
  <2>3. /\ attempt_count' = attempt_count + 1 /\ pc'[w] = "finally" /\ LegalStep /\ status' \in {"DELIVERED", "FAILED"}
        /\ result'[w] = "throw" => status' = "FAILED"
    BY <1>t, <2>1, <2>2, Zenon DEF recordAttempt, transition, ToStatus, LegalStep, Legal, ProtocolTypes
  <2>4. deliveredRows' = IF status' = "DELIVERED" THEN 1 ELSE 0
    BY <2>1, <2>2 DEF recordAttempt, transition, ToStatus, WonInv
  <2> QED BY <1>3, <1>t, <2>1, <2>3, <2>4, WriterSteps, WriterKeeps, Zenon DEF Failing, Leaving, Burying, Working
<1>4. ASSUME NEW w \in Workers, StartDelivering(w) PROVE WonInv' /\ LegalStep /\ Modest
  <2>1. /\ status \in {"PENDING", "FAILED", "DELIVERING"} /\ status' = "DELIVERING" /\ deliveredRows' = deliveredRows
        /\ pc'[w] = "sending"
    BY <1>4, Zenon DEF StartDelivering, transition, At, Goto, SnapshotInv, SnapshotCurrent, WonInv, TypeOK, RunTyped
  <2>2. LegalStep /\ ~Failing(w)' /\ pc'[w] \notin Burying /\ deliveredRows' = IF status' = "DELIVERED" THEN 1 ELSE 0
    BY <2>1, Zenon DEF LegalStep, Legal, Failing, Leaving, Burying, WonInv
  <2> QED BY <1>4, <1>t, <2>1, <2>2, WriterSteps, WriterKeeps, Zenon
<1>5. ASSUME NEW w \in Workers, DlqWrite(w) PROVE WonInv' /\ LegalStep /\ Modest
  <2>1. pc[w] \in Burying /\ status = "FAILED" /\ status' = "DLQ" /\ deliveredRows' = deliveredRows /\ pc'[w] = "dlqAdd"
    BY <1>5, Zenon DEF DlqWrite, transition, At, Goto, Burying, WonInv, TypeOK, RunTyped
  <2>2. LegalStep /\ ~Failing(w)' /\ pc'[w] \notin Burying /\ deliveredRows' = IF status' = "DELIVERED" THEN 1 ELSE 0
    BY <2>1, Zenon DEF LegalStep, Legal, Failing, Leaving, Burying, WonInv
  <2> QED BY <1>5, <1>t, <2>1, <2>2, WriterSteps, WriterKeeps, Zenon
<1>6. ASSUME NEW w \in Workers, DlqRead(w) PROVE WonInv' /\ LegalStep /\ Modest
  <2>1. /\ pc[w] \in Burying /\ pc'[w] \in {"idle", "dlqWrite"} /\ UNCHANGED <<row, queue, left>>
        /\ \A v \in Workers \ {w} : /\ pc'[v] = pc[v] /\ result'[v] = result[v] /\ fromStatus'[v] = fromStatus[v]
                                    /\ job'[v] = job[v]
    BY <1>6 DEF DlqRead, At, Idle, Burying, postgres, faults, TypeOK, RunTyped
  <2>2. \A v \in Workers : Failing(v)' => Failing(v) /\ v # w
    BY <2>1, Zenon DEF Failing, Leaving, Owns, queue
  <2>3. Yields({})
    BY <2>1, Zenon DEF Yields, queue
  <2> QED BY <1>j, <2>1, <2>2, <2>3, Zenon DEF WonInv, LegalStep, Modest, row, Failing
<1> QED
  BY <1>t, <1>n, <1>d, <1>m, <1>1, <1>2, <1>3, <1>4, <1>5, <1>6, MeekSteps, Zenon
     DEF Next, ApiStep, RunStep, HandlerStep, RareEvent, AsideStep

\* Every invariant of the engine, where no fault takes the lock or a reply.
LEMMA WonAlways == NoFault /\ Spec => [](TypeOK /\ ProtocolInv /\ SnapshotInv /\ LedgerInv /\ SuccessInv /\ WonInv)
<1>1. NoFault /\ Init => WonInv
  BY DEF NoFault, Init, WonInv, Failing, Leaving, Burying
<1>2. TypeOK /\ ProtocolInv /\ SnapshotInv /\ LedgerInv /\ WonInv /\ [Next]_vars => WonInv'
  BY WonStep
<1>3. NoFault => OneStall
  BY DEF NoFault
<1> QED BY <1>1, <1>2, <1>3, SnapshotAlways, LedgerAlways, SuccessAlways, PTL DEF Spec

\* I1 of scripts/invariants.sql: the delivery is marked DELIVERED at most once,
\* although a job may be run again after its success was recorded.
THEOREM DeliveredOnceCorrect == NoFault /\ Spec => []DeliveredOnce
<1>1. WonInv => DeliveredOnce
  BY DEF WonInv, DeliveredOnce
<1> QED BY <1>1, WonAlways, PTL

\* Although every UPDATE names its row by id only, the status moves along the
\* edges of the documented state machine, and PENDING -> FAILED.
THEOREM LegalCorrect == NoFault /\ Spec => LegalTransitions
<1>1. TypeOK /\ ProtocolInv /\ SnapshotInv /\ LedgerInv /\ WonInv /\ [Next]_vars
        => [status' # status => <<status, status'>> \in Legal]_vars
  BY WonStep DEF LegalStep
<1> QED BY <1>1, WonAlways, PTL DEF Spec, LegalTransitions

\* No request is started once a success is on record.
THEOREM NoDoubleFireCorrect == NoFault /\ Spec => NoDoubleFire
<1>1. ASSUME SnapshotInv, WonInv, SuccessInv, NEW w \in Workers, pc[w] = "token"
      PROVE  Successes = {}
  <2>1. deliveredRows = 0
    BY <1>1, Zenon DEF SnapshotInv, SnapshotCurrent, WonInv
  <2>2. IsFiniteSet(Successes) /\ Cardinality(Successes) = 0
    BY <1>1, <2>1, FS_Subset, Zenon DEF SuccessInv, SuccessBacked, Successes
  <2> QED BY <2>2, FS_EmptySet, Zenon
<1>2. SnapshotInv /\ WonInv /\ SuccessInv /\ [Next]_vars
        => [\A w \in Workers : pc[w] = "token" /\ pc'[w] = "sending" => Successes = {}]_vars
  BY <1>1, Zenon
<1> QED BY <1>2, WonAlways, PTL DEF Spec, NoDoubleFire

-----------------------------------------------------------------------------
(* Dead letters *)

\* BullMQ never counts more failures of a job than there are attempts on
\* record, so a listener that finds the budget spent is right.
SpentInv ==
  /\ \A j \in JobIds : attemptsMade[j] <= attempt_count
  /\ \A w \in Workers : Failing(w) => attemptsMade[job[w]] < attempt_count
  /\ \A w \in Workers : pc[w] \in Burying => MaxAttempts <= attempt_count
  /\ DlqExhausted

\* A failure is counted once, after its attempt was recorded.
LEMMA SpentStep ==
  ASSUME TypeOK, ProtocolInv, SnapshotInv, LedgerInv, WonInv, SpentInv, [Next]_vars
  PROVE  SpentInv'
<1>t. ProtocolTypes /\ OneWriter /\ FailingAlone
  BY Typed, ProtocolOneWriter, ProtocolFailingAlone, Zenon
<1>n. attempt_count \in Nat /\ attempt_count' \in Nat /\ attempt_count <= attempt_count' /\ MaxAttempts \in Nat
      /\ attemptsMade \in [JobIds -> Nat] /\ attemptsMade' \in [JobIds -> Nat]
  BY PostgresStep, NextType, ConstantsAssumption
     DEF TypeOK, LedgerTyped, QueueTyped, MoveStep, RecordStep, recordAttempt, ledger
<1>0. \A v \in Workers : pc[v] \in RunLabels => job[v] \in JobIds
  BY Zenon DEF ProtocolInv, OwnerInv
<1>1. CASE \E w \in Workers : Failing(w) /\ Settle(w)
  <2>1. PICK w \in Workers : Failing(w) /\ Settle(w)
    BY <1>1, Zenon
  <2>2. pc[w] = "settle" /\ job[w] \in JobIds /\ Owns(w) /\ result[w] = "throw"
    BY <1>0, <2>1, Zenon DEF Settle, At, Failing, RunLabels
  <2>3. Fail(w, job[w], FALSE) /\ status' = status /\ attempt_count' = attempt_count
    BY <2>1, <2>2, Zenon DEF Settle, postgres, row, ledger
  <2>4. attemptsMade' = [attemptsMade EXCEPT ![job[w]] = @ + 1] /\ jobOwner' = [jobOwner EXCEPT ![job[w]] = "nobody"]
    BY <2>3, Zenon DEF Fail, Leave
  <2>5. \A j \in JobIds : attemptsMade'[j] <= attempt_count'
    BY <1>n, <2>1, <2>2, <2>3, <2>4 DEF SpentInv
  <2>6. \A v \in Workers : pc'[v] \in Burying => MaxAttempts <= attempt_count'
    BY <1>n, <1>t, <2>1, <2>2, <2>3 DEF Fail, Idle, Exhausted, SpentInv, ProtocolTypes, Burying
  <2>7. \A v \in Workers : ~Failing(v)'
    <3>1. \A v \in Workers \ {w} : ~Failing(v)
      BY <1>0, <2>2, Zenon DEF Failing, Owns, Leaving, RunLabels, ProtocolInv, OneLiveJob
    <3>2. Meek
      BY <1>t, <2>1, MeekSteps, Zenon DEF AsideStep
    <3>3. pc'[w] \notin Leaving
      BY <1>t, <2>3, Zenon DEF Fail, Idle, Leaving, ProtocolTypes
    <3>4. ~Failing(w)'
      BY <3>3, Zenon DEF Failing, Leaving
    <3> QED BY <3>1, <3>2, <3>4, Zenon DEF Meek
  <2> QED BY <2>3, <2>5, <2>6, <2>7, Zenon DEF SpentInv, DlqExhausted
<1>2. CASE ~\E w \in Workers : Failing(w) /\ Settle(w)
  <2>1. Modest
    BY WonStep, Zenon
  <2>2. ASSUME NEW j \in JobIds PROVE attemptsMade'[j] <= attemptsMade[j]
    <3>1. attemptsMade'[j] \in {attemptsMade[j], 0}
      BY <1>2, <2>1, Zenon DEF Modest, Yields
    <3> QED BY <1>n, <3>1
  <2>3. \A j \in JobIds : attemptsMade'[j] <= attempt_count'
    BY <1>n, <2>2 DEF SpentInv
  <2>4. ASSUME NEW v \in Workers, Failing(v)' PROVE attemptsMade'[job'[v]] < attempt_count'
    <3>1. job'[v] = job[v] /\ job[v] \in JobIds /\ (Failing(v) \/ attempt_count' = attempt_count + 1)
      BY <2>1, <2>4, Zenon DEF Modest
    <3>2. attemptsMade[job[v]] <= attempt_count /\ (Failing(v) => attemptsMade[job[v]] < attempt_count)
      BY <3>1, Zenon DEF SpentInv
    <3>3. attemptsMade'[job[v]] <= attemptsMade[job[v]]
      BY <2>2, <3>1, Zenon
    <3> QED BY <1>n, <3>1, <3>2, <3>3
  <2>5. \A v \in Workers : pc'[v] \in Burying => MaxAttempts <= attempt_count'
    BY <1>n, <1>2, <2>1 DEF SpentInv, Modest
  <2>6. DlqExhausted'
    BY <1>n, <2>1 DEF SpentInv, Modest, DlqExhausted
  <2> QED BY <2>3, <2>4, <2>5, <2>6, Zenon DEF SpentInv
<1> QED BY <1>1, <1>2, Zenon

\* Check 3 of scripts/expectation.sql: a dead-lettered delivery has used up its
\* attempts, also when its job stalled after recording one.
THEOREM DlqExhaustedCorrect == NoFault /\ Spec => []DlqExhausted
<1>1. Init => SpentInv
  BY DEF Init, SpentInv, DlqExhausted, Failing, Leaving, Burying
<1>2. /\ TypeOK /\ ProtocolInv /\ SnapshotInv /\ LedgerInv /\ WonInv /\ SpentInv /\ [Next]_vars
      => SpentInv'
  BY SpentStep, Zenon
<1>3. SpentInv => DlqExhausted
  BY DEF SpentInv
<1> QED BY <1>1, <1>2, <1>3, WonAlways, PTL DEF Spec
=============================================================================
