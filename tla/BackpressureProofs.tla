------------------------- MODULE BackpressureProofs -------------------------
(***************************************************************************)
(* SingleFlight and VerdictInTime for every set of requests, every limit,  *)
(* lifetime and reply delay.  The inductive invariant Sampled relates the  *)
(* age of a count to the history of the queue it was taken from.           *)
(***************************************************************************)
EXTENDS Backpressure, TLAPS

\* A count of this age tells on which side of the limit the queue then was.
Tells(value, age) ==
  /\ Overloaded(value) => sinceHigh <= age
  /\ ~Overloaded(value) => sinceLow <= age

Sampled ==
  /\ Tells(depth, 0)
  /\ \A c \in Calls : call[c].at = "sampled" => Tells(call[c].value, call[c].age)
  /\ Fresh => Tells(cached.value, cached.age) /\ cached.age + cached.left <= Window

Inv == TypeOK /\ SingleFlight /\ Sampled

USE GateAssumption, NoCallAssumption

\* The window of a verdict is longer than a call may take.
LEMMA WindowNat == Window \in Nat /\ Window > ReplyTicks
BY DEF Window

\* Nothing is cached and nothing is under way at the start.
LEMMA InitInv == Init => Inv
BY WindowNat DEF Init, Inv, TypeOK, SingleFlight, Sampled, Tells, Overloaded, Fresh, NoValue, Idle, NoCall, Value, Call

\* Types are preserved, one action at a time.
LEMMA TypeStep == TypeOK /\ [Next]_vars => TypeOK'
<1> SUFFICES ASSUME TypeOK, [Next]_vars PROVE TypeOK'
  OBVIOUS
<1> USE WindowNat DEF TypeOK
<1>1. ASSUME NEW r \in Requests, Hit(r) PROVE TypeOK'
  BY <1>1 DEF Hit, Verdict, memo, history
<1>2. ASSUME NEW r \in Requests, Join(r) PROVE TypeOK'
  BY <1>2 DEF Join, Await, memo, history
<1>3. ASSUME NEW r \in Requests, NEW c \in Calls, Start(r, c) PROVE TypeOK'
  BY <1>3 DEF Start, Await, Call, history
<1>4. ASSUME NEW r \in Requests, Finish(r) PROVE TypeOK'
  BY <1>4 DEF Finish, DepthBecomes, memo
<1>5. ASSUME NEW r \in Requests, Refused(r) PROVE TypeOK'
  BY <1>5 DEF Refused, memo, history
<1>6. ASSUME NEW c \in Calls, Sample(c) PROVE TypeOK'
  BY <1>6 DEF Sample, Call, history
<1>7. ASSUME NEW c \in Calls, Resolve(c) PROVE TypeOK'
  <2>1. call[c] \in Call /\ Idle \in Call
    BY DEF Call, Idle
  <2>2. cached' \in Value /\ (cached' # NoValue => cached'.left > 0)
    BY <1>7, <2>1 DEF Resolve, Value, Call
  <2> QED
    BY <1>7, <2>1, <2>2 DEF Resolve, Settle, Verdict, history
<1>8. ASSUME NEW c \in Calls, Reject(c) PROVE TypeOK'
  BY <1>8 DEF Reject, Settle, Call, Idle, history
<1>9. CASE QueueMoves
  BY <1>9 DEF QueueMoves, DepthBecomes, memo
<1>10. CASE Tick
  <2>1. cached' \in Value /\ (cached' # NoValue => cached'.left > 0)
    <3>1. CASE cached.left > 1
      <4>1. cached' = [value |-> cached.value, left |-> cached.left - 1, age |-> cached.age + 1]
        BY <1>10, <3>1 DEF Tick, Elapse, Value
      <4> QED
        BY <3>1, <4>1 DEF Value
    <3>2. CASE ~(cached.left > 1)
      BY <1>10, <3>2 DEF Tick, Elapse, Value, NoValue
    <3> QED
      BY <3>1, <3>2
  <2>2. call' \in [Calls -> Call]
    BY <1>10 DEF Tick, Call
  <2>3. sinceLow' \in 0 .. Window /\ sinceHigh' \in 0 .. Window
    BY <1>10 DEF Tick, Older
  <2> QED
    BY <1>10, <2>1, <2>2, <2>3 DEF Tick
<1>11. CASE UNCHANGED vars
  BY <1>11 DEF vars, memo, history
<1> QED
  BY <1>1, <1>2, <1>3, <1>4, <1>5, <1>6, <1>7, <1>8, <1>9, <1>10, <1>11 DEF Next, isOverloaded

\* At most one call in flight: only Start makes one, when none is pending.
LEMMA SingleFlightStep == TypeOK /\ SingleFlight /\ [Next]_vars => SingleFlight'
<1> SUFFICES ASSUME TypeOK, SingleFlight, [Next]_vars PROVE SingleFlight'
  OBVIOUS
<1> USE DEF TypeOK, SingleFlight
<1>1. ASSUME NEW r \in Requests, isOverloaded(r) PROVE SingleFlight'
  <2>1. CASE Hit(r)
    BY <2>1 DEF Hit, Verdict, memo
  <2>2. CASE Join(r)
    BY <2>2 DEF Join, Await, memo
  <2>3. ASSUME NEW c \in Calls, Start(r, c) PROVE SingleFlight'
    BY <2>3 DEF Start, MustCall, Await, Call
  <2> QED
    BY <1>1, <2>1, <2>2, <2>3 DEF isOverloaded
<1>2. ASSUME NEW r \in Requests, Finish(r) \/ Refused(r) PROVE SingleFlight'
  BY <1>2 DEF Finish, Refused, memo
<1>3. ASSUME NEW c \in Calls, Sample(c) PROVE SingleFlight'
  BY <1>3 DEF Sample, Call
<1>4. ASSUME NEW c \in Calls, Resolve(c) \/ Reject(c) PROVE SingleFlight'
  BY <1>4 DEF Resolve, Reject, Settle, Verdict, Idle, Call
<1>5. CASE QueueMoves
  BY <1>5 DEF QueueMoves, memo
<1>6. CASE Tick
  BY <1>6 DEF Tick, Call
<1>7. CASE UNCHANGED vars
  BY <1>7 DEF vars, memo
<1> QED
  BY <1>1, <1>2, <1>3, <1>4, <1>5, <1>6, <1>7 DEF Next

\* A count grows older exactly as fast as the history it tells of.
LEMMA SampledStep == TypeOK /\ Sampled /\ [Next]_vars => Sampled'
<1> SUFFICES ASSUME TypeOK, Sampled, [Next]_vars PROVE Sampled'
  OBVIOUS
<1> USE WindowNat DEF TypeOK, Sampled, Tells, Fresh, Overloaded
<1>1. ASSUME NEW r \in Requests, Hit(r) \/ Join(r) \/ Refused(r) PROVE Sampled'
  BY <1>1 DEF Hit, Join, Refused, memo, history
<1>2. ASSUME NEW r \in Requests, NEW c \in Calls, Start(r, c) PROVE Sampled'
  BY <1>2 DEF Start, Call, history
<1>3. ASSUME NEW n \in 0 .. MaxDepth, DepthBecomes(n), UNCHANGED memo PROVE Sampled'
  BY <1>3 DEF DepthBecomes, memo, Value, Call
<1>4. ASSUME NEW c \in Calls, Sample(c) PROVE Sampled'
  BY <1>4 DEF Sample, Call, history
<1>5. ASSUME NEW c \in Calls, Resolve(c) PROVE Sampled'
  BY <1>5 DEF Resolve, Settle, Idle, Value, Call, Window, history
<1>6. ASSUME NEW c \in Calls, Reject(c) PROVE Sampled'
  BY <1>6 DEF Reject, Settle, Idle, Call, history
<1>7. CASE Tick
  <2>1. ASSUME NEW c \in Calls, call'[c].at = "sampled" PROVE Tells(call[c].value, call[c].age)'
    BY <1>7, <2>1 DEF Tick, Older, Call
  <2>2. CASE cached.left > 1
    <3>1. cached' = [value |-> cached.value, left |-> cached.left - 1, age |-> cached.age + 1]
      BY <1>7, <2>2 DEF Tick, Elapse, Value
    <3> QED
      BY <1>7, <2>1, <2>2, <3>1 DEF Tick, Older, Value
  <2>3. CASE ~(cached.left > 1)
    BY <1>7, <2>1, <2>3 DEF Tick, Elapse, NoValue
  <2> QED
    BY <2>2, <2>3
<1>8. CASE UNCHANGED vars
  BY <1>8 DEF vars, memo, history
<1> QED
  BY <1>1, <1>2, <1>3, <1>4, <1>5, <1>6, <1>7, <1>8 DEF Next, isOverloaded, Finish, QueueMoves, DepthBecomes

\* The inductive invariant holds in every reachable state.
THEOREM InvHolds == Spec => []Inv
<1>1. Inv /\ [Next]_vars => Inv'
  BY TypeStep, SingleFlightStep, SampledStep DEF Inv
<1> QED
  BY InitInv, <1>1, PTL DEF Spec

\* However many requests miss the cache together, one call of getJobCounts is
\* in flight, and all of them await that one (memoTtl's pending).
THEOREM SingleFlightHolds == Spec => []SingleFlight
BY InvHolds, PTL DEF Inv

\* What one step may do to a request, given the invariant: an admission or a
\* 429 rests on a count not older than Window.
LEMMA VerdictStep ==
  ASSUME Inv, [Next]_vars, NEW r \in Requests, pc[r] # pc'[r]
  PROVE  /\ pc'[r] = "admitted" => sinceLow < Window
         /\ pc'[r] = "shed" => sinceHigh < Window
<1> USE WindowNat DEF Inv, TypeOK
<1>1. ASSUME NEW q \in Requests, Hit(q)
      PROVE  /\ pc'[r] = "admitted" => sinceLow < Window
             /\ pc'[r] = "shed" => sinceHigh < Window
  BY <1>1 DEF Hit, Verdict, Sampled, Tells, Fresh, Value
<1>2. ASSUME NEW c \in Calls, Resolve(c)
      PROVE  /\ pc'[r] = "admitted" => sinceLow < Window
             /\ pc'[r] = "shed" => sinceHigh < Window
  BY <1>2 DEF Resolve, Settle, Verdict, Sampled, Tells, Call
<1>3. ASSUME NEW c \in Calls, Sample(c) \/ Reject(c) PROVE pc'[r] \notin {"admitted", "shed"}
  BY <1>3 DEF Sample, Reject, Settle
<1>4. ASSUME NEW q \in Requests, Join(q) \/ (\E c \in Calls : Start(q, c)) \/ Finish(q) \/ Refused(q)
      PROVE  pc'[r] \notin {"admitted", "shed"}
  BY <1>4 DEF Join, Start, Await, Finish, Refused
<1>5. ~(QueueMoves \/ Tick \/ UNCHANGED vars)
  BY DEF QueueMoves, Tick, vars
<1> QED
  BY <1>1, <1>2, <1>3, <1>4, <1>5 DEF Next, isOverloaded

\* No request is admitted, and none answered 429, on a count older than the
\* cache's lifetime and a reply's delay (isOverloaded over memoTtl).
THEOREM VerdictInTimeHolds == Spec => VerdictInTime
<1>1. Inv /\ [Next]_vars =>
        [\A r \in Requests : pc[r] # pc'[r] =>
           /\ pc'[r] = "admitted" => sinceLow < Window
           /\ pc'[r] = "shed" => sinceHigh < Window]_vars
  BY VerdictStep
<1> QED
  BY InvHolds, <1>1, PTL DEF Spec, VerdictInTime
=============================================================================
