------------------------ MODULE CircuitBreakerProofs ------------------------
(***************************************************************************)
(* Proofs about CircuitBreaker, for any number of slots and any settings.  *)
(***************************************************************************)
EXTENDS CircuitBreaker, FiniteSetTheorems, TLAPS

-----------------------------------------------------------------------------
(* Types *)

\* A breaker without keys and without runs is well typed.
LEMMA InitType == Init => TypeOK
<1> SUFFICES ASSUME Init PROVE TypeOK
  OBVIOUS
<1>1. healthy \in BOOLEAN /\ outlived \in BOOLEAN
  BY Zenon DEF Init
<1> QED BY <1>1, BreakerAssumption DEF Init, TypeOK, Labels

\* Every Redis command and every tick keeps the state well typed.
LEMMA NextType == TypeOK /\ [Next]_vars => TypeOK'
<1> SUFFICES ASSUME TypeOK, [Next]_vars PROVE TypeOK'
  OBVIOUS
<1> USE BreakerAssumption DEF TypeOK, Labels, keys, locals, timing, rare
<1>d. ASSUME NEW w \in Slots, Done(w)
      PROVE  /\ pc' \in [Slots -> Labels]
             /\ state' \in [Slots -> {"none", "closed", "probe"}]
             /\ outcome' \in [Slots -> {"none", "SUCCESS", "FAILURE", "LOCK_LOST"}]
             /\ count' \in [Slots -> Nat] /\ age' \in [Slots -> 0 .. MaxRun]
             /\ outlived' \in BOOLEAN
             /\ \A v \in Slots : pc'[v] \in {"expire", "trip"} => count'[v] > 0
  <2>1. outlived' \in BOOLEAN
    BY <1>d, Zenon DEF Done
  <2> QED BY <1>d, <2>1 DEF Done, Goto
<1>1. ASSUME NEW w \in Slots, CheckState(w) PROVE TypeOK'
  <2>1. CASE CheckOpen(w)
    BY <2>1 DEF CheckOpen, Goto
  <2>2. CASE CheckFails(w)
    BY <2>2 DEF CheckFails, Goto, Passed
  <2>3. CASE Elect(w)
    <3>1. CASE ProbeFree
      BY <2>3, <3>1 DEF Elect, Goto, Passed
    <3>2. CASE ~ProbeFree
      BY <2>3, <3>2, <1>d DEF Elect
    <3> QED BY <3>1, <3>2
  <2> QED BY <1>1, <2>1, <2>2, <2>3 DEF CheckState
<1>2. ASSUME NEW w \in Slots, RateLimited(w) \/ Send(w) \/ Crash(w) PROVE TypeOK'
  <2>1. CASE RateLimited(w)
    BY <2>1, <1>d DEF RateLimited
  <2>2. CASE Send(w)
    BY <2>2 DEF Send, Goto
  <2>3. CASE Crash(w)
    BY <2>3, <1>d DEF Crash
  <2> QED BY <1>2, <2>1, <2>2, <2>3
<1>3. ASSUME NEW w \in Slots, Answer(w) PROVE TypeOK'
  <2>0. UNCHANGED <<keys, healthy, crashes>> /\ lockLosses' \in 0 .. MaxLockLosses
    BY <1>3 DEF Answer
  <2>1. CASE Done(w)
    BY <2>0, <2>1, <1>d
  <2>2. ASSUME NEW o \in {"SUCCESS", "FAILURE", "LOCK_LOST"}, Goto(w, "result"),
               outcome' = [outcome EXCEPT ![w] = o], UNCHANGED <<state, count, timing>>
        PROVE  TypeOK'
    BY <2>0, <2>2 DEF Goto
  <2> QED BY <1>3, <2>1, <2>2 DEF Answer
<1>4. ASSUME NEW w \in Slots, Report(w) PROVE TypeOK'
  <2>1. CASE ProbeOk(w)
    BY <2>1, <1>d DEF ProbeOk
  <2>2. CASE ProbeFailed(w)
    BY <2>2 DEF ProbeFailed, Goto
  <2>3. CASE ClearProbe(w)
    BY <2>3, <1>d DEF ClearProbe
  <2>4. CASE RecordFailure(w)
    BY <2>4 DEF RecordFailure, Goto
  <2>5. CASE Expire(w)
    <3>1. CASE Done(w)
      BY <2>5, <3>1, <1>d DEF Expire
    <3>2. CASE Goto(w, "trip") /\ UNCHANGED <<locals, timing>>
      BY <2>5, <3>2 DEF Expire, Goto
    <3> QED BY <2>5, <3>1, <3>2 DEF Expire
  <2>6. CASE Trip(w)
    BY <2>6, <1>d DEF Trip
  <2> QED BY <1>4, <2>1, <2>2, <2>3, <2>4, <2>5, <2>6 DEF Report
<1>5. CASE Flip
  BY <1>5 DEF Flip
<1>6. CASE Tick
  <2>1. age' \in [Slots -> 0 .. MaxRun]
    BY <1>6 DEF Tick
  <2>2. /\ fails' \in Nat /\ failsTtl' \in 0 .. CB_WINDOW_SECONDS
        /\ openTtl' \in 0 .. CB_OPEN_SECONDS /\ probeTtl' \in 0 .. CB_PROBE_SECONDS
        /\ fails' = 0 => failsTtl' = 0
    BY <1>6 DEF Tick, Left
  <2>3. outlived' \in BOOLEAN
    BY <1>6, Zenon DEF Tick
  <2> QED BY <1>6, <2>1, <2>2, <2>3 DEF Tick
<1>7. CASE UNCHANGED vars
  BY <1>7 DEF vars
<1> QED BY <1>1, <1>2, <1>3, <1>4, <1>5, <1>6, <1>7 DEF Next

\* The keys, their expiries and the runs' locals stay within their domains.
THEOREM TypeCorrect == Spec => []TypeOK
BY InitType, NextType, PTL DEF Spec

-----------------------------------------------------------------------------
(* The election of the probe *)

\* As long as no probe has outlived its key there is one probe, and its key lives
\* exactly as long as the probe is young.  Only a run that probes deletes it.
ProbeInv ==
  /\ ~outlived =>
       /\ OneProbe
       /\ \A w \in Slots :
            Probing(w) => probeTtl > 0 /\ probeTtl + age[w] = CB_PROBE_SECONDS
  /\ \A w \in Slots :
       /\ Probing(w) => pc[w] # "idle"
       /\ pc[w] = "clear" => Probing(w)
       /\ pc[w] \in {"get", "elect"} => ~Probing(w)

\* Every step keeps the probe alone and its key alive, or the key expires under
\* the probe.
LEMMA ProbeStep == TypeOK /\ ProbeInv /\ [Next]_vars => ProbeInv'
<1> SUFFICES ASSUME TypeOK, ProbeInv, [Next]_vars PROVE ProbeInv'
  OBVIOUS
<1>t. /\ pc \in [Slots -> Labels] /\ age \in [Slots -> 0 .. MaxRun]
      /\ state \in [Slots -> {"none", "closed", "probe"}]
      /\ probeTtl \in 0 .. CB_PROBE_SECONDS /\ outlived \in BOOLEAN
      /\ MaxRun \in Nat /\ CB_PROBE_SECONDS \in Nat \ {0}
  BY BreakerAssumption DEF TypeOK
<1> USE <1>t DEF ProbeInv, OneProbe, Probing, Labels, keys, locals, timing
<1>d. ASSUME NEW w \in Slots, Done(w), probeTtl' = probeTtl \/ Probing(w) PROVE ProbeInv'
  BY <1>d DEF Done, Goto
<1>g. ASSUME NEW w \in Slots, NEW l \in {"get", "elect", "sending", "result", "expire", "trip", "clear"},
             Goto(w, l), UNCHANGED <<state, age, probeTtl, outlived>>,
             l = "clear" => Probing(w), l \in {"get", "elect"} => ~Probing(w)
      PROVE  ProbeInv'
  BY <1>g DEF Goto
<1>1. ASSUME NEW w \in Slots, CheckState(w) PROVE ProbeInv'
  <2>1. CASE CheckOpen(w)
    BY <2>1, <1>g DEF CheckOpen
  <2>2. CASE CheckFails(w)
    <3>1. CASE HalfOpen
      BY <2>2, <3>1, <1>g DEF CheckFails
    <3>2. CASE ~HalfOpen
      BY <2>2, <3>2 DEF CheckFails, Passed, Goto
    <3> QED BY <3>1, <3>2
  <2>3. CASE Elect(w)
    <3>1. CASE ProbeFree
      BY <2>3, <3>1 DEF Elect, ProbeFree, Passed, Goto
    <3>2. CASE ~ProbeFree
      BY <2>3, <3>2, <1>d DEF Elect
    <3> QED BY <3>1, <3>2
  <2> QED BY <1>1, <2>1, <2>2, <2>3 DEF CheckState
<1>2. ASSUME NEW w \in Slots, RateLimited(w) \/ Crash(w) PROVE ProbeInv'
  BY <1>2, <1>d DEF RateLimited, Crash
<1>3. ASSUME NEW w \in Slots, Send(w) PROVE ProbeInv'
  BY <1>3, <1>g DEF Send
<1>4. ASSUME NEW w \in Slots, Answer(w) PROVE ProbeInv'
  <2>1. CASE Done(w)
    BY <1>4, <2>1, <1>d DEF Answer
  <2>2. CASE Goto(w, "result") /\ UNCHANGED <<state, timing>>
    BY <1>4, <2>2, <1>g DEF Answer
  <2> QED BY <1>4, <2>1, <2>2 DEF Answer
<1>5. ASSUME NEW w \in Slots, Report(w) PROVE ProbeInv'
  <2>1. CASE ProbeOk(w) \/ ClearProbe(w) \/ Trip(w)
    BY <2>1, <1>d DEF ProbeOk, ClearProbe, Trip
  <2>2. CASE ProbeFailed(w) \/ RecordFailure(w)
    BY <2>2, <1>g DEF ProbeFailed, RecordFailure
  <2>3. CASE Expire(w)
    BY <2>3, <1>d, <1>g DEF Expire
  <2> QED BY <1>5, <2>1, <2>2, <2>3 DEF Report
<1>6. CASE Flip
  BY <1>6 DEF Flip
<1>7. CASE Tick
  <2>1. UNCHANGED <<pc, state>> /\ (~outlived' => ~outlived)
    BY <1>7 DEF Tick
  <2>2. ASSUME ~outlived', NEW w \in Slots, Probing(w)
        PROVE  probeTtl' > 0 /\ probeTtl' + age'[w] = CB_PROBE_SECONDS
    <3>1. probeTtl # 1
      BY <1>7, <2>2, Zenon DEF Tick
    <3>2. probeTtl' = Left(probeTtl) /\ age'[w] = age[w] + 1
      BY <1>7, <2>2 DEF Tick
    <3> QED BY <2>1, <2>2, <3>1, <3>2 DEF Left
  <2> QED BY <2>1, <2>2
<1>8. CASE UNCHANGED vars
  BY <1>8 DEF vars
<1> QED BY <1>1, <1>2, <1>3, <1>4, <1>5, <1>6, <1>7, <1>8 DEF Next

\* For any settings and however long requests take: SET NX elects one probe at
\* a time until a probe outlives its key, and again once nobody probes.
THEOREM ProbeCorrect == Spec => []ProbeAlone
<1>1. Init => TypeOK /\ ProbeInv
  <2>1. Init => ProbeInv
    BY DEF Init, ProbeInv, OneProbe, Probing
  <2> QED BY <2>1, InitType
<1>2. TypeOK /\ ProbeInv /\ [Next]_vars => (TypeOK /\ ProbeInv)'
  BY NextType, ProbeStep
<1>3. ProbeInv => ProbeAlone
  BY DEF ProbeInv, ProbeAlone
<1> QED BY <1>1, <1>2, <1>3, PTL DEF Spec

-----------------------------------------------------------------------------
(* The overshoot of the count *)

\* Runs let through as closed that may still report a failure.
InFlight == {w \in Slots : state[w] = "closed" /\ pc[w] \in {"gate", "sending", "result"}}

\* What is counted and what may still be counted.
OvershootInv == fails + Cardinality(InFlight) < CB_FAIL_THRESHOLD + Cardinality(Slots)

\* The runs the count can still grow by are finitely many.
LEMMA InFlightFinite ==
  /\ IsFiniteSet(Slots) /\ Cardinality(Slots) \in Nat
  /\ IsFiniteSet(InFlight) /\ Cardinality(InFlight) \in Nat
  /\ Cardinality(InFlight) <= Cardinality(Slots)
BY BreakerAssumption, FS_Subset, FS_CardinalityType DEF InFlight

\* Every step keeps the count and the runs in flight below the bound.
LEMMA OvershootStep == TypeOK /\ OvershootInv /\ [Next]_vars => OvershootInv'
<1> SUFFICES ASSUME TypeOK, OvershootInv, [Next]_vars PROVE OvershootInv'
  OBVIOUS
<1>t. /\ fails \in Nat /\ fails' \in Nat /\ CB_FAIL_THRESHOLD \in Nat
      /\ pc \in [Slots -> Labels] /\ state \in [Slots -> {"none", "closed", "probe"}]
  BY NextType, BreakerAssumption DEF TypeOK
<1>f. /\ IsFiniteSet(Slots) /\ Cardinality(Slots) \in Nat
      /\ IsFiniteSet(InFlight) /\ Cardinality(InFlight) \in Nat
      /\ IsFiniteSet(InFlight') /\ Cardinality(InFlight') \in Nat
      /\ Cardinality(InFlight') <= Cardinality(Slots)
  <2>1. InFlight' \subseteq Slots
    BY DEF InFlight
  <2> QED BY <2>1, InFlightFinite, FS_Subset, FS_CardinalityType
<1>s. InFlight' \subseteq InFlight /\ fails' <= fails => OvershootInv'
  BY <1>t, <1>f, FS_Subset DEF OvershootInv
<1>d. ASSUME NEW w \in Slots, Done(w), fails' <= fails PROVE OvershootInv'
  BY <1>d, <1>s, <1>t DEF Done, Goto, InFlight
<1>g. ASSUME NEW w \in Slots, NEW l, Goto(w, l), state' = state, fails' <= fails,
             l \in {"gate", "sending", "result"} => pc[w] \in {"gate", "sending", "result"}
      PROVE  OvershootInv'
  BY <1>g, <1>s, <1>t DEF Goto, InFlight
<1> USE DEF keys, locals
<1>1. ASSUME NEW w \in Slots, CheckState(w) PROVE OvershootInv'
  <2>1. CASE CheckOpen(w)
    BY <2>1, <1>g, <1>t DEF CheckOpen
  <2>2. CASE CheckFails(w)
    <3>1. CASE HalfOpen
      BY <2>2, <3>1, <1>g, <1>t DEF CheckFails
    <3>2. CASE ~HalfOpen
      BY <2>2, <3>2, <1>t, <1>f DEF CheckFails, HalfOpen, OvershootInv
    <3> QED BY <3>1, <3>2
  <2>3. CASE Elect(w)
    <3>1. CASE ProbeFree
      <4>1. InFlight' \subseteq InFlight
        BY <2>3, <3>1, <1>t DEF Elect, Passed, Goto, InFlight
      <4> QED BY <2>3, <4>1, <1>s, <1>t DEF Elect
    <3>2. CASE ~ProbeFree
      BY <2>3, <3>2, <1>d, <1>t DEF Elect
    <3> QED BY <3>1, <3>2
  <2> QED BY <1>1, <2>1, <2>2, <2>3 DEF CheckState
<1>2. ASSUME NEW w \in Slots, RateLimited(w) \/ Crash(w) PROVE OvershootInv'
  BY <1>2, <1>d, <1>t DEF RateLimited, Crash
<1>3. ASSUME NEW w \in Slots, Send(w) PROVE OvershootInv'
  BY <1>3, <1>g, <1>t DEF Send
<1>4. ASSUME NEW w \in Slots, Answer(w) PROVE OvershootInv'
  <2>1. pc[w] = "sending" /\ fails' = fails
    BY <1>4 DEF Answer
  <2>2. CASE Done(w)
    BY <2>1, <2>2, <1>d, <1>t
  <2>3. CASE Goto(w, "result") /\ state' = state
    BY <2>1, <2>3, <1>g, <1>t
  <2> QED BY <1>4, <2>2, <2>3 DEF Answer
<1>5. ASSUME NEW w \in Slots, Report(w) PROVE OvershootInv'
  <2>1. CASE ProbeOk(w) \/ ClearProbe(w) \/ Trip(w)
    BY <2>1, <1>d, <1>t DEF ProbeOk, ClearProbe, Trip
  <2>2. CASE ProbeFailed(w)
    BY <2>2, <1>g, <1>t DEF ProbeFailed
  <2>3. CASE RecordFailure(w)
    <3>1. w \in InFlight /\ InFlight' = InFlight \ {w}
      BY <2>3, <1>t DEF RecordFailure, Goto, InFlight
    <3>2. Cardinality(InFlight') = Cardinality(InFlight) - 1
      BY <3>1, <1>f, FS_RemoveElement
    <3> QED BY <2>3, <3>2, <1>t, <1>f DEF RecordFailure, OvershootInv
  <2>4. CASE Expire(w)
    BY <2>4, <1>d, <1>g, <1>t DEF Expire
  <2> QED BY <1>5, <2>1, <2>2, <2>3, <2>4 DEF Report
<1>6. CASE Flip
  BY <1>6, <1>s, <1>t DEF Flip, InFlight
<1>7. CASE Tick
  BY <1>7, <1>s, <1>t DEF Tick, InFlight
<1>8. CASE UNCHANGED vars
  BY <1>8, <1>s, <1>t DEF vars, InFlight
<1> QED BY <1>1, <1>2, <1>3, <1>4, <1>5, <1>6, <1>7, <1>8 DEF Next

\* Past the threshold the endpoint takes at most one more failure per slot.
THEOREM OvershootCorrect == Spec => []OvershootBounded
<1>1. Init => TypeOK /\ OvershootInv
  <2> SUFFICES ASSUME Init PROVE OvershootInv
    BY InitType
  <2>1. fails = 0 /\ InFlight = {}
    BY DEF Init, InFlight
  <2> QED BY <2>1, InFlightFinite, FS_EmptySet, BreakerAssumption DEF OvershootInv
<1>2. TypeOK /\ OvershootInv /\ [Next]_vars => (TypeOK /\ OvershootInv)'
  BY NextType, OvershootStep
<1>3. TypeOK /\ OvershootInv => OvershootBounded
  BY InFlightFinite, BreakerAssumption DEF OvershootInv, OvershootBounded, TypeOK
<1> QED BY <1>1, <1>2, <1>3, PTL DEF Spec
=============================================================================
