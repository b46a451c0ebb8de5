------------------------- MODULE TokenBucketProofs --------------------------
(***************************************************************************)
(* Proofs about TokenBucket, for any number of slots and any cap.          *)
(***************************************************************************)
EXTENDS TokenBucket, FiniteSetTheorems, TLAPS

\* The state Redis and the workers start in is well typed.
LEMMA InitType == Init => TypeOK
<1> SUFFICES ASSUME Init PROVE TypeOK
  OBVIOUS
<1>1. exists \in BOOLEAN /\ unclamped \in BOOLEAN
  BY Zenon DEF Init
<1> QED BY <1>1, BucketAssumption DEF Init, TypeOK, Labels

\* Every command keeps the state well typed.
LEMMA NextType == TypeOK /\ [Next]_vars => TypeOK'
<1> SUFFICES ASSUME TypeOK, [Next]_vars PROVE TypeOK'
  OBVIOUS
<1> USE BucketAssumption DEF TypeOK, Labels
<1>b. exists' \in BOOLEAN /\ unclamped' \in BOOLEAN
  BY Zenon DEF TypeOK, Next, Return, tryAcquire, Refused, Release, Clamp, Expire, Crash,
               Wipe, Tick, Remember, vars
<1> USE <1>b
<1>1. ASSUME NEW w \in Slots, tryAcquire(w) \/ Refused(w) PROVE TypeOK'
  BY <1>1 DEF tryAcquire, Refused, Granted, Taken, Available, Move, vars
<1>2. ASSUME NEW w \in Slots, Return(w) PROVE TypeOK'
  <2>1. CASE Release(w)
    BY <2>1 DEF Release, Move
  <2>2. CASE Clamp(w)
    BY <2>2 DEF Clamp, Move
  <2>3. CASE Expire(w)
    BY <2>3 DEF Expire, Done
  <2> QED BY <1>2, <2>1, <2>2, <2>3 DEF Return
<1>3. ASSUME NEW w \in Slots, Crash(w) PROVE TypeOK'
  BY <1>3 DEF Crash, Done
<1>4. CASE Wipe
  BY <1>4 DEF Wipe
<1>5. CASE Tick
  <2>1. age' \in [Slots -> 0 .. MaxHold]
    BY <1>5 DEF Tick
  <2> QED BY <1>5, <2>1 DEF Tick
<1>6. CASE UNCHANGED vars
  BY <1>6 DEF vars
<1> QED BY <1>1, <1>2, <1>3, <1>4, <1>5, <1>6 DEF Next

\* The count never goes below zero and the expiry never beyond its setting.
THEOREM TypeCorrect == Spec => []TypeOK
BY InitType, NextType, PTL DEF Spec

-----------------------------------------------------------------------------
(* Conservation of tokens *)

\* Before the first wipe: while a run is at it, the key is there and has as
\* many ticks left as the run is young; without the key nothing is lost.
KeyInv ==
  wipes = 0 =>
    /\ \A w \in Slots :
         pc[w] # "idle" => exists /\ ttl > 0 /\ ttl + age[w] >= RL_TTL_SECONDS
    /\ ~exists => lost = 0 /\ ttl = 0
    /\ exists => ttl > 0

\* Every command keeps the key alive for the runs that hold from it.
LEMMA KeyStep ==
  ASSUME MaxHold < RL_TTL_SECONDS
  PROVE  TypeOK /\ KeyInv /\ [Next]_vars => KeyInv'
<1> SUFFICES ASSUME TypeOK, KeyInv, [Next]_vars, wipes' = 0 PROVE KeyInv'
  BY DEF KeyInv
<1>t. /\ MaxHold \in Nat /\ RL_TTL_SECONDS \in Nat /\ ttl \in Nat /\ wipes \in Nat
      /\ pc \in [Slots -> Labels] /\ age \in [Slots -> 0 .. MaxHold] /\ RL_TTL_SECONDS > 0
  BY BucketAssumption DEF TypeOK
<1>w. wipes = 0
  BY <1>t DEF Next, tryAcquire, Refused, Return, Release, Clamp, Expire, Crash, Wipe, Tick, vars
<1> USE <1>t DEF KeyInv, Labels
<1>1. ASSUME NEW w \in Slots, tryAcquire(w) \/ Refused(w) PROVE KeyInv'
  BY <1>1 DEF tryAcquire, Refused, Move, vars
<1>2. ASSUME NEW w \in Slots, Return(w) PROVE KeyInv'
  BY <1>2 DEF Return, Release, Clamp, Expire, Move, Done
<1>3. ASSUME NEW w \in Slots, Crash(w) PROVE KeyInv'
  BY <1>3 DEF Crash, Done
<1>4. CASE Wipe
  BY <1>4 DEF Wipe
<1>5. CASE Tick
  <2>1. ASSUME NEW w \in Slots, pc[w] # "idle"
        PROVE  ttl > 1 /\ ttl' + age'[w] >= RL_TTL_SECONDS
    BY <1>5, <2>1 DEF Tick
  <2>2. (~exists)' => lost' = 0 /\ ttl' = 0
    <3>1. CASE ttl = 1
      BY <1>5, <3>1 DEF Tick
    <3>2. CASE ttl # 1
      <4>1. exists' <=> exists
        BY <1>5, <3>2, Zenon DEF Tick
      <4> QED BY <1>5, <1>w, <3>2, <4>1 DEF Tick
    <3> QED BY <3>1, <3>2
  <2>3. exists' => ttl' > 0
    <3>1. exists' => exists /\ ttl # 1
      BY <1>5, Zenon DEF Tick
    <3> QED BY <1>5, <1>w, <3>1 DEF Tick
  <2> QED BY <1>5, <2>1, <2>2, <2>3 DEF Tick
<1>6. CASE UNCHANGED vars
  BY <1>6 DEF vars
<1> QED BY <1>1, <1>2, <1>3, <1>4, <1>5, <1>6 DEF Next

\* The runs that hold a token are finitely many.
LEMMA HoldingFinite == IsFiniteSet(Holding) /\ Cardinality(Holding) \in Nat
BY BucketAssumption, FS_Subset, FS_CardinalityType DEF Holding

\* Before the first wipe no return ever finds the count over the cap.
BucketInv == Conservation /\ (wipes = 0 => \A w \in Slots : pc[w] # "clamp")

\* Every command keeps the balance of tokens.
LEMMA BucketStep ==
  ASSUME MaxHold < RL_TTL_SECONDS
  PROVE  TypeOK /\ KeyInv /\ BucketInv /\ [Next]_vars => BucketInv'
<1> SUFFICES ASSUME TypeOK, KeyInv, BucketInv, [Next]_vars, wipes' = 0 PROVE BucketInv'
  BY DEF BucketInv, Conservation
<1>t. /\ RL_MAX_INFLIGHT \in Nat /\ tokens \in Nat /\ lost \in Nat /\ wipes \in Nat
      /\ exists \in BOOLEAN /\ pc \in [Slots -> Labels]
  BY BucketAssumption DEF TypeOK
<1>f. IsFiniteSet(Holding) /\ Cardinality(Holding) \in Nat
  BY HoldingFinite
<1>w. wipes = 0
  BY <1>t DEF Next, tryAcquire, Refused, Return, Release, Clamp, Expire, Crash, Wipe, Tick, vars
<1>c. \A w \in Slots : pc[w] # "clamp"
  BY <1>w DEF BucketInv
<1>b. Available + Cardinality(Holding) + lost = RL_MAX_INFLIGHT
  BY <1>w DEF BucketInv, Conservation
<1>q. ASSUME Holding' = Holding, Available' = Available, lost' = lost,
             \A w \in Slots : pc'[w] # "clamp"
      PROVE  BucketInv'
  BY <1>q, <1>b DEF BucketInv, Conservation
<1> USE <1>t, <1>f DEF Labels
<1>1. ASSUME NEW w \in Slots, tryAcquire(w) PROVE BucketInv'
  <2>1. w \notin Holding /\ Holding' = Holding \cup {w}
    BY <1>1 DEF tryAcquire, Move, Holding
  <2>2. Cardinality(Holding') = Cardinality(Holding) + 1
    BY <2>1, FS_AddElement
  <2>3. \A v \in Slots : pc'[v] # "clamp"
    BY <1>1, <1>c DEF tryAcquire, Move
  <2> QED BY <1>1, <1>b, <2>2, <2>3 DEF tryAcquire, Taken, Available, BucketInv, Conservation
<1>2. ASSUME NEW w \in Slots, Release(w) PROVE BucketInv'
  <2>1. w \in Holding /\ Holding' = Holding \ {w}
    BY <1>2 DEF Release, Move, Holding
  <2>2. Cardinality(Holding') = Cardinality(Holding) - 1 /\ Cardinality(Holding) > 0
    BY <2>1, FS_RemoveElement, FS_EmptySet
  <2>3. exists /\ tokens' = tokens + 1 /\ exists'
    BY <1>2, <1>w DEF Release, KeyInv
  <2>4. ~OverCap(tokens')
    BY <1>b, <2>2, <2>3 DEF OverCap, Available
  <2>5. \A v \in Slots : pc'[v] # "clamp"
    BY <1>2, <1>c, <2>4 DEF Release, Move
  <2> QED BY <1>2, <1>b, <2>2, <2>3, <2>5 DEF Release, Available, BucketInv, Conservation
<1>3. ASSUME NEW w \in Slots, Clamp(w) PROVE BucketInv'
  BY <1>3, <1>c DEF Clamp
<1>4. ASSUME NEW w \in Slots, Expire(w) PROVE BucketInv'
  <2>1. Holding' = Holding
    BY <1>4 DEF Expire, Done, Holding
  <2> QED BY <1>4, <2>1, <1>c, <1>q DEF Expire, Done, Available
<1>5. ASSUME NEW w \in Slots, Crash(w) PROVE BucketInv'
  <2>1. CASE pc[w] = "holding"
    <3>1. w \in Holding /\ Holding' = Holding \ {w}
      BY <1>5, <2>1 DEF Crash, Done, Holding
    <3>2. Cardinality(Holding') = Cardinality(Holding) - 1
      BY <3>1, FS_RemoveElement
    <3>3. \A v \in Slots : pc'[v] # "clamp"
      BY <1>5, <1>c DEF Crash, Done
    <3> QED BY <1>5, <1>b, <2>1, <3>2, <3>3 DEF Crash, Available, BucketInv, Conservation
  <2>2. CASE pc[w] # "holding"
    <3>1. Holding' = Holding
      BY <1>5, <2>2 DEF Crash, Done, Holding
    <3> QED BY <1>5, <2>2, <3>1, <1>c, <1>q DEF Crash, Done, Available
  <2> QED BY <2>1, <2>2
<1>6. CASE Wipe
  BY <1>6 DEF Wipe
<1>7. CASE Tick
  <2>1. Holding' = Holding
    BY <1>7 DEF Tick, Holding
  <2>2. CASE ttl = 1
    <3>1. ASSUME NEW w \in Slots PROVE pc[w] = "idle"
      BY <1>7, <2>2, <1>w, BucketAssumption DEF Tick, KeyInv, TypeOK
    <3>1a. Holding = {}
      BY <3>1 DEF Holding
    <3>2. Cardinality(Holding') = 0
      BY <2>1, <3>1a, FS_EmptySet
    <3>3. ~exists' /\ lost' = 0 /\ pc' = pc
      BY <1>7, <2>2, Zenon DEF Tick
    <3> QED BY <1>c, <3>2, <3>3 DEF Available, BucketInv, Conservation
  <2>3. CASE ttl # 1
    BY <1>7, <2>1, <2>3, <1>c, <1>q DEF Tick, Available
  <2> QED BY <2>2, <2>3
<1>8. CASE UNCHANGED vars
  <2>1. Holding' = Holding
    BY <1>8 DEF vars, Holding
  <2> QED BY <1>8, <2>1, <1>c, <1>q DEF vars, Available
<1>9. ASSUME NEW w \in Slots, Refused(w) PROVE BucketInv'
  BY <1>8, <1>9 DEF Refused
<1> QED BY <1>1, <1>2, <1>3, <1>4, <1>5, <1>6, <1>7, <1>8, <1>9 DEF Next, Return

\* Before the first wipe every token is in the key, held by a run, or lost with
\* a dead one, for any number of slots and any cap, provided that a run ends
\* before the key it took its token from expires (release, tryAcquire).
THEOREM ConservationCorrect ==
  ASSUME MaxHold < RL_TTL_SECONDS
  PROVE  Spec => []Conservation
<1>1. Init => KeyInv /\ BucketInv
  <2>1. Init => Holding = {}
    BY DEF Init, Holding
  <2> QED BY <2>1, FS_EmptySet, BucketAssumption
          DEF Init, KeyInv, BucketInv, Conservation, Available
<1>2. TypeOK /\ KeyInv /\ BucketInv /\ [Next]_vars => KeyInv' /\ BucketInv'
  BY KeyStep, BucketStep
<1>3. BucketInv => Conservation
  BY DEF BucketInv
<1> QED BY <1>1, <1>2, <1>3, TypeCorrect, PTL DEF Spec

-----------------------------------------------------------------------------
(* The count over the cap *)

\* Every command leaves the count within the cap or a run about to clamp it.
LEMMA OverCapStep == TypeOK /\ OverCapIsTransient /\ [Next]_vars => OverCapIsTransient'
<1> SUFFICES ASSUME TypeOK, OverCapIsTransient, [Next]_vars PROVE OverCapIsTransient'
  OBVIOUS
<1> USE BucketAssumption DEF TypeOK, Labels, OverCapIsTransient
<1>1. ASSUME NEW w \in Slots, tryAcquire(w) PROVE OverCapIsTransient'
  <2>1. tokens' > RL_MAX_INFLIGHT => tokens > RL_MAX_INFLIGHT
    BY <1>1 DEF tryAcquire, Taken, Available
  <2>2. \A v \in Slots : pc[v] = "clamp" => pc'[v] = "clamp"
    BY <1>1 DEF tryAcquire, Move
  <2> QED BY <1>1, <2>1, <2>2 DEF tryAcquire, Remember
<1>2. ASSUME NEW w \in Slots, Release(w) PROVE OverCapIsTransient'
  <2>1. pc' = [pc EXCEPT ![w] = IF OverCap(tokens') THEN "clamp" ELSE "expire"]
    BY <1>2 DEF Release, Move
  <2>2. CASE OverCap(tokens')
    BY <2>1, <2>2
  <2>3. CASE ~OverCap(tokens')
    BY <2>3 DEF OverCap
  <2> QED BY <2>2, <2>3
<1>3. ASSUME NEW w \in Slots, Clamp(w) PROVE OverCapIsTransient'
  BY <1>3 DEF Clamp
<1>4. ASSUME NEW w \in Slots, Expire(w) PROVE OverCapIsTransient'
  BY <1>4 DEF Expire, Done
<1>5. ASSUME NEW w \in Slots, Crash(w) PROVE OverCapIsTransient'
  <2>1. CASE pc[w] = "clamp"
    BY <1>5, <2>1 DEF Crash
  <2>2. CASE pc[w] # "clamp"
    BY <1>5, <2>2 DEF Crash, Done
  <2> QED BY <2>1, <2>2
<1>6. CASE Wipe
  BY <1>6 DEF Wipe
<1>7. CASE Tick
  <2>1. tokens' > RL_MAX_INFLIGHT => tokens > RL_MAX_INFLIGHT
    BY <1>7 DEF Tick
  <2> QED BY <1>7, <2>1 DEF Tick, Remember
<1>8. CASE UNCHANGED vars \/ \E w \in Slots : Refused(w)
  BY <1>8 DEF vars, Refused
<1> QED BY <1>1, <1>2, <1>3, <1>4, <1>5, <1>6, <1>7, <1>8 DEF Next, Return

\* Also after any number of wipes the key holds more than the cap only while a
\* run is about to clamp it, or because a run died there and nothing has brought
\* the count back since (release).
THEOREM OverCapCorrect == Spec => []OverCapIsTransient
<1>1. Init => OverCapIsTransient
  BY BucketAssumption DEF Init, OverCapIsTransient
<1> QED BY <1>1, OverCapStep, TypeCorrect, PTL DEF Spec
=============================================================================
