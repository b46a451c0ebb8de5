--------------------------- MODULE CircuitBreaker ---------------------------
(***************************************************************************)
(* The breaker of one endpoint: the Redis keys :fails, :open and :probe,   *)
(* and the runs of processDelivery that read and write them.  Every Redis  *)
(* command is a step.  Time is counted in ticks; a key's TTL is the number *)
(* of ticks it has left.                                                   *)
(***************************************************************************)
EXTENDS Integers, FiniteSets

CONSTANTS
  Slots,              \* worker slots that run deliveries of the endpoint
  CB_FAIL_THRESHOLD, CB_WINDOW_SECONDS, CB_OPEN_SECONDS, CB_PROBE_SECONDS,
  MaxRun,             \* a bound on the ticks from the breaker's answer to the
                      \* run's last word; the code has none (see README)
  MaxCrashes,         \* how many slots may die inside a run
  MaxLockLosses       \* how many requests may lose their lock

ASSUME BreakerAssumption ==
  /\ {CB_FAIL_THRESHOLD, CB_WINDOW_SECONDS, CB_OPEN_SECONDS, CB_PROBE_SECONDS}
       \subseteq Nat \ {0}
  /\ IsFiniteSet(Slots)
  /\ {MaxRun, MaxCrashes, MaxLockLosses} \subseteq Nat

VARIABLES
  fails, failsTtl,    \* :fails (0 when absent); TTL 0 on a key without expiry
  openTtl, probeTtl,  \* :open and :probe (0 when absent)
  healthy,            \* whether the endpoint answers 2xx
  pc, state, outcome, count, age,   \* per slot: locals of the run, ticks spent
  outlived,           \* history: a run of those probing now, or one that probed
                      \* beside them, was still at it when the probe key expired
  crashes, lockLosses

keys   == <<fails, failsTtl, openTtl, probeTtl>>
locals == <<state, outcome, count>>
timing == <<age, outlived>>
rare   == <<crashes, lockLosses>>
vars   == <<keys, healthy, pc, locals, timing, rare>>

Labels ==
  {"idle", "get", "elect", "gate", "sending", "result", "expire", "trip", "clear"}

TypeOK ==
  /\ fails \in Nat /\ failsTtl \in 0 .. CB_WINDOW_SECONDS
  /\ openTtl \in 0 .. CB_OPEN_SECONDS /\ probeTtl \in 0 .. CB_PROBE_SECONDS
  /\ healthy \in BOOLEAN
  /\ pc \in [Slots -> Labels]
  /\ state \in [Slots -> {"none", "closed", "probe"}]
  /\ outcome \in [Slots -> {"none", "SUCCESS", "FAILURE", "LOCK_LOST"}]
  /\ count \in [Slots -> Nat] /\ age \in [Slots -> 0 .. MaxRun]
  /\ outlived \in BOOLEAN
  /\ crashes \in 0 .. MaxCrashes /\ lockLosses \in 0 .. MaxLockLosses
  \* an expiry belongs to a key, and only a run between INCR and SET has a count
  /\ fails = 0 => failsTtl = 0
  /\ \A w \in Slots : pc[w] \in {"expire", "trip"} => count[w] > 0

Init ==
  /\ fails = 0 /\ failsTtl = 0 /\ openTtl = 0 /\ probeTtl = 0 /\ healthy = TRUE
  /\ pc = [w \in Slots |-> "idle"]
  /\ state = [w \in Slots |-> "none"]
  /\ outcome = [w \in Slots |-> "none"]
  /\ count = [w \in Slots |-> 0]
  /\ age = [w \in Slots |-> 0]
  /\ outlived = FALSE /\ crashes = 0 /\ lockLosses = 0

-----------------------------------------------------------------------------
Goto(w, label) == pc' = [pc EXCEPT ![w] = label]

Probing(w) == state[w] = "probe"

\* The run has no more to do with the breaker.
Done(w) ==
  /\ Goto(w, "idle")
  /\ state' = [state EXCEPT ![w] = "none"]
  /\ outcome' = [outcome EXCEPT ![w] = "none"]
  /\ count' = [count EXCEPT ![w] = 0]
  /\ age' = [age EXCEPT ![w] = 0]
  /\ outlived' = (outlived /\ \E v \in Slots \ {w} : Probing(v))

\* The breaker has let the run through as s.
Passed(w, s) ==
  /\ Goto(w, "gate")
  /\ state' = [state EXCEPT ![w] = s]
  /\ age' = [age EXCEPT ![w] = 0]
  /\ UNCHANGED <<outcome, count, outlived>>

\* checkState: EXISTS :open.  While it is there the run fails fast and leaves
\* the breaker alone.
CheckOpen(w) ==
  /\ pc[w] = "idle" /\ openTtl = 0
  /\ Goto(w, "get")
  /\ UNCHANGED <<keys, healthy, locals, timing, rare>>

\* Mutant: the half-open window is not noticed.
HalfOpen_Never == FALSE

\* :open has expired and the count was never cleared.
HalfOpen == fails >= CB_FAIL_THRESHOLD

\* checkState: GET :fails.
CheckFails(w) ==
  /\ pc[w] = "get"
  /\ IF HalfOpen
     THEN Goto(w, "elect") /\ UNCHANGED <<locals, timing>>
     ELSE Passed(w, "closed")
  /\ UNCHANGED <<keys, healthy, rare>>

\* Mutant: SET without NX.
ProbeFree_NoNX == TRUE

ProbeFree == probeTtl = 0

\* checkState: SET :probe NX EX.  A loser fails fast.
Elect(w) ==
  /\ pc[w] = "elect"
  /\ IF ProbeFree
     THEN probeTtl' = CB_PROBE_SECONDS /\ Passed(w, "probe")
     ELSE UNCHANGED probeTtl /\ Done(w)
  /\ UNCHANGED <<fails, failsTtl, openTtl, healthy, rare>>

\* The bucket is empty: the run is delayed.  A probe keeps its key.
RateLimited(w) ==
  /\ pc[w] = "gate"
  /\ Done(w)
  /\ UNCHANGED <<keys, healthy, rare>>

Send(w) ==
  /\ pc[w] = "gate"
  /\ Goto(w, "sending")
  /\ UNCHANGED <<keys, healthy, locals, timing, rare>>

\* The request ends; what is left to tell the breaker depends on the outcome.
Answer(w) ==
  \E o \in {"LOCK_LOST", IF healthy THEN "SUCCESS" ELSE "FAILURE"} :
    /\ pc[w] = "sending"
    /\ o = "LOCK_LOST" => lockLosses < MaxLockLosses
    /\ lockLosses' = IF o = "LOCK_LOST" THEN lockLosses + 1 ELSE lockLosses
    /\ IF state[w] = "probe" \/ o = "FAILURE"
       THEN /\ Goto(w, "result")
            /\ outcome' = [outcome EXCEPT ![w] = o]
            /\ UNCHANGED <<state, count, timing>>
       ELSE Done(w)
    /\ UNCHANGED <<keys, healthy, crashes>>

\* Mutant: only the probe's key is deleted.
ProbeOk_KeepsCount(w) ==
  /\ pc[w] = "result" /\ state[w] = "probe" /\ outcome[w] = "SUCCESS"
  /\ probeTtl' = 0
  /\ Done(w)
  /\ UNCHANGED <<fails, failsTtl, openTtl, healthy, rare>>

\* onProbeResult(true): DEL :fails :probe.
ProbeOk(w) ==
  /\ pc[w] = "result" /\ state[w] = "probe" /\ outcome[w] = "SUCCESS"
  /\ fails' = 0 /\ failsTtl' = 0 /\ probeTtl' = 0
  /\ Done(w)
  /\ UNCHANGED <<openTtl, healthy, rare>>

\* onProbeResult(false), whatever kept the probe from succeeding: SET :open ...
ProbeFailed(w) ==
  /\ pc[w] = "result" /\ state[w] = "probe" /\ outcome[w] # "SUCCESS"
  /\ openTtl' = CB_OPEN_SECONDS
  /\ Goto(w, "clear")
  /\ UNCHANGED <<fails, failsTtl, probeTtl, healthy, locals, timing, rare>>

\* ... and DEL :probe.
ClearProbe(w) ==
  /\ pc[w] = "clear"
  /\ probeTtl' = 0
  /\ Done(w)
  /\ UNCHANGED <<fails, failsTtl, openTtl, healthy, rare>>

\* Mutant: the count from before the increment.
RecordFailure_OldCount(w) ==
  /\ pc[w] = "result" /\ state[w] = "closed"
  /\ fails' = fails + 1
  /\ count' = [count EXCEPT ![w] = fails]
  /\ Goto(w, "expire")
  /\ UNCHANGED <<failsTtl, openTtl, probeTtl, healthy, state, outcome, timing, rare>>

\* recordFailure: INCR :fails, which leaves the expiry as it is ...
RecordFailure(w) ==
  /\ pc[w] = "result" /\ state[w] = "closed"
  /\ fails' = fails + 1
  /\ count' = [count EXCEPT ![w] = fails + 1]
  /\ Goto(w, "expire")
  /\ UNCHANGED <<failsTtl, openTtl, probeTtl, healthy, state, outcome, timing, rare>>

\* ... EXPIRE, if the key is still there ...
Expire(w) ==
  /\ pc[w] = "expire"
  /\ failsTtl' = IF fails > 0 THEN CB_WINDOW_SECONDS ELSE 0
  /\ IF count[w] >= CB_FAIL_THRESHOLD
     THEN Goto(w, "trip") /\ UNCHANGED <<locals, timing>>
     ELSE Done(w)
  /\ UNCHANGED <<fails, openTtl, probeTtl, healthy, rare>>

\* ... and SET :open, on the count this run saw.
Trip(w) ==
  /\ pc[w] = "trip"
  /\ openTtl' = CB_OPEN_SECONDS
  /\ Done(w)
  /\ UNCHANGED <<fails, failsTtl, probeTtl, healthy, rare>>

Crash(w) ==
  /\ pc[w] # "idle" /\ crashes < MaxCrashes
  /\ crashes' = crashes + 1
  /\ Done(w)
  /\ UNCHANGED <<keys, healthy, lockLosses>>

-----------------------------------------------------------------------------
\* The endpoint falls ill or recovers.
Flip ==
  /\ healthy' = ~healthy
  /\ UNCHANGED <<keys, pc, locals, timing, rare>>

Left(ttl) == IF ttl = 0 THEN 0 ELSE ttl - 1

\* A tick passes, unless some run has used up its time.
Tick ==
  /\ \A w \in Slots : pc[w] # "idle" => age[w] < MaxRun
  /\ age' = [w \in Slots |-> IF pc[w] = "idle" THEN 0 ELSE age[w] + 1]
  /\ fails' = IF failsTtl = 1 THEN 0 ELSE fails
  /\ failsTtl' = Left(failsTtl)
  /\ openTtl' = Left(openTtl) /\ probeTtl' = Left(probeTtl)
  /\ outlived' = (outlived \/ (probeTtl = 1 /\ \E w \in Slots : Probing(w)))
  /\ UNCHANGED <<healthy, pc, locals, rare>>

CheckState(w) == CheckOpen(w) \/ CheckFails(w) \/ Elect(w)

Report(w) ==
  \/ ProbeOk(w) \/ ProbeFailed(w) \/ ClearProbe(w)
  \/ RecordFailure(w) \/ Expire(w) \/ Trip(w)

Next ==
  \/ \E w \in Slots :
       CheckState(w) \/ RateLimited(w) \/ Send(w) \/ Answer(w) \/ Report(w) \/ Crash(w)
  \/ Flip \/ Tick

Spec == Init /\ [][Next]_vars

\* Time passes, runs go on, deliveries for the endpoint keep coming, and the
\* bucket does not turn away every run that comes to the gate.
Fairness ==
  /\ WF_vars(Tick)
  /\ \A w \in Slots :
       /\ SF_vars(CheckState(w)) /\ SF_vars(Send(w))
       /\ WF_vars(RateLimited(w) \/ Send(w)) /\ WF_vars(Answer(w)) /\ WF_vars(Report(w))

FairSpec == Spec /\ Fairness

-----------------------------------------------------------------------------
\* "No probe stampede": no two runs probe the endpoint at the same time.  It
\* fails as soon as a request may take as long as the probe key lives.
OneProbe == \A v, w \in Slots : Probing(v) /\ Probing(w) => v = w

\* What SET NX does guarantee, however long requests take: probes overlap only
\* if one of them, or one before them with no pause in between, was still
\* running when its key expired.  Rivals that saw :open expire together, dead
\* or rate-limited winners and DELs of a late report let no second one in.
ProbeAlone == outlived \/ OneProbe

\* The count overshoots the threshold by the runs already let through and no
\* more: a tripped breaker takes at most one more failure from each slot.
OvershootBounded == fails < CB_FAIL_THRESHOLD + Cardinality(Slots)

Closed == openTtl = 0 /\ fails < CB_FAIL_THRESHOLD

\* Once the endpoint stays healthy the breaker closes and stays closed, even
\* if a slot died between INCR and EXPIRE and the count never expires.
Recovers == <>[]healthy => <>[]Closed
=============================================================================
