---------------------------- MODULE TokenBucket -----------------------------
(***************************************************************************)
(* The in-flight cap of one endpoint: the Redis hash wh:rl:{id} and the    *)
(* runs that take a token from it before their request and return it in    *)
(* their finally block.  Taking is one Lua script; returning is three      *)
(* commands.  Time is counted in ticks.                                    *)
(***************************************************************************)
EXTENDS Integers, FiniteSets

CONSTANTS
  Slots,            \* worker slots that run deliveries of the endpoint
  RL_MAX_INFLIGHT, RL_TTL_SECONDS,
  MaxHold,          \* ticks from taking a token to the end of its return
  MaxCrashes,       \* how many slots may die inside a run
  MaxWipes          \* how often Redis may lose its data

ASSUME BucketAssumption ==
  /\ IsFiniteSet(Slots)
  /\ {RL_MAX_INFLIGHT, RL_TTL_SECONDS} \subseteq Nat \ {0}
  /\ {MaxHold, MaxCrashes, MaxWipes} \subseteq Nat

VARIABLES
  exists, tokens,   \* the key, and its field `tokens` (0 without the key)
  ttl,              \* ticks until the key expires; 0 when it has no expiry
  pc, age,          \* per slot: program counter, ticks since it took its token
  lost,             \* tokens the key misses because their holders died
  unclamped,        \* history: the count is over the cap, and a run that was to
                    \* clamp it has died since it went over
  crashes, wipes

vars == <<exists, tokens, ttl, pc, age, lost, unclamped, crashes, wipes>>

Labels == {"idle", "holding", "clamp", "expire"}

TypeOK ==
  /\ exists \in BOOLEAN /\ tokens \in Nat /\ ttl \in 0 .. RL_TTL_SECONDS
  /\ pc \in [Slots -> Labels] /\ age \in [Slots -> 0 .. MaxHold]
  /\ lost \in Nat /\ unclamped \in BOOLEAN
  /\ crashes \in 0 .. MaxCrashes /\ wipes \in 0 .. MaxWipes

Init ==
  /\ exists = FALSE /\ tokens = 0 /\ ttl = 0
  /\ pc = [w \in Slots |-> "idle"] /\ age = [w \in Slots |-> 0]
  /\ lost = 0 /\ unclamped = FALSE /\ crashes = 0 /\ wipes = 0

\* HGET, `or ARGV[1]`.
Available == IF exists THEN tokens ELSE RL_MAX_INFLIGHT

Move(w, label) == pc' = [pc EXCEPT ![w] = label] /\ UNCHANGED age

\* The death of a run is forgotten once the count is within the cap again.
Remember == unclamped' = (unclamped /\ tokens' > RL_MAX_INFLIGHT)

Done(w) == pc' = [pc EXCEPT ![w] = "idle"] /\ age' = [age EXCEPT ![w] = 0]

-----------------------------------------------------------------------------
\* Mutant: the last token is given twice.
Granted_BelowZero == Available >= 0

Granted == Available > 0

\* Mutant: the first request after an expiry takes nothing.
Taken_FirstFree == IF exists THEN tokens - 1 ELSE RL_MAX_INFLIGHT

Taken == Available - 1

\* token_bucket.lua, when there is a token.
tryAcquire(w) ==
  /\ pc[w] = "idle" /\ Granted
  /\ exists' = TRUE /\ tokens' = Taken
  /\ ttl' = RL_TTL_SECONDS
  /\ Move(w, "holding") /\ Remember
  /\ UNCHANGED <<lost, crashes, wipes>>

\* Mutant: the script refreshes the expiry before it looks at the count.
Refused_Refreshes(w) ==
  /\ pc[w] = "idle" /\ ~Granted
  /\ ttl' = RL_TTL_SECONDS
  /\ UNCHANGED <<exists, tokens, pc, age, lost, unclamped, crashes, wipes>>

\* token_bucket.lua at 0 returns -1 and leaves even the expiry alone: the run
\* is delayed.
Refused(w) ==
  /\ pc[w] = "idle" /\ ~Granted
  /\ UNCHANGED vars

\* Mutant: only the return that crosses the cap clamps.
OverCap_Exactly(n) == n = RL_MAX_INFLIGHT + 1

\* Mutant: off by one.
OverCap_ByTwo(n) == n > RL_MAX_INFLIGHT + 1

OverCap(n) == n > RL_MAX_INFLIGHT

\* release: HINCRBY, which leaves the expiry as it is ...
Release(w) ==
  /\ pc[w] = "holding"
  /\ exists' = TRUE /\ tokens' = tokens + 1
  /\ Move(w, IF OverCap(tokens') THEN "clamp" ELSE "expire") /\ Remember
  /\ UNCHANGED <<ttl, lost, crashes, wipes>>

\* ... HSET, if the count went over the cap ...
Clamp(w) ==
  /\ pc[w] = "clamp"
  /\ exists' = TRUE /\ tokens' = RL_MAX_INFLIGHT
  /\ Move(w, "expire") /\ Remember
  /\ UNCHANGED <<ttl, lost, crashes, wipes>>

\* ... EXPIRE, if the key is there.
Expire(w) ==
  /\ pc[w] = "expire"
  /\ ttl' = IF exists THEN RL_TTL_SECONDS ELSE 0
  /\ Done(w)
  /\ UNCHANGED <<exists, tokens, lost, unclamped, crashes, wipes>>

\* The finally block of a dead process does not run.
Crash(w) ==
  /\ pc[w] # "idle" /\ crashes < MaxCrashes
  /\ crashes' = crashes + 1
  /\ lost' = IF pc[w] = "holding" THEN lost + 1 ELSE lost
  /\ unclamped' = (unclamped \/ (pc[w] = "clamp" /\ tokens > RL_MAX_INFLIGHT))
  /\ Done(w)
  /\ UNCHANGED <<exists, tokens, ttl, wipes>>

Wipe ==
  /\ wipes < MaxWipes
  /\ wipes' = wipes + 1
  /\ exists' = FALSE /\ tokens' = 0 /\ ttl' = 0 /\ lost' = 0
  /\ Remember
  /\ UNCHANGED <<pc, age, crashes>>

\* A tick passes, unless some run has used up its time.  With the key go the
\* debts of the dead.
Tick ==
  /\ \A w \in Slots : pc[w] # "idle" => age[w] < MaxHold
  /\ age' = [w \in Slots |-> IF pc[w] = "idle" THEN 0 ELSE age[w] + 1]
  /\ ttl' = IF ttl = 0 THEN 0 ELSE ttl - 1
  /\ exists' = (exists /\ ttl # 1)
  /\ tokens' = IF ttl = 1 THEN 0 ELSE tokens
  /\ lost' = IF ttl = 1 THEN 0 ELSE lost
  /\ Remember
  /\ UNCHANGED <<pc, crashes, wipes>>

Return(w) == Release(w) \/ Clamp(w) \/ Expire(w)

Next ==
  \/ \E w \in Slots : tryAcquire(w) \/ Refused(w) \/ Return(w) \/ Crash(w)
  \/ Wipe \/ Tick

Spec == Init /\ [][Next]_vars

\* Time passes and every run comes to its end.
FairSpec == Spec /\ WF_vars(Tick) /\ \A w \in Slots : WF_vars(Return(w))

-----------------------------------------------------------------------------
Holding == {w \in Slots : pc[w] = "holding"}

\* Every token is in the key, held by a run, or lost with a dead one; hence no
\* more than RL_MAX_INFLIGHT requests are in flight.  It needs Redis to keep
\* its data, and runs that end before the key they took from expires.
Conservation ==
  wipes = 0 => Available + Cardinality(Holding) + lost = RL_MAX_INFLIGHT

\* Also after a wipe, the key holds more than the cap only while a run is about
\* to clamp it, or because a run died there and nothing has brought the count
\* back since (release).
OverCapIsTransient ==
  tokens > RL_MAX_INFLIGHT => unclamped \/ \E w \in Slots : pc[w] = "clamp"

\* "The bucket self-corrects": a count over the cap does not last, whether the
\* endpoint is idle (the key expires) or busy (the next return clamps it).  The
\* exception is a key that HINCRBY made after a wipe and whose runs all died
\* before their EXPIRE: it waits for the next request.
SelfCorrects == []<>(tokens <= RL_MAX_INFLIGHT \/ ttl = 0)

\* The endpoint is never locked out for good, even if every token was lost
\* with its holder: refusals let an empty bucket expire.
NeverStarved == []<>(Available > 0)
=============================================================================
