---------------------------- MODULE Backpressure ----------------------------
(***************************************************************************)
(* The gate in front of POST /v1/events: isOverloaded over memoTtl, a      *)
(* cache of one value that all requests of a process share.  A miss starts *)
(* one call of getJobCounts, whoever comes meanwhile awaits the same       *)
(* promise.  Time is counted in ticks.                                     *)
(***************************************************************************)
EXTENDS Integers, FiniteSets

CONSTANTS
  Requests,                  \* requests the process serves at a time
  Calls,                     \* identities of calls of fn
  BACKPRESSURE_QUEUE_LIMIT, QUEUE_DEPTH_CACHE_MS,
  ReplyTicks,                \* ticks a reply of Redis is under way
  MaxDepth,                  \* bound of the queue
  MaxFailures                \* how many calls may be rejected

ASSUME GateAssumption ==
  /\ QUEUE_DEPTH_CACHE_MS \in Nat \ {0}
  /\ {BACKPRESSURE_QUEUE_LIMIT, ReplyTicks, MaxDepth, MaxFailures} \subseteq Nat

NoCall == "none"

ASSUME NoCallAssumption == NoCall \notin Calls

VARIABLES
  depth,                     \* wait + delayed, in Redis
  cached,                    \* value, ticks it has left (0: expired), ticks since it was sampled
  pending,                   \* the promise later callers share
  call,                      \* the calls of fn: where they are, what they will answer
  pc, awaits,                \* per request: its state, the promise it awaits
  failures,
  sinceLow, sinceHigh        \* history: ticks since the queue was within / over its limit

memo == <<cached, pending, call>>
history == <<sinceLow, sinceHigh>>
vars == <<depth, memo, pc, awaits, failures, history>>

\* A verdict may rest on a sample this old, no older.
Window == QUEUE_DEPTH_CACHE_MS + ReplyTicks

Value == [value : 0 .. MaxDepth, left : 0 .. QUEUE_DEPTH_CACHE_MS, age : Nat]
Call == [at : {"idle", "sent", "sampled"}, value : 0 .. MaxDepth, age : 0 .. ReplyTicks]

NoValue == [value |-> 0, left |-> 0, age |-> 0]
Idle == [at |-> "idle", value |-> 0, age |-> 0]

TypeOK ==
  /\ depth \in 0 .. MaxDepth /\ failures \in 0 .. MaxFailures
  /\ cached \in Value /\ (cached # NoValue => cached.left > 0)
  /\ pending \in Calls \cup {NoCall} /\ call \in [Calls -> Call]
  /\ pc \in [Requests -> {"idle", "waiting", "admitted", "shed", "failed"}]
  /\ awaits \in [Requests -> Calls \cup {NoCall}]
  /\ sinceLow \in 0 .. Window /\ sinceHigh \in 0 .. Window

Overloaded(d) == d > BACKPRESSURE_QUEUE_LIMIT

Init ==
  /\ depth = 0 /\ cached = NoValue /\ pending = NoCall
  /\ call = [c \in Calls |-> Idle]
  /\ pc = [r \in Requests |-> "idle"] /\ awaits = [r \in Requests |-> NoCall]
  /\ failures = 0 /\ sinceLow = 0 /\ sinceHigh = Window

-----------------------------------------------------------------------------
(* isOverloaded and memoTtl *)

\* What the route does with the depth it is given: go on, or answer 429.
Verdict(d) == IF Overloaded(d) THEN "shed" ELSE "admitted"

Fresh == cached.left > 0

\* Mutant: every hit renews the entry.
Hit_Slides(r) ==
  /\ pc[r] = "idle" /\ Fresh
  /\ pc' = [pc EXCEPT ![r] = Verdict(cached.value)]
  /\ cached' = [cached EXCEPT !.left = QUEUE_DEPTH_CACHE_MS]
  /\ UNCHANGED <<depth, pending, call, awaits, failures, history>>

Hit(r) ==
  /\ pc[r] = "idle" /\ Fresh
  /\ pc' = [pc EXCEPT ![r] = Verdict(cached.value)]
  /\ UNCHANGED <<depth, memo, awaits, failures, history>>

Await(r, c) ==
  pc' = [pc EXCEPT ![r] = "waiting"] /\ awaits' = [awaits EXCEPT ![r] = c]

Join(r) ==
  /\ pc[r] = "idle" /\ ~Fresh /\ pending # NoCall
  /\ Await(r, pending)
  /\ UNCHANGED <<depth, memo, failures, history>>

\* Mutant: a miss calls fn whatever is in flight.
MustCall_NoDedupe == ~Fresh

MustCall == ~Fresh /\ pending = NoCall

Start(r, c) ==
  /\ pc[r] = "idle" /\ MustCall /\ call[c] = Idle
  /\ call' = [call EXCEPT ![c].at = "sent"] /\ pending' = c
  /\ Await(r, c)
  /\ UNCHANGED <<depth, cached, failures, history>>

\* Redis counts the jobs.  During an outage the command waits in the client.
Sample(c) ==
  /\ call[c].at = "sent"
  /\ call' = [call EXCEPT ![c] = [at |-> "sampled", value |-> depth, age |-> 0]]
  /\ UNCHANGED <<depth, cached, pending, pc, awaits, failures, history>>

\* All who await the call go on with its answer.
Settle(c, state) ==
  /\ pc' = [r \in Requests |-> IF awaits[r] = c THEN state ELSE pc[r]]
  /\ awaits' = [r \in Requests |-> IF awaits[r] = c THEN NoCall ELSE awaits[r]]
  /\ call' = [call EXCEPT ![c] = Idle]

\* then: the entry is stored for QUEUE_DEPTH_CACHE_MS from now on.
Resolve(c) ==
  /\ call[c].at = "sampled"
  /\ cached' = [value |-> call[c].value, left |-> QUEUE_DEPTH_CACHE_MS, age |-> call[c].age]
  /\ pending' = NoCall
  /\ Settle(c, Verdict(call[c].value))
  /\ UNCHANGED <<depth, failures, history>>

\* Mutant: a rejected promise is left in place.
Reject_Sticky(c) ==
  /\ call[c].at # "idle" /\ failures < MaxFailures
  /\ failures' = failures + 1
  /\ Settle(c, "failed")
  /\ UNCHANGED <<depth, cached, pending, history>>

\* catch: all who await the call fail with it, the next caller starts anew.
Reject(c) ==
  /\ call[c].at # "idle" /\ failures < MaxFailures
  /\ failures' = failures + 1
  /\ pending' = NoCall
  /\ Settle(c, "failed")
  /\ UNCHANGED <<depth, cached, history>>

-----------------------------------------------------------------------------
(* The queue and time *)

DepthBecomes(n) ==
  /\ n \in 0 .. MaxDepth
  /\ depth' = n
  /\ sinceLow' = IF Overloaded(n) THEN sinceLow ELSE 0
  /\ sinceHigh' = IF Overloaded(n) THEN 0 ELSE sinceHigh

\* An admitted request adds a job, or ends without one (a duplicate, an error).
Finish(r) ==
  /\ pc[r] = "admitted"
  /\ \E n \in {depth, depth + 1} : DepthBecomes(n)
  /\ pc' = [pc EXCEPT ![r] = "idle"]
  /\ UNCHANGED <<memo, awaits, failures>>

\* A request answered 429 or 500 is over; its client may come again.
Refused(r) ==
  /\ pc[r] \in {"shed", "failed"}
  /\ pc' = [pc EXCEPT ![r] = "idle"]
  /\ UNCHANGED <<depth, memo, awaits, failures, history>>

\* Workers take jobs and delay them again; other processes add theirs.
QueueMoves ==
  /\ \E n \in {depth - 1, depth + 1} : DepthBecomes(n)
  /\ UNCHANGED <<memo, pc, awaits, failures>>

Elapse ==
  IF cached.left > 1 THEN [cached EXCEPT !.left = @ - 1, !.age = @ + 1] ELSE NoValue

Older(since) == IF since < Window THEN since + 1 ELSE since

Tick ==
  /\ \A c \in Calls : call[c].at = "sampled" => call[c].age < ReplyTicks
  /\ cached' = Elapse
  /\ call' = [c \in Calls |->
               IF call[c].at = "sampled" THEN [call[c] EXCEPT !.age = @ + 1] ELSE call[c]]
  /\ sinceLow' = IF Overloaded(depth) THEN Older(sinceLow) ELSE 0
  /\ sinceHigh' = IF Overloaded(depth) THEN 0 ELSE Older(sinceHigh)
  /\ UNCHANGED <<depth, pending, pc, awaits, failures>>

isOverloaded(r) == Hit(r) \/ Join(r) \/ \E c \in Calls : Start(r, c)

Next ==
  \/ \E r \in Requests : isOverloaded(r) \/ Finish(r) \/ Refused(r)
  \/ \E c \in Calls : Sample(c) \/ Resolve(c) \/ Reject(c)
  \/ QueueMoves \/ Tick

Spec == Init /\ [][Next]_vars

\* Clients come back, outages end, replies arrive.
FairSpec ==
  /\ Spec
  /\ \A r \in Requests : WF_vars(isOverloaded(r)) /\ WF_vars(Finish(r) \/ Refused(r))
  /\ \A c \in Calls : WF_vars(Sample(c)) /\ WF_vars(Resolve(c))

-----------------------------------------------------------------------------
\* "A cache miss kicks off exactly one call": the only call in flight is the
\* pending one, and every waiting request awaits it.
SingleFlight ==
  /\ \A c \in Calls : call[c].at # "idle" => c = pending
  /\ \A r \in Requests : pc[r] = "waiting" => awaits[r] = pending /\ pending # NoCall

\* Although all requests of a second share one old count, none is admitted
\* unless the queue was within its limit, and none is shed unless it was over
\* it, within the cache's lifetime and a reply's delay.
VerdictInTime ==
  [][\A r \in Requests : pc[r] # pc'[r] =>
       /\ pc'[r] = "admitted" => sinceLow < Window
       /\ pc'[r] = "shed" => sinceHigh < Window]_vars

\* A failed call takes down the requests that await it and no others: once
\* Redis answers, every client gets verdicts again and again.
VerdictsKeepComing == \A r \in Requests : []<>(pc[r] \in {"admitted", "shed"})
=============================================================================
