-------------------------- MODULE MCDeliveryEngine --------------------------
(* Finite instances of DeliveryEngine for TLC. *)
EXTENDS DeliveryEngine, TLC

Only(budget) == [e \in RareEvents |-> IF e \in DOMAIN budget THEN budget[e] ELSE 0]

\* One process death of every kind (or a job that stalls under its run), and an
\* endpoint that is deactivated and activated again: the lock outlives its
\* holder.
CrashBudget == Only([api |-> 1, worker |-> 1, handler |-> 1, retry |-> 1, patch |-> 2])

\* A frozen process, a dead one, an emptied Redis and a failed or
\* unacknowledged transaction: two runs may work on the delivery at once, and
\* a job may stall twice.
LockLossBudget == Only([pause |-> 1, wipe |-> 1, db |-> 1, worker |-> 1])

OneRetryCrash    == Only([retry |-> 1])
TwoWorkerCrashes == Only([worker |-> 2])
OneDbFault       == Only([db |-> 1])

SlotSymmetry == Permutations(Workers)
=============================================================================
