---------------------------- MODULE AttemptTrail ----------------------------
(***************************************************************************)
(* What Postgres promises about one delivery, whatever the workers and the *)
(* queue do: its attempts form a list that only grows at the end, and the  *)
(* status is moved by an attempt only together with that attempt's row.    *)
(***************************************************************************)
EXTENDS Sequences

CONSTANT Outcomes

VARIABLES status, trail

Init == status = "none" /\ trail = <<>>

\* recordAttempt: the row and the status it implies, in one transaction.
Record(outcome) ==
  /\ trail' = Append(trail, outcome)
  /\ status' = IF outcome = "SUCCESS" THEN "DELIVERED" ELSE "FAILED"

\* Every other writer of the status column.
Move(to) == status' = to /\ UNCHANGED trail

Next ==
  \/ \E outcome \in Outcomes : Record(outcome)
  \/ \E to \in {"PENDING", "DELIVERING", "DLQ"} : Move(to)

Spec == Init /\ [][Next]_<<status, trail>>
=============================================================================
