---------------------------- MODULE MCIngestion -----------------------------
(* Finite instances of Ingestion for TLC. *)
EXTENDS Ingestion, TLC

\* All clients race for the same key.
SameKey == [c \in Clients |-> CHOOSE k \in Keys : TRUE]

\* One of each.
RareBudget == [e \in RareEvents |-> 1]
=============================================================================
