--------------------------- MODULE MCTokenBucket ----------------------------
(* Finite instances of TokenBucket for TLC. *)
EXTENDS TokenBucket, TLC
=============================================================================
