--------------------------- MODULE MCBackpressure ---------------------------
(* Finite instance of Backpressure for TLC. *)
EXTENDS Backpressure, TLC
=============================================================================
