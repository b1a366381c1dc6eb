------------------------------ MODULE MCTimers ------------------------------
(* Small instances of Timers for TLC. *)
EXTENDS Timers

MCDelays == {0, 3}
=============================================================================
