--------------------------- MODULE MCTimersGrowth ---------------------------
(* A larger instance of Timers, in which a callback makes the table grow     *)
(* while the running pass has slots left to visit.                           *)
EXTENDS Timers

MCDelays == {0, 2}
=============================================================================
