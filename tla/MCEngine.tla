------------------------------ MODULE MCEngine ------------------------------
(* A script that evaluates and one that does not, of different lengths.      *)
EXTENDS Engine, TLC

CONSTANTS good, bad

MCChunks == good :> 2 @@ bad :> 1
=============================================================================
