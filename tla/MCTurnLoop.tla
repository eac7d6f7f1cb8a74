----------------------------- MODULE MCTurnLoop -----------------------------
(* Turns of two windows and answers of up to two calls, a listed tool, a   *)
(* shell command or a patch, with one transient error and two stalls       *)
(* retried in a row, so that the two counts may alternate.                 *)
EXTENDS TurnLoop
=============================================================================
