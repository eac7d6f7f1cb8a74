------------------------------ MODULE MCRunLog ------------------------------
(* One run of up to four events over several turns, with crashes, failed   *)
(* appends, listings and deletions at any point.                           *)
EXTENDS RunLog

CONSTANT a
=============================================================================
