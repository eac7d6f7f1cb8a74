---------------------------- MODULE MCStdioLoop ----------------------------
(* Up to four requests and two runs of a few events: full queues (bounds  *)
(* 1) or queues with room for everything, according to the configuration. *)
EXTENDS StdioLoop
=============================================================================
