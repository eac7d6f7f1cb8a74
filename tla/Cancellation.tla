---------------------------- MODULE Cancellation ----------------------------
(***************************************************************************)
(* CancellationToken (crates/agent-core/src/cancellation.rs) as a tool     *)
(* sees it: it is set at most once, by another thread, and never reset.    *)
(***************************************************************************)
VARIABLE canceled

CancelTool == ~canceled /\ canceled' = TRUE
=============================================================================
