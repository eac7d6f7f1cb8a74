-------------------------- MODULE MCApprovalQueue --------------------------
(* A tool approval whose grant can persist and which offers one hunk, and  *)
(* a budget prompt, over two turns of one or two runs.                     *)
EXTENDS ApprovalQueue, TLC

CONSTANTS r1, r2, tool, budget, toolKey, hunk, other

MCIdOf      == (tool :> "approval_1_1") @@ (budget :> "approval_budget_1")
MCKeyOf     == tool :> toolKey
MCHunksOf   == (tool :> {hunk}) @@ (budget :> {})
MCHunkLists == {<<>>, <<hunk>>, <<hunk, hunk>>, <<other>>}
=============================================================================
