----------------------------- MODULE Projection -----------------------------
(***************************************************************************)
(* What is left of a sequence when only the members of a set are kept, in  *)
(* their order: iter().filter(...) over a log or a queue.  It is SelectSeq *)
(* for a set instead of a test, as a recursive function.                   *)
(***************************************************************************)
EXTENDS Naturals, Sequences

Only(s, S) ==
  LET kept[n \in 0..Len(s)] ==
        IF n = 0 THEN <<>>
        ELSE IF s[n] \in S THEN Append(kept[n - 1], s[n]) ELSE kept[n - 1]
  IN  kept[Len(s)]
=============================================================================
