---------------------------- MODULE TurnProtocol ----------------------------
(***************************************************************************)
(* What one turn of the agent promises to the provider and to the user     *)
(* (crates/agent-core/src/turn_loop.rs): it alternates between asking the  *)
(* model and doing what the model asked for, owes the model one result for *)
(* every tool call before it asks again, asks at most Window times without *)
(* a new permission of the user, completes only on an answer that asks for *)
(* nothing more, and ends at most once.                                    *)
(***************************************************************************)
EXTENDS Naturals

CONSTANTS Window,   \* provider requests the user has allowed at a time
          MaxOwed   \* bound on the tool calls of one answer

VARIABLES phase,    \* what the turn is doing
          asked,    \* provider requests so far
          permits,  \* further windows the user allowed
          owed      \* tool calls without a result

vars == <<phase, asked, permits, owed>>

Phases == {"new", "idle", "asking", "working", "completed", "aborted"}

TypeOK ==
  /\ phase \in Phases /\ permits \in Nat /\ owed \in 0..MaxOwed
  /\ asked \in 0..Window * (permits + 1)

Init == phase = "new" /\ asked = 0 /\ permits = 0 /\ owed = 0

Begin ==
  /\ phase = "new" /\ phase' = "idle"
  /\ UNCHANGED <<asked, permits, owed>>

Ask ==
  /\ phase = "idle" /\ asked < Window * (permits + 1)
  /\ phase' = "asking" /\ asked' = asked + 1
  /\ UNCHANGED <<permits, owed>>

(* A failed or truncated attempt. *)
Drop ==
  /\ phase = "asking" /\ phase' = "idle"
  /\ UNCHANGED <<asked, permits, owed>>

Accept ==
  /\ phase = "asking" /\ phase' = "working"
  /\ owed' \in 1..MaxOwed
  /\ UNCHANGED <<asked, permits>>

Settle ==
  /\ phase = "working" /\ owed > 0
  /\ owed' = owed - 1
  /\ UNCHANGED <<phase, asked, permits>>

Resume ==
  /\ phase = "working" /\ owed = 0 /\ phase' = "idle"
  /\ UNCHANGED <<asked, permits, owed>>

(* The user allows another window. *)
Renew ==
  /\ phase = "idle" /\ asked = Window * (permits + 1)
  /\ permits' = permits + 1
  /\ UNCHANGED <<phase, asked, owed>>

Complete ==
  /\ phase = "asking" /\ phase' = "completed"
  /\ UNCHANGED <<asked, permits, owed>>

Abort ==
  /\ phase \notin {"completed", "aborted"} /\ phase' = "aborted"
  /\ UNCHANGED <<asked, permits, owed>>

Next ==
  \/ Begin \/ Ask \/ Drop \/ Accept \/ Settle \/ Resume \/ Renew
  \/ Complete \/ Abort

Spec == Init /\ [][Next]_vars
=============================================================================
