---------------------------- MODULE FirstAnswer ----------------------------
(***************************************************************************)
(* The beginning of a turn (AgentTurnLoop::run_turn_inner, turn_loop.rs):  *)
(* the context is built, and with it the provider is asked for the first   *)
(* answer, on one thread, while the user may cancel and others write to    *)
(* the workspace.                                                          *)
(***************************************************************************)
EXTENDS TurnContext, ProviderStream

vars == <<canceled, contextVars, streamVars>>

Init == canceled = FALSE /\ ContextInit /\ StreamInit

BuildContext == ContextStep /\ UNCHANGED streamVars

Dispatch == contextPc = "built" /\ BeginSend /\ ForgetContext /\ UNCHANGED canceled

Collect == ReadStream /\ UNCHANGED contextVars

Answering == Network /\ UNCHANGED contextVars

(* The user, and an editor or another process.  The token is not looked at *)
(* while the capsule is built.                                             *)
Others ==
  \/ /\ contextPc \in {"manifest", "attaching"} \/ streamPc \in {"sending", "open", "ending"}
     /\ CancelTool /\ UNCHANGED <<contextVars, streamVars>>
  \/ /\ \E p \in Range(Paths), c \in Contents \cup {Missing} : Touch(p, c)
     /\ UNCHANGED <<capsuleVars, turnVars, streamVars>>

Ended == contextPc \in {"failed", "canceled"} \/ streamPc = "ended"

Stop == Ended /\ UNCHANGED vars

Turn == BuildContext \/ Dispatch \/ Collect

Next == Turn \/ Answering \/ Others \/ Stop

(* The thread of the turn is scheduled, and its timers run; the provider   *)
(* need not answer.                                                        *)
Spec == Init /\ [][Next]_vars /\ WF_vars(Turn)
-----------------------------------------------------------------------------
(* Whatever is written to the workspace, and however the provider behaves, *)
(* the turn gets an answer or fails (provider_idle_timeout).               *)
RequestEnds == <>Ended
=============================================================================
