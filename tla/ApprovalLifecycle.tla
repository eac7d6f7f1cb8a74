------------------------- MODULE ApprovalLifecycle -------------------------
(***************************************************************************)
(* What the agent promises about an approval question: the state machine   *)
(* of crates/agent-core/src/approval.rs, one instance per question.        *)
(*                                                                         *)
(* A question is one request for permission put to the user by one turn.   *)
(* It is asked at most once, is decided at most once, and an operation is  *)
(* executed only after its own question was approved.                      *)
(***************************************************************************)
CONSTANT Questions      \* the questions the turns of this process may ask

VARIABLE state          \* the ApprovalState of every question

ApprovalState == {"unasked", "pending", "approved", "rejected", "canceled",
                  "expired", "executing", "completed", "failed"}

(* approval.rs, ApprovalState::can_transition_to. *)
CanTransition ==
  {<<"pending", "approved">>, <<"pending", "rejected">>,
   <<"pending", "canceled">>, <<"pending", "expired">>,
   <<"approved", "executing">>,
   <<"executing", "completed">>, <<"executing", "failed">>}

TypeOK == state \in [Questions -> ApprovalState]

Init == state = [q \in Questions |-> "unasked"]

Ask(q) ==
  /\ state[q] = "unasked"
  /\ state' = [state EXCEPT ![q] = "pending"]

Transition(q, next) ==
  /\ <<state[q], next>> \in CanTransition
  /\ state' = [state EXCEPT ![q] = next]

(* The cancellation of a run decides all of its pending questions at once. *)
CancelAll(canceled) ==
  /\ \A q \in canceled : state[q] = "pending"
  /\ state' = [q \in Questions |->
                 IF q \in canceled THEN "canceled" ELSE state[q]]

(* Questions live in the memory of the process; nothing is asked again     *)
(* under the same identity after a crash.                                  *)
Restart == state' = [q \in Questions |-> "unasked"]

Next ==
  \/ \E q \in Questions : Ask(q)
  \/ \E q \in Questions, next \in ApprovalState : Transition(q, next)
  \/ \E canceled \in SUBSET Questions : CancelAll(canceled)
  \/ Restart

Spec == Init /\ [][Next]_state
=============================================================================
