------------------------------ MODULE TurnLoop ------------------------------
(***************************************************************************)
(* The worker of one turn: AgentTurnLoop::run_turn_with_event_sink of      *)
(* crates/agent-core/src/turn_loop.rs.  It asks the provider, executes the *)
(* tool calls of the answer one after the other, and asks again, until an  *)
(* answer has no tool calls, something fails, or the turn is canceled.     *)
(*                                                                         *)
(* The provider (an external service) may answer anything, fail or stall   *)
(* at any point.  The client cancels, steers and decides approvals at any  *)
(* time.  Every event the turn emits may fail to reach the run log or the  *)
(* event sink, which ends the turn without a terminal event.               *)
(***************************************************************************)
EXTENDS Integers, Sequences, FiniteSetsExt

CONSTANTS
  Kinds,            \* kinds of usable tool calls the provider makes
  MaxModelTurns,    \* config.max_model_turns
  TransientRetries, \* config.provider_transient_retries
  IdleAttempts,     \* config.provider_idle_timeout_attempts
  Thinking,         \* the reasoning mode is ThinkingEnabled
  MaxCalls,         \* bound on the tool calls of one answer
  MaxWindows,       \* bound on the windows of MaxModelTurns requests
  MaxSteers,        \* bound on the steer messages of the client
  None              \* no answer yet

(* A read-only tool, or a patch that does not parse and only reports that; *)
(* a shell command on the read-only allowlist; a shell command, or a       *)
(* patch, that needs approval.  A call's kind is looked at when it is      *)
(* executed, not when the answer arrives.                                  *)
AllKinds == {"read", "listed", "shell", "patch"}

ASSUME TurnAssumption ==
  /\ Kinds \subseteq AllKinds
  /\ MaxModelTurns \in Nat \ {0} /\ IdleAttempts \in Nat \ {0}
  /\ TransientRetries \in Nat
  /\ Thinking \in BOOLEAN
  /\ MaxCalls \in Nat /\ MaxWindows \in Nat \ {0} /\ MaxSteers \in Nat

(* Finish reason, number of tool calls, and whether reasoning came along.  *)
Answer == [finish : {"stop", "length", "other"},
           calls : 0..MaxCalls,
           reasoning : BOOLEAN]

(* Messages the provider is sent; consecutive messages without tool calls  *)
(* count as one.                                                           *)
Message == [role : {"text"}, of : {0}, reasoning : {FALSE}]
           \cup [role : {"calls"}, of : 1..MaxCalls, reasoning : BOOLEAN]
           \cup [role : {"result"}, of : 1..MaxCalls, reasoning : {FALSE}]

VARIABLES
  pc,
  iteration,      \* number of the last provider request
  budgetEnd,      \* number of the last request of this window
  transient,      \* provider_transient_retries_remaining
  idle,           \* provider_idle_timeout_retries_remaining
  messages,
  response,       \* the answer of the stream, or None
  call,           \* number of the tool call being executed
  kind,           \* its kind, or None
  baseline,       \* workspace_before: none, taken, or failed
  steers,         \* messages in the TurnSteerQueue
  steered,        \* messages the client has queued
  canceled,       \* the cancellation token
  outcome,        \* the terminal event
  \* history
  misses,         \* failed attempts in a row
  granted,        \* calls of this answer the user approved
  permits,        \* further windows the user allowed
  shellRan        \* a shell command was started in this turn

configVars  == <<iteration, budgetEnd, transient, idle>>
turnVars    == <<messages, response, call, kind, baseline>>
clientVars  == <<steers, steered, canceled>>
historyVars == <<misses, granted, permits, shellRan>>
vars == <<pc, configVars, turnVars, clientVars, outcome, historyVars>>

TypeOK ==
  /\ pc \in {"start", "iterate", "asking", "streaming", "answered", "calling",
             "requested", "waiting", "cleared", "executing",
             "prompted", "deciding", "done"}
  /\ iteration \in 0..budgetEnd
  /\ budgetEnd \in {n * MaxModelTurns : n \in 1..MaxWindows}
  /\ transient \in 0..TransientRetries
  /\ idle \in 0..IdleAttempts - 1
  /\ messages \in Seq(Message)
  /\ response \in {None} \cup Answer
  /\ call \in 0..MaxCalls + 1
  /\ kind \in {None} \cup Kinds
  /\ baseline \in {"none", "taken", "failed"}
  /\ steers \in 0..MaxSteers /\ steered \in 0..MaxSteers
  /\ canceled \in BOOLEAN
  /\ outcome \in {"none", "completed", "failed", "canceled", "silent"}
  /\ misses \in Nat
  /\ granted \subseteq 1..MaxCalls
  /\ permits \in 0..MaxWindows - 1
  /\ shellRan \in BOOLEAN

Init ==
  /\ pc = "start"
  /\ iteration = 0 /\ budgetEnd = MaxModelTurns
  /\ transient = TransientRetries /\ idle = IdleAttempts - 1
  /\ messages = <<>> /\ response = None /\ call = 0 /\ kind = None
  /\ baseline = "none"
  /\ steers = 0 /\ steered = 0 /\ canceled = FALSE
  /\ outcome = "none"
  /\ misses = 0 /\ granted = {} /\ permits = 0 /\ shellRan = FALSE
-----------------------------------------------------------------------------
NeedsApproval(k) == k \in {"shell", "patch"}
IsShell(k)       == k \in {"shell", "listed"}

Text == [role |-> "text", of |-> 0, reasoning |-> FALSE]

Say(conversation) ==
  IF conversation # <<>> /\ conversation[Len(conversation)] = Text
  THEN conversation ELSE Append(conversation, Text)

Result(i) == [role |-> "result", of |-> i, reasoning |-> FALSE]

(* terminal_error_event, and run.completed. *)
End(how) == pc' = "done" /\ outcome' = how

Goto(next) == pc' = next /\ UNCHANGED outcome

(* CancellationToken::check, before a step to `next`. *)
CheckedGoto(next) == IF canceled THEN End("canceled") ELSE Goto(next)

(* Config is valid; the context is built. *)
Begin ==
  /\ pc = "start"
  /\ IF canceled THEN End("canceled") /\ UNCHANGED messages
     ELSE \/ Goto("iterate") /\ messages' = Say(messages)
          \/ End("failed") /\ UNCHANGED messages
  /\ UNCHANGED <<configVars, response, call, kind, baseline, clientVars,
                 historyVars>>

(* prepare_messages: replayed tool calls need their reasoning. *)
Prepared(conversation) ==
  Thinking => \A i \in DOMAIN conversation :
                conversation[i].role = "calls" => conversation[i].reasoning

(* drain_steer_messages, prepare_messages, provider.requested. *)
Ask ==
  /\ pc = "iterate" /\ iteration < budgetEnd
  /\ messages' = IF steers > 0 THEN Say(messages) ELSE messages
  /\ steers' = 0
  /\ iteration' = iteration + 1
  /\ IF Prepared(messages') THEN Goto("asking") ELSE End("failed")
  /\ response' = None /\ call' = 0
  /\ granted' = {}
  /\ UNCHANGED <<budgetEnd, transient, idle, kind, baseline, steered, canceled,
                 misses, permits, shellRan>>
-----------------------------------------------------------------------------
(* collect_provider_response. *)

streamFrame == <<iteration, budgetEnd, call, kind, baseline, clientVars,
                 granted, permits, shellRan>>

OpenStream ==
  /\ pc = "asking"
  /\ CheckedGoto("streaming")
  /\ UNCHANGED <<streamFrame, transient, idle, messages, response, misses>>

(* A completion, after which the stream may still go on. *)
ReceiveAnswer(a) ==
  /\ pc = "streaming"
  /\ IF canceled THEN End("canceled") /\ UNCHANGED response
     ELSE IF response = None THEN Goto("streaming") /\ response' = a
     ELSE End("failed") /\ UNCHANGED response
  /\ UNCHANGED <<streamFrame, transient, idle, messages, misses>>

(* The stream ends without a completion, a delta follows the completion,   *)
(* or the provider reports an error that is not transient.                 *)
ProviderFails ==
  /\ pc \in {"asking", "streaming"}
  /\ IF canceled THEN End("canceled") ELSE End("failed")
  /\ UNCHANGED <<streamFrame, transient, idle, messages, response, misses>>

(* A transient error: provider.retrying, and the next iteration. *)
ProviderInterrupted ==
  /\ pc \in {"asking", "streaming"}
  /\ IF canceled
     THEN End("canceled") /\ UNCHANGED <<transient, messages, misses>>
     ELSE IF transient > 0
     THEN /\ transient' = transient - 1
          /\ messages' = Say(messages)
          /\ misses' = misses + 1
          /\ Goto("iterate")
     ELSE End("failed") /\ UNCHANGED <<transient, messages, misses>>
  /\ UNCHANGED <<streamFrame, idle, response>>

(* No progress for provider_idle_timeout.  The token is not looked at.     *)
ProviderStalls ==
  /\ pc \in {"asking", "streaming"}
  /\ IF idle > 0
     THEN /\ idle' = idle - 1
          /\ messages' = Say(messages)
          /\ misses' = misses + 1
          /\ Goto("iterate")
     ELSE End("failed") /\ UNCHANGED <<idle, messages, misses>>
  /\ UNCHANGED <<streamFrame, transient, response>>

(* The stream ends after a completion; provider.completed. *)
EndStream ==
  /\ pc = "streaming" /\ response # None
  /\ CheckedGoto("answered")
  /\ transient' = TransientRetries /\ idle' = IdleAttempts - 1
  /\ misses' = 0
  /\ UNCHANGED <<streamFrame, messages, response>>
-----------------------------------------------------------------------------
(* What is done with the answer. *)

answerFrame == <<budgetEnd, transient, idle, kind, baseline, clientVars,
                 historyVars>>

(* Mutant: a truncated answer does not count as a request. *)
TruncatedUncounted ==
  /\ pc = "answered" /\ response.finish = "length"
  /\ messages' = Say(messages)
  /\ iteration' = iteration - 1
  /\ Goto("iterate")
  /\ UNCHANGED <<answerFrame, response, call>>

(* finish_reason length: the user message asks to try again. *)
Truncated ==
  /\ pc = "answered" /\ response.finish = "length"
  /\ messages' = Say(messages)
  /\ Goto("iterate")
  /\ UNCHANGED <<answerFrame, iteration, response, call>>

FinalAnswer ==
  /\ pc = "answered" /\ response.finish # "length" /\ response.calls = 0
  /\ IF response.finish = "stop" THEN End("completed") ELSE End("failed")
  /\ UNCHANGED <<answerFrame, iteration, messages, response, call>>

Calls(answer, reasoning) ==
  [role |-> "calls", of |-> answer.calls, reasoning |-> reasoning]

(* recover_missing_tool_call_reasoning; the assistant message is pushed.   *)
TakeCalls ==
  /\ pc = "answered" /\ response.finish # "length" /\ response.calls > 0
  /\ messages' = Append(messages,
                        Calls(response, response.reasoning \/ Thinking))
  /\ call' = 1
  /\ Goto("calling")
  /\ UNCHANGED <<answerFrame, iteration, response>>
-----------------------------------------------------------------------------
(* execute_tool_call. *)

callFrame == <<configVars, response, clientVars, misses, permits>>

(* The snapshot the changed files are computed from at the end. *)
Snapshot == IF baseline = "none" THEN {"taken", "failed"} ELSE {baseline}

(* Mutant: the snapshot is taken for the first call only. *)
BaselineOfFirst(k) ==
  IF IsShell(k) /\ call = 1 THEN Snapshot ELSE {baseline}

BaselineBefore(k) == IF IsShell(k) THEN Snapshot ELSE {baseline}

(* The executed call's result is pushed. *)
Finished ==
  /\ messages' = Append(messages, Result(call))
  /\ call' = call + 1 /\ kind' = None
  /\ Goto("calling")

NoMoreCalls ==
  /\ pc = "calling" /\ call > response.calls
  /\ Goto("iterate")
  /\ UNCHANGED <<callFrame, messages, call, kind, baseline, granted, shellRan>>

(* The call of a known tool with valid arguments: tool.requested. *)
RequestTool(k) ==
  /\ pc = "calling" /\ call <= response.calls
  /\ baseline' \in BaselineBefore(k)
  /\ kind' = k
  /\ CheckedGoto("requested")
  /\ UNCHANGED <<callFrame, messages, call, granted, shellRan>>

(* Mutant: the model is not told. *)
RefuseToolUntold ==
  /\ pc = "calling" /\ call <= response.calls
  /\ baseline' \in Snapshot \cup {baseline}
  /\ IF canceled THEN End("canceled") /\ UNCHANGED <<messages, call, kind>>
     ELSE /\ Goto("calling") /\ call' = call + 1
          /\ UNCHANGED <<messages, kind>>
  /\ UNCHANGED <<callFrame, granted, shellRan>>

(* The call of an unknown tool, or against the schema, which may be the    *)
(* shell's, is answered with a failed result.                              *)
RefuseTool ==
  /\ pc = "calling" /\ call <= response.calls
  /\ baseline' \in Snapshot \cup {baseline}
  /\ IF canceled THEN End("canceled") /\ UNCHANGED <<messages, call, kind>>
     ELSE Finished
  /\ UNCHANGED <<callFrame, granted, shellRan>>

(* Arguments that are not JSON, or that cannot be used, end the turn. *)
AbortTool ==
  /\ pc = "calling" /\ call <= response.calls
  /\ baseline' \in Snapshot \cup {baseline}
  /\ IF canceled THEN End("canceled") ELSE End("failed")
  /\ UNCHANGED <<callFrame, messages, call, kind, granted, shellRan>>

toolFrame == <<callFrame, messages, call, kind, baseline>>

(* Mutant: approval is skipped. *)
EnsureApprovalSkipped ==
  /\ pc = "requested"
  /\ Goto("cleared")
  /\ UNCHANGED <<toolFrame, granted, shellRan>>

(* ensure_approval: tool.approvalRequired.  Arguments or a tool that the   *)
(* executor does not support fail instead.                                 *)
EnsureApproval ==
  /\ pc = "requested"
  /\ \/ Goto(IF NeedsApproval(kind) THEN "waiting" ELSE "cleared")
     \/ End("failed")
  /\ UNCHANGED <<toolFrame, granted, shellRan>>

(* ApprovalPolicy::decide, or its error; tool.approvalResolved. *)
Decide(verdict) ==
  /\ pc = "waiting"
  /\ verdict = "canceled" => canceled
  /\ CASE verdict = "approved"               -> Goto("cleared")
       [] verdict \in {"rejected", "error"}   -> End("failed")
       [] verdict \in {"canceled", "expired"} -> End("canceled")
  /\ granted' = IF verdict = "approved" THEN granted \cup {call} ELSE granted
  /\ UNCHANGED <<toolFrame, shellRan>>

(* execute_without_approval: the token is checked, tool.started. *)
StartTool ==
  /\ pc = "cleared"
  /\ CheckedGoto("executing")
  /\ shellRan' = (shellRan \/ (~canceled /\ IsShell(kind)))
  /\ UNCHANGED <<toolFrame, granted>>

(* tool.completed, whatever the status of the result. *)
CompleteTool ==
  /\ pc = "executing"
  /\ Finished
  /\ UNCHANGED <<callFrame, baseline, granted, shellRan>>

(* A canceled tool, or an error that is not reported to the model. *)
ToolFails ==
  /\ pc = "executing"
  /\ \/ canceled /\ End("canceled")
     \/ End("failed")
  /\ UNCHANGED <<toolFrame, granted, shellRan>>
-----------------------------------------------------------------------------
(* ensure_model_turn_budget_continuation. *)

budgetFrame == <<iteration, turnVars, clientVars, granted, shellRan>>
retryVars   == <<budgetEnd, transient, idle, misses>>

Exhausted ==
  /\ pc = "iterate" /\ iteration = budgetEnd
  /\ CheckedGoto("prompted")
  /\ UNCHANGED <<budgetFrame, retryVars, permits>>

(* tool.approvalRequired was sent; the token is checked again. *)
RecheckBudget ==
  /\ pc = "prompted"
  /\ CheckedGoto("deciding")
  /\ UNCHANGED <<budgetFrame, retryVars, permits>>

Permit(verdict) ==
  permits' = IF verdict = "approved" THEN permits + 1 ELSE permits

(* A new window has fresh retries. *)
NewWindow ==
  /\ Goto("iterate")
  /\ budgetEnd' = budgetEnd + MaxModelTurns
  /\ transient' = TransientRetries /\ idle' = IdleAttempts - 1
  /\ misses' = 0

(* Mutant: an expired prompt renews the budget. *)
RenewOnExpiry(verdict) ==
  /\ pc = "deciding"
  /\ verdict = "canceled" => canceled
  /\ verdict = "approved" => permits + 1 < MaxWindows
  /\ CASE verdict \in {"approved", "expired"} -> NewWindow
       [] verdict \in {"rejected", "error"}   -> End("failed")
                                                /\ UNCHANGED retryVars
       [] verdict = "canceled"                -> End("canceled")
                                                /\ UNCHANGED retryVars
  /\ Permit(verdict)
  /\ UNCHANGED budgetFrame

(* ApprovalPolicy::decide, or its error; tool.approvalResolved. *)
RenewBudget(verdict) ==
  /\ pc = "deciding"
  /\ verdict = "canceled" => canceled
  /\ verdict = "approved" => permits + 1 < MaxWindows
  /\ CASE verdict = "approved"               -> NewWindow
       [] verdict \in {"rejected", "error"}   -> End("failed")
                                                /\ UNCHANGED retryVars
       [] verdict \in {"canceled", "expired"} -> End("canceled")
                                                /\ UNCHANGED retryVars
  /\ Permit(verdict)
  /\ UNCHANGED budgetFrame
-----------------------------------------------------------------------------
(* append_turn_event fails: there is no terminal event. *)
LogFails ==
  /\ pc # "done"
  /\ End("silent")
  /\ UNCHANGED <<configVars, turnVars, clientVars, historyVars>>

(* The client: agent.cancel and agent.steer. *)
CancelTurn ==
  /\ ~canceled /\ pc # "done"
  /\ canceled' = TRUE
  /\ UNCHANGED <<pc, configVars, turnVars, steers, steered, outcome,
                 historyVars>>

Steer ==
  /\ pc # "done" /\ steered < MaxSteers
  /\ steers' = steers + 1 /\ steered' = steered + 1
  /\ UNCHANGED <<pc, configVars, turnVars, canceled, outcome, historyVars>>

Terminated == pc = "done" /\ UNCHANGED vars
-----------------------------------------------------------------------------
Verdicts == {"approved", "rejected", "canceled", "expired", "error"}

ProviderStep ==
  \/ OpenStream \/ EndStream
  \/ \E a \in Answer : ReceiveAnswer(a)
  \/ ProviderFails \/ ProviderInterrupted \/ ProviderStalls

ToolStep ==
  \/ NoMoreCalls \/ RefuseTool \/ AbortTool
  \/ \E k \in Kinds : RequestTool(k)
  \/ EnsureApproval \/ StartTool \/ CompleteTool \/ ToolFails
  \/ \E verdict \in Verdicts : Decide(verdict)

WorkerStep ==
  \/ Begin \/ Ask \/ ProviderStep
  \/ Truncated \/ FinalAnswer \/ TakeCalls \/ ToolStep
  \/ Exhausted \/ RecheckBudget
  \/ \E verdict \in Verdicts : RenewBudget(verdict)

Next == WorkerStep \/ LogFails \/ CancelTurn \/ Steer \/ Terminated

(* The thread is scheduled, the provider answers or the idle timeout fires *)
(* (a stream does not send deltas for ever), and an approval is decided or *)
(* expires.                                                                *)
Spec     == Init /\ [][Next]_vars
FairSpec == Spec /\ WF_vars(WorkerStep)
-----------------------------------------------------------------------------
(* Properties. *)

(* What the provider is sent is a conversation it accepts, after any mix   *)
(* of retries, truncated answers, steers, refused and failed calls: each   *)
(* message with tool calls is followed by the results of exactly those     *)
(* calls, in order, and carries the reasoning the thinking mode requires.  *)
ConversationIsWellFormed ==
  pc \in {"asking", "streaming"} =>
    \A i \in DOMAIN messages :
      /\ messages[i].role = "calls" =>
           /\ i + messages[i].of <= Len(messages)
           /\ \A n \in 1..messages[i].of : messages[i + n] = Result(n)
           /\ Thinking => messages[i].reasoning
      /\ messages[i].role = "result" =>
           \E j \in 1..i - 1 : messages[j].role = "calls"
                               /\ messages[j].of >= i - j

(* The turn never fails over its own conversation: prepare_messages finds  *)
(* the reasoning it needs whenever the provider left it out.               *)
PrepareNeverFails == pc = "iterate" => Prepared(messages)

(* No tool runs on a truncated answer, nor does it become part of the      *)
(* conversation (docs/turn-loop.md).                                       *)
TruncatedCallsNeverRun ==
  pc \in {"calling", "requested", "waiting", "cleared", "executing"} =>
    response.finish # "length"

(* A tool that needs approval runs only after the user approved this call  *)
(* of this answer.                                                         *)
ApprovedBeforeStart ==
  pc = "executing" /\ NeedsApproval(kind) => call \in granted

(* Failed attempts in a row are bounded by the two retry counts together,  *)
(* however transient errors and stalls alternate.                          *)
RetriesAreBounded == misses < TransientRetries + IdleAttempts

(* When the turn completes, every change a shell command made can be       *)
(* reported: the snapshot was taken (or its failure reported) before the   *)
(* first command ran.                                                      *)
ShellChangesAreCovered ==
  outcome = "completed" /\ shellRan => baseline # "none"

(* The turn follows the protocol: see TurnProtocol. *)
Phase ==
  CASE pc = "start" -> "new"
    [] pc \in {"iterate", "prompted", "deciding"} -> "idle"
    [] pc \in {"asking", "streaming", "answered"} -> "asking"
    [] pc \in {"calling", "requested", "waiting", "cleared", "executing"}
         -> "working"
    [] OTHER -> IF outcome = "completed" THEN "completed" ELSE "aborted"

(* The last message with tool calls, and the results since. *)
LastCalls(conversation) ==
  Max({0} \cup {i \in DOMAIN conversation : conversation[i].role = "calls"})

ResultsAfter(conversation, n) ==
  {i \in DOMAIN conversation : i > n /\ conversation[i].role = "result"}

(* Tool calls of the last such message that have no result. *)
OwedIn(conversation) ==
  LET last == LastCalls(conversation)
  IN  (IF last = 0 THEN 0 ELSE conversation[last].of)
      - Cardinality(ResultsAfter(conversation, last))

Protocol == INSTANCE TurnProtocol
              WITH Window <- MaxModelTurns, MaxOwed <- MaxCalls,
                   phase <- Phase, asked <- iteration, owed <- OwedIn(messages)

ImplementsProtocol == Protocol!Spec

(* Every turn ends, by itself or by its budget. *)
TurnEnds == <>(pc = "done")
=============================================================================
