--------------------------- MODULE TurnLoopProofs ---------------------------
(***************************************************************************)
(* Proofs about TurnLoop, for any numbers of requests, retries, calls,     *)
(* windows and steer messages: its safety invariants, that every turn      *)
(* follows TurnProtocol, and that its conversation is well formed.         *)
(*                                                                         *)
(* For the protocol: what the conversation owes the provider is what the   *)
(* number of the executed call says it owes, and each step of TurnLoop is  *)
(* a step of the protocol or none.                                         *)
(***************************************************************************)
EXTENDS TurnLoop, FiniteSetTheorems, TLAPS

(* While a call is executed.                                               *)
Executing == {"requested", "waiting", "cleared", "executing"}

(* An answer is there from its arrival to the next request, and the number *)
(* of the call being executed is one of its calls.                         *)
AnswerInv ==
  /\ pc \in {"answered", "calling"} \cup Executing => response \in Answer
  /\ pc \in {"calling"} \cup Executing =>
       /\ call \in 1..response.calls + 1
       /\ response.finish # "length"
  /\ pc \in Executing => call <= response.calls /\ kind \in Kinds

(* The windows are those the user allowed; a prompt ends one.              *)
BudgetInv ==
  /\ budgetEnd = MaxModelTurns * (permits + 1)
  /\ pc \in {"prompted", "deciding"} => iteration = budgetEnd

(* Every failed attempt since the last success used up a retry.            *)
RetryInv == misses + transient + idle <= TransientRetries + IdleAttempts - 1

(* Nothing is started that was not cleared.                                *)
ApprovalInv ==
  pc \in {"cleared", "executing"} /\ NeedsApproval(kind) => call \in granted

(* The snapshot precedes the shell command that makes it necessary.        *)
BaselineInv ==
  /\ shellRan => baseline # "none"
  /\ pc \in Executing /\ IsShell(kind) => baseline # "none"

SteerInv == steers <= steered

(* Tool calls never enter the conversation without their reasoning.        *)
PreparedInv == Prepared(messages)

IInv ==
  /\ TypeOK /\ AnswerInv /\ BudgetInv /\ RetryInv /\ ApprovalInv
  /\ BaselineInv /\ SteerInv /\ PreparedInv
-----------------------------------------------------------------------------
(* Conversations.                                                          *)

(* The messages the turn adds are messages.                                *)
LEMMA MessageTypes ==
  /\ Text \in Message
  /\ \A i \in 1..MaxCalls : Result(i) \in Message
  /\ \A a \in Answer, b \in BOOLEAN : a.calls > 0 => Calls(a, b) \in Message
BY TurnAssumption DEF Text, Result, Calls, Message, Answer

(* The number a message carries.                                           *)
LEMMA MessageOf == \A m \in Message : m.of \in Nat
<1>1. MaxCalls \in Nat
  BY TurnAssumption
<1> SUFFICES ASSUME NEW m \in Message
             PROVE  m.of \in Nat
  OBVIOUS
<1>2. CASE m \in [role : {"text"}, of : {0}, reasoning : {FALSE}]
  BY <1>2
<1>3. CASE m \in [role : {"calls"}, of : 1..MaxCalls, reasoning : BOOLEAN]
  BY <1>1, <1>3
<1>4. CASE m \in [role : {"result"}, of : 1..MaxCalls, reasoning : {FALSE}]
  BY <1>1, <1>4
<1> QED
  BY <1>2, <1>3, <1>4, Zenon DEF Message

(* Text keeps a conversation one,                                          *)
LEMMA SayType ==
  ASSUME NEW conversation \in Seq(Message)
  PROVE  Say(conversation) \in Seq(Message)
BY MessageTypes DEF Say

(* and needs no reasoning.                                                 *)
LEMMA SayPrepared ==
  ASSUME NEW conversation \in Seq(Message), Prepared(conversation)
  PROVE  Prepared(Say(conversation))
BY MessageTypes DEF Say, Prepared, Text

(* Nor does any message but calls.                                         *)
LEMMA AppendPrepared ==
  ASSUME NEW conversation \in Seq(Message), Prepared(conversation),
         NEW m \in Message, Thinking /\ m.role = "calls" => m.reasoning
  PROVE  Prepared(Append(conversation, m))
BY DEF Prepared
-----------------------------------------------------------------------------
(* The inductive step.                                                     *)

(* A message more.                                                         *)
LEMMA AppendType ==
  ASSUME NEW conversation \in Seq(Message), NEW m \in Message
  PROVE  Append(conversation, m) \in Seq(Message)
OBVIOUS

(* The result of a call is pushed: the next call of the answer follows.    *)
LEMMA FinishedStep ==
  ASSUME IInv, Finished, pc \in {"calling"} \cup Executing,
         call <= response.calls,
         baseline' \in Snapshot \cup {baseline},
         UNCHANGED <<callFrame, granted, shellRan>>
  PROVE  IInv'
<1> USE DEF IInv, callFrame, configVars, clientVars
<1>1. call \in 1..MaxCalls /\ response.calls \in 0..MaxCalls
  BY TurnAssumption DEF AnswerInv, Executing, Answer, TypeOK
<1>2. Result(call) \in Message /\ Result(call).role = "result"
  BY <1>1, MessageTypes DEF Result
<1>3. messages' = Append(messages, Result(call)) /\ messages \in Seq(Message)
  BY DEF Finished, TypeOK
<1>4. messages' \in Seq(Message)
  BY <1>2, <1>3, AppendType
<1>5. TypeOK'
  <2>1. call' \in 0..MaxCalls + 1 /\ kind' = None /\ pc' = "calling"
    BY <1>1, TurnAssumption DEF Finished, Goto
  <2>2. baseline' \in {"none", "taken", "failed"}
    BY DEF Snapshot, TypeOK
  <2> QED
    BY <1>4, <2>1, <2>2 DEF TypeOK, Finished, Goto
<1>6. PreparedInv'
  BY <1>2, <1>3, AppendPrepared DEF PreparedInv
<1>7. AnswerInv'
  BY <1>1 DEF AnswerInv, Executing, Finished, Goto
<1>8. BaselineInv'
  BY DEF BaselineInv, Executing, Finished, Goto, Snapshot
<1>9. /\ BudgetInv' /\ RetryInv' /\ ApprovalInv' /\ SteerInv'
  BY DEF BudgetInv, RetryInv, ApprovalInv, SteerInv, Finished, Goto
<1> QED
  BY <1>5, <1>6, <1>7, <1>8, <1>9

(* The calls of an answer enter the conversation with their reasoning.     *)
LEMMA TakeCallsStep ==
  ASSUME IInv, TakeCalls
  PROVE  IInv'
<1> USE DEF IInv, answerFrame, clientVars, historyVars
<1>1. response \in Answer /\ response.calls \in 1..MaxCalls
  BY TurnAssumption DEF TakeCalls, AnswerInv, Answer
<1>2. PICK b \in BOOLEAN : b = (response.reasoning \/ Thinking)
  BY Zenon
<1> DEFINE m == Calls(response, b)
<1>3. m \in Message
  BY <1>1, MessageTypes
<1>4. Thinking => m.reasoning
  BY <1>2 DEF Calls
<1>5. messages' = Append(messages, m) /\ messages \in Seq(Message)
  BY <1>2, Zenon DEF TakeCalls, TypeOK
<1>6. messages' \in Seq(Message)
  BY <1>3, <1>5, AppendType
<1> HIDE DEF m
<1>7. TypeOK'
  BY <1>1, <1>6, TurnAssumption DEF TypeOK, TakeCalls, Goto
<1>8. PreparedInv'
  BY <1>3, <1>4, <1>5, AppendPrepared DEF PreparedInv
<1>9. AnswerInv'
  BY <1>1 DEF AnswerInv, Executing, TakeCalls, Goto
<1>10. BudgetInv' /\ RetryInv' /\ ApprovalInv' /\ BaselineInv' /\ SteerInv'
  BY DEF BudgetInv, RetryInv, ApprovalInv, BaselineInv, SteerInv, Executing,
     TakeCalls, Goto
<1> QED
  BY <1>7, <1>8, <1>9, <1>10

(* A further window is one the user allowed.                               *)
LEMMA Windows ==
  ASSUME NEW n \in 0..MaxWindows - 1
  PROVE  /\ MaxModelTurns * (n + 1) \in {w * MaxModelTurns : w \in 1..MaxWindows}
         /\ MaxModelTurns * (n + 1) \in Nat
         /\ MaxModelTurns * (n + 1) + MaxModelTurns = MaxModelTurns * (n + 2)
<1>1. n \in Nat /\ n + 1 \in 1..MaxWindows /\ MaxModelTurns \in Nat
  BY TurnAssumption
<1>2. MaxModelTurns * (n + 1) = (n + 1) * MaxModelTurns
  BY <1>1
<1> QED
  BY <1>1, <1>2

(* A prompt for the budget opens a window or ends the turn.                *)
LEMMA RenewBudgetStep ==
  ASSUME IInv, NEW verdict \in Verdicts, RenewBudget(verdict)
  PROVE  IInv'
<1>a. /\ TypeOK /\ AnswerInv /\ BudgetInv /\ RetryInv /\ ApprovalInv
      /\ BaselineInv /\ SteerInv /\ PreparedInv
  BY DEF IInv
<1>b. UNCHANGED <<iteration, messages, response, call, kind, baseline, steers,
                  steered, canceled, granted, shellRan>>
  BY DEF RenewBudget, budgetFrame, turnVars, clientVars
<1>c. pc = "deciding" /\ pc' \in {"iterate", "done"}
  BY DEF RenewBudget, NewWindow, Verdicts, Goto, End
<1>1. CASE verdict = "approved"
  <2>1. permits + 1 < MaxWindows /\ NewWindow /\ permits' = permits + 1
    BY <1>1 DEF RenewBudget, Permit
  <2>2. permits \in 0..MaxWindows - 1 /\ permits' \in 0..MaxWindows - 1
    BY <1>a, <2>1, TurnAssumption DEF TypeOK
  <2>3. /\ budgetEnd = MaxModelTurns * (permits + 1)
        /\ budgetEnd' = budgetEnd + MaxModelTurns
    BY <1>a, <2>1 DEF BudgetInv, NewWindow
  <2>4. budgetEnd' = MaxModelTurns * (permits' + 1)
    BY <2>1, <2>2, <2>3, Windows
  <2>5. iteration' \in 0..budgetEnd'
    BY <1>a, <1>b, <2>2, <2>3, Windows, TurnAssumption DEF TypeOK
  <2>6. TypeOK'
    <3>1. budgetEnd' \in {w * MaxModelTurns : w \in 1..MaxWindows}
      BY <2>2, <2>4, Windows
    <3>2. /\ transient' \in 0..TransientRetries
          /\ idle' \in 0..IdleAttempts - 1
          /\ misses' \in Nat
      BY <2>1, TurnAssumption DEF NewWindow
    <3>3. pc' = "iterate" /\ outcome' = outcome
      BY <2>1 DEF NewWindow, Goto
    <3> QED
      BY <1>a, <1>b, <2>2, <2>5, <3>1, <3>2, <3>3 DEF TypeOK
  <2>7. BudgetInv' /\ RetryInv'
    BY <1>c, <2>1, <2>4, TurnAssumption DEF BudgetInv, RetryInv, NewWindow, Goto
  <2> QED
    BY <1>a, <1>b, <1>c, <2>6, <2>7
       DEF IInv, AnswerInv, ApprovalInv, BaselineInv, SteerInv, PreparedInv,
           Executing
<1>2. CASE verdict # "approved"
  <2>1. /\ UNCHANGED <<budgetEnd, transient, idle, misses, permits>>
        /\ outcome' \in {"failed", "canceled"}
        /\ pc' = "done"
    BY <1>2 DEF RenewBudget, Permit, Verdicts, retryVars, End
  <2> QED
    BY <1>a, <1>b, <2>1
       DEF IInv, TypeOK, AnswerInv, BudgetInv, RetryInv, ApprovalInv,
           BaselineInv, SteerInv, PreparedInv, Executing
<1> QED
  BY <1>1, <1>2

(* A decision clears the call it is about, or ends the turn.               *)
LEMMA DecideStep ==
  ASSUME IInv, NEW verdict \in Verdicts, Decide(verdict)
  PROVE  IInv'
<1> USE DEF IInv, toolFrame, callFrame, configVars, clientVars
<1>1. call \in 1..MaxCalls
  <2>1. call \in 1..response.calls + 1 /\ call <= response.calls
    BY DEF Decide, AnswerInv, Executing
  <2>2. response \in Answer
    BY DEF Decide, AnswerInv, Executing
  <2>3. response.calls \in 0..MaxCalls
    BY <2>2 DEF Answer
  <2> QED
    BY <2>1, <2>3, TurnAssumption
<1>2. /\ pc' \in {"cleared", "done"}
      /\ outcome' \in {"none", "completed", "failed", "canceled", "silent"}
      /\ pc' = "cleared" => verdict = "approved"
  BY DEF Decide, Verdicts, Goto, End, TypeOK
<1>3. /\ granted' \subseteq 1..MaxCalls
      /\ pc' = "cleared" => call \in granted'
  BY <1>1, <1>2 DEF Decide, TypeOK
<1>4. TypeOK'
  BY <1>2, <1>3 DEF TypeOK, Decide
<1>5. ApprovalInv'
  BY <1>2, <1>3 DEF ApprovalInv, Decide
<1>6. /\ AnswerInv' /\ BudgetInv' /\ RetryInv' /\ BaselineInv' /\ SteerInv'
      /\ PreparedInv'
  BY <1>2 DEF AnswerInv, BudgetInv, RetryInv, BaselineInv, SteerInv,
     PreparedInv, Executing, Decide
<1> QED
  BY <1>4, <1>5, <1>6

(* A turn begins with nothing asked and nothing granted.                   *)
LEMMA InitInv == Init => IInv
<1> USE TurnAssumption
<1>1. Init => TypeOK
  <2> SUFFICES ASSUME Init PROVE TypeOK
    OBVIOUS
  <2>1. budgetEnd = MaxModelTurns * (0 + 1) /\ 0 \in 0..MaxWindows - 1
    BY DEF Init
  <2>2. budgetEnd \in {w * MaxModelTurns : w \in 1..MaxWindows}
    BY <2>1, Windows
  <2>3. iteration \in 0..budgetEnd
    BY <2>1 DEF Init
  <2>4. /\ transient \in 0..TransientRetries
        /\ idle \in 0..IdleAttempts - 1
        /\ call \in 0..MaxCalls + 1
        /\ steers \in 0..MaxSteers /\ steered \in 0..MaxSteers
        /\ permits \in 0..MaxWindows - 1
        /\ misses \in Nat
    BY DEF Init
  <2>5. messages \in Seq(Message) /\ granted \subseteq 1..MaxCalls
    BY DEF Init
  <2>6. /\ response \in {None} \cup Answer /\ kind \in {None} \cup Kinds
        /\ canceled \in BOOLEAN /\ shellRan \in BOOLEAN
    BY DEF Init
  <2>7. /\ pc = "start" /\ baseline = "none" /\ outcome = "none"
    BY DEF Init
  <2> QED
    BY <2>2, <2>3, <2>4, <2>5, <2>6, <2>7 DEF TypeOK
<1>2. Init => BudgetInv
  BY DEF Init, BudgetInv
<1>3. Init => /\ AnswerInv /\ RetryInv /\ ApprovalInv /\ BaselineInv
              /\ SteerInv /\ PreparedInv
  BY DEF Init, AnswerInv, RetryInv, ApprovalInv, BaselineInv, SteerInv,
     PreparedInv, Prepared, Executing
<1> QED
  BY <1>1, <1>2, <1>3 DEF IInv

(* The invariant is inductive.                                             *)
LEMMA InvStep ==
  ASSUME IInv, [Next]_vars
  PROVE  IInv'
<1> USE TurnAssumption, SayType, SayPrepared
    DEF IInv, TypeOK, AnswerInv, BudgetInv, RetryInv, ApprovalInv,
        BaselineInv, SteerInv, PreparedInv, Executing, configVars, turnVars,
        clientVars, historyVars, Goto, End, CheckedGoto
<1>1. CASE Begin
  BY <1>1 DEF Begin
<1>2. CASE Ask
  BY <1>2 DEF Ask
<1>3. CASE OpenStream
  BY <1>3 DEF OpenStream, streamFrame
<1>4. CASE ProviderFails
  BY <1>4 DEF ProviderFails, streamFrame
<1>5. CASE ProviderInterrupted
  <2>1. CASE canceled
    BY <1>5, <2>1 DEF ProviderInterrupted, streamFrame
  <2>2. CASE ~canceled /\ transient > 0
    BY <1>5, <2>2 DEF ProviderInterrupted, streamFrame
  <2>3. CASE ~canceled /\ ~(transient > 0)
    BY <1>5, <2>3 DEF ProviderInterrupted, streamFrame
  <2> QED
    BY <2>1, <2>2, <2>3
<1>6. CASE ProviderStalls
  <2>1. CASE idle > 0
    BY <1>6, <2>1 DEF ProviderStalls, streamFrame
  <2>2. CASE ~(idle > 0)
    BY <1>6, <2>2 DEF ProviderStalls, streamFrame
  <2> QED
    BY <2>1, <2>2
<1>7. CASE EndStream
  BY <1>7 DEF EndStream, streamFrame
<1>8. CASE Truncated
  BY <1>8 DEF Truncated, answerFrame
<1>9. CASE FinalAnswer
  BY <1>9 DEF FinalAnswer, answerFrame
<1>10. CASE NoMoreCalls
  BY <1>10 DEF NoMoreCalls, callFrame
<1>11. CASE AbortTool
  BY <1>11 DEF AbortTool, callFrame, Snapshot
<1>12. CASE EnsureApproval
  BY <1>12 DEF EnsureApproval, toolFrame, callFrame
<1>13. CASE StartTool
  BY <1>13 DEF StartTool, toolFrame, callFrame
<1>14. CASE ToolFails
  BY <1>14 DEF ToolFails, toolFrame, callFrame
<1>15. CASE Exhausted
  BY <1>15 DEF Exhausted, budgetFrame, retryVars
<1>16. CASE RecheckBudget
  BY <1>16 DEF RecheckBudget, budgetFrame, retryVars
<1>17. CASE LogFails
  BY <1>17 DEF LogFails
<1>18. CASE CancelTurn
  BY <1>18 DEF CancelTurn
<1>19. CASE Steer
  BY <1>19 DEF Steer
<1>20. ASSUME NEW a \in Answer, ReceiveAnswer(a)
      PROVE  IInv'
  BY <1>20 DEF ReceiveAnswer, streamFrame
<1>21. CASE TakeCalls
  BY <1>21, TakeCallsStep
<1>22. ASSUME NEW k \in Kinds, RequestTool(k)
      PROVE  IInv'
  BY <1>22 DEF RequestTool, callFrame, BaselineBefore, Snapshot
<1>23. CASE RefuseTool
  <2>1. CASE canceled
    BY <1>23, <2>1 DEF RefuseTool, callFrame, Snapshot
  <2>2. CASE ~canceled
    BY <1>23, <2>2, FinishedStep DEF RefuseTool
  <2> QED
    BY <2>1, <2>2
<1>24. ASSUME NEW verdict \in Verdicts, Decide(verdict)
      PROVE  IInv'
  BY <1>24, DecideStep
<1>25. CASE CompleteTool
  BY <1>25, FinishedStep DEF CompleteTool
<1>26. ASSUME NEW verdict \in Verdicts, RenewBudget(verdict)
      PROVE  IInv'
  BY <1>26, RenewBudgetStep
<1>27. CASE UNCHANGED vars
  BY <1>27 DEF vars
<1> QED
  BY <1>1, <1>2, <1>3, <1>4, <1>5, <1>6, <1>7, <1>8, <1>9, <1>10, <1>11,
     <1>12, <1>13, <1>14, <1>15, <1>16, <1>17, <1>18, <1>19, <1>20, <1>21,
     <1>22, <1>23, <1>24, <1>25, <1>26, <1>27 DEF Next, WorkerStep,
     ProviderStep, ToolStep, Terminated
-----------------------------------------------------------------------------
(* The theorems.                                                           *)

(* The strengthening holds in every reachable state of every turn.         *)
THEOREM Invariance == Spec => []IInv
<1>1. Init => IInv
  BY InitInv
<1>2. IInv /\ [Next]_vars => IInv'
  BY InvStep
<1> QED
  BY <1>1, <1>2, PTL DEF Spec

(* Every variable keeps its type; a turn makes no more provider requests   *)
(* than its windows allow, and queues no more than its calls.              *)
THEOREM TypeCorrect == Spec => []TypeOK
<1>1. IInv => TypeOK
  BY DEF IInv
<1> QED
  BY <1>1, Invariance, PTL

(* prepare_messages finds the reasoning of every replayed tool call.       *)
THEOREM PrepareSucceeds == Spec => []PrepareNeverFails
<1>1. IInv => PrepareNeverFails
  BY DEF IInv, PreparedInv, PrepareNeverFails
<1> QED
  BY <1>1, Invariance, PTL

(* No tool is asked for, approved or run on a truncated answer.            *)
THEOREM TruncationIsFinal == Spec => []TruncatedCallsNeverRun
<1>1. IInv => TruncatedCallsNeverRun
  BY DEF IInv, AnswerInv, Executing, TruncatedCallsNeverRun
<1> QED
  BY <1>1, Invariance, PTL

(* A shell command or a patch that needs approval starts only after the    *)
(* user approved this very call, in every turn and after every retry.      *)
THEOREM ApprovalPrecedesStart == Spec => []ApprovedBeforeStart
<1>1. IInv => ApprovedBeforeStart
  BY DEF IInv, ApprovalInv, ApprovedBeforeStart
<1> QED
  BY <1>1, Invariance, PTL

(* Stalls and transient errors, alternating in any way, stop after as many *)
(* attempts as the two retry counts allow together.                        *)
THEOREM AttemptsAreBounded == Spec => []RetriesAreBounded
<1>1. IInv => RetriesAreBounded
  BY TurnAssumption DEF IInv, TypeOK, RetryInv, RetriesAreBounded
<1> QED
  BY <1>1, Invariance, PTL

(* When a turn completes, a snapshot was taken, or its failure reported,   *)
(* before its first shell command.                                         *)
THEOREM ChangesAreCovered == Spec => []ShellChangesAreCovered
<1>1. IInv => ShellChangesAreCovered
  BY DEF IInv, BaselineInv, ShellChangesAreCovered
<1> QED
  BY <1>1, Invariance, PTL
-----------------------------------------------------------------------------
(* What the conversation owes.                                             *)

(* The calls still to be executed, by the counters of the code.            *)
Owed == IF call = 0 THEN 0 ELSE response.calls + 1 - call

(* They are those the conversation has no results for, and the provider is *)
(* asked again when there are none.                                        *)
OwedInv ==
  /\ LastCalls(messages) \in 0..Len(messages)
  /\ OwedIn(messages) = Owed
  /\ call > 0 => response \in Answer /\ call <= response.calls + 1
  /\ pc \notin {"calling", "done"} \cup Executing => Owed = 0
  /\ pc \in {"asking", "streaming", "answered"} => call = 0

(* A largest member is the largest member.                                 *)
LEMMA MaxIs ==
  ASSUME NEW S, NEW n \in S, S \subseteq Int, \A m \in S : n >= m
  PROVE  Max(S) = n
<1>1. \A x \in S : (\A y \in S : x >= y) => x = n
  OBVIOUS
<1> QED
  BY <1>1 DEF Max

(* Results can be counted.                                                 *)
LEMMA ResultsAreFinite ==
  ASSUME NEW conversation \in Seq(Message), NEW n
  PROVE  /\ IsFiniteSet(ResultsAfter(conversation, n))
         /\ Cardinality(ResultsAfter(conversation, n)) \in Nat
<1>1. ResultsAfter(conversation, n) \subseteq 1..Len(conversation)
  BY DEF ResultsAfter
<1>2. IsFiniteSet(1..Len(conversation))
  BY FS_Interval
<1>3. IsFiniteSet(ResultsAfter(conversation, n))
  BY <1>1, <1>2, FS_Subset
<1> QED
  BY <1>3, FS_CardinalityType

(* An empty conversation owes nothing.                                     *)
LEMMA OwedNothing ==
  /\ LastCalls(<<>>) = 0
  /\ OwedIn(<<>>) = 0
<1>1. {0} \cup {i \in DOMAIN <<>> : <<>>[i].role = "calls"} = {0}
  OBVIOUS
<1>2. Max({0}) = 0
  BY MaxIs
<1>3. LastCalls(<<>>) = 0
  BY <1>1, <1>2 DEF LastCalls
<1>4. ResultsAfter(<<>>, 0) = {}
  BY DEF ResultsAfter
<1> QED
  BY <1>3, <1>4, FS_EmptySet DEF OwedIn

(* A message without tool calls leaves the last one with calls in place.   *)
LEMMA LastCallsStay ==
  ASSUME NEW conversation \in Seq(Message), NEW m \in Message,
         m.role # "calls"
  PROVE  LastCalls(Append(conversation, m)) = LastCalls(conversation)
<1> DEFINE longer == Append(conversation, m)
<1>1. {i \in DOMAIN longer : longer[i].role = "calls"}
        = {i \in DOMAIN conversation : conversation[i].role = "calls"}
  OBVIOUS
<1> QED
  BY <1>1 DEF LastCalls

(* Text settles nothing;                                                   *)
LEMMA OwedAfterText ==
  ASSUME NEW conversation \in Seq(Message),
         LastCalls(conversation) \in 0..Len(conversation)
  PROVE  /\ LastCalls(Say(conversation)) \in 0..Len(Say(conversation))
         /\ OwedIn(Say(conversation)) = OwedIn(conversation)
<1> DEFINE longer == Append(conversation, Text)
           last   == LastCalls(conversation)
<1>1. Text \in Message /\ Text.role = "text"
  BY MessageTypes DEF Text
<1>2. LastCalls(longer) = last
  BY <1>1, LastCallsStay
<1>3. ResultsAfter(longer, last) = ResultsAfter(conversation, last)
  BY <1>1 DEF ResultsAfter
<1>4. last # 0 => longer[last] = conversation[last]
  OBVIOUS
<1>5. OwedIn(longer) = OwedIn(conversation)
  BY <1>2, <1>3, <1>4 DEF OwedIn
<1>6. Len(longer) = Len(conversation) + 1
  OBVIOUS
<1> QED
  BY <1>2, <1>5, <1>6 DEF Say

(* a result settles one call;                                              *)
LEMMA OwedAfterResult ==
  ASSUME NEW conversation \in Seq(Message), NEW n \in 1..MaxCalls,
         LastCalls(conversation) \in 0..Len(conversation)
  PROVE  LET longer == Append(conversation, Result(n))
         IN  /\ LastCalls(longer) \in 0..Len(longer)
             /\ OwedIn(longer) = OwedIn(conversation) - 1
<1> DEFINE longer == Append(conversation, Result(n))
           last   == LastCalls(conversation)
           new    == Len(conversation) + 1
           before == ResultsAfter(conversation, last)
<1>1. Result(n) \in Message /\ Result(n).role = "result"
  BY MessageTypes DEF Result
<1>2. LastCalls(longer) = last
  BY <1>1, LastCallsStay
<1>3. ResultsAfter(longer, last) = before \cup {new}
  BY <1>1 DEF ResultsAfter
<1>4. new \notin before
  BY DEF ResultsAfter
<1>5. IsFiniteSet(before) /\ Cardinality(before) \in Nat
  BY ResultsAreFinite
<1>6. Cardinality(before \cup {new}) = Cardinality(before) + 1
  BY <1>4, <1>5, FS_AddElement
<1>7. last # 0 =>
        longer[last] = conversation[last] /\ conversation[last] \in Message
  OBVIOUS
<1>8. OwedIn(longer) = OwedIn(conversation) - 1
  BY <1>2, <1>3, <1>5, <1>6, <1>7, MessageOf DEF OwedIn
<1> QED
  BY <1>2, <1>8

(* and a new answer owes its own calls.                                    *)
LEMMA OwedAfterCalls ==
  ASSUME NEW conversation \in Seq(Message), NEW m \in Message,
         m.role = "calls"
  PROVE  LET longer == Append(conversation, m)
         IN  /\ LastCalls(longer) \in 0..Len(longer)
             /\ OwedIn(longer) = m.of
<1> DEFINE longer == Append(conversation, m)
           new    == Len(conversation) + 1
           asked  == {0} \cup {i \in DOMAIN longer : longer[i].role = "calls"}
<1>1. new \in asked /\ asked \subseteq Int /\ \A i \in asked : new >= i
  OBVIOUS
<1>2. LastCalls(longer) = new
  BY <1>1, MaxIs DEF LastCalls
<1>3. ResultsAfter(longer, new) = {}
  BY DEF ResultsAfter
<1>4. longer[new] = m /\ m.of \in Nat /\ new # 0 /\ new = Len(longer)
  BY MessageOf
<1>5. OwedIn(longer) = m.of
  BY <1>2, <1>3, <1>4, FS_EmptySet DEF OwedIn
<1> QED
  BY <1>2, <1>4, <1>5

(* Nor does a turn that begins.                                            *)
LEMMA OwedInit == Init => OwedInv
BY OwedNothing DEF Init, OwedInv, Owed, Executing

(* A call that is finished is one less to execute, and one result more.    *)
LEMMA OwedFinished ==
  ASSUME IInv, OwedInv, Finished, pc \in {"calling"} \cup Executing,
         call <= response.calls, UNCHANGED callFrame
  PROVE  OwedInv'
<1>1. call \in 1..MaxCalls /\ response \in Answer /\ response.calls \in Nat
  BY TurnAssumption DEF IInv, AnswerInv, Executing, Answer
<1>2. /\ messages' = Append(messages, Result(call))
      /\ call' = call + 1 /\ pc' = "calling" /\ response' = response
  BY DEF Finished, Goto, callFrame
<1>3. messages \in Seq(Message) /\ LastCalls(messages) \in 0..Len(messages)
  BY DEF IInv, TypeOK, OwedInv
<1>4. /\ LastCalls(messages') \in 0..Len(messages')
      /\ OwedIn(messages') = OwedIn(messages) - 1
  BY <1>1, <1>2, <1>3, OwedAfterResult
<1> QED
  BY <1>1, <1>2, <1>4 DEF OwedInv, Owed

(* The calls taken are those owed.                                         *)
LEMMA OwedTaken ==
  ASSUME IInv, OwedInv, TakeCalls
  PROVE  OwedInv'
<1>1. response \in Answer /\ response.calls \in 1..MaxCalls
  BY TurnAssumption DEF TakeCalls, IInv, AnswerInv, Answer
<1>2. PICK b \in BOOLEAN : b = (response.reasoning \/ Thinking)
  BY Zenon
<1> DEFINE m == Calls(response, b)
<1>3. m \in Message /\ m.role = "calls" /\ m.of = response.calls
  BY <1>1, MessageTypes DEF Calls
<1>4. messages' = Append(messages, m) /\ messages \in Seq(Message)
  BY <1>2, Zenon DEF TakeCalls, IInv, TypeOK
<1>5. call' = 1 /\ pc' = "calling" /\ response' = response
  BY DEF TakeCalls, Goto
<1> HIDE DEF m
<1>6. /\ LastCalls(messages') \in 0..Len(messages')
      /\ OwedIn(messages') = response.calls
  BY <1>3, <1>4, OwedAfterCalls
<1> QED
  BY <1>1, <1>5, <1>6 DEF OwedInv, Owed

(* The counters and the conversation agree after every step.               *)
LEMMA OwedStep ==
  ASSUME IInv, OwedInv, [Next]_vars
  PROVE  OwedInv'
<1>a. /\ messages \in Seq(Message)
      /\ LastCalls(Say(messages)) \in 0..Len(Say(messages))
      /\ OwedIn(Say(messages)) = OwedIn(messages)
  BY OwedAfterText DEF IInv, TypeOK, OwedInv
<1> USE <1>a DEF OwedInv, Owed, Executing, configVars, turnVars, clientVars,
             historyVars, Goto, End, CheckedGoto
<1>1. CASE Ask
  BY <1>1 DEF Ask
<1>2. CASE Begin
  BY <1>2 DEF Begin
<1>3. CASE OpenStream
  BY <1>3 DEF OpenStream, streamFrame
<1>4. CASE ProviderFails
  BY <1>4 DEF ProviderFails, streamFrame
<1>5. CASE ProviderInterrupted
  BY <1>5 DEF ProviderInterrupted, streamFrame
<1>6. CASE ProviderStalls
  BY <1>6 DEF ProviderStalls, streamFrame
<1>7. CASE EndStream
  BY <1>7 DEF EndStream, streamFrame
<1>8. CASE Truncated
  BY <1>8 DEF Truncated, answerFrame
<1>9. CASE FinalAnswer
  BY <1>9 DEF FinalAnswer, answerFrame
<1>10. CASE NoMoreCalls
  BY <1>10 DEF NoMoreCalls, callFrame, IInv, AnswerInv, Answer
<1>11. CASE AbortTool
  BY <1>11 DEF AbortTool, callFrame
<1>12. CASE EnsureApproval
  BY <1>12 DEF EnsureApproval, toolFrame, callFrame
<1>13. CASE StartTool
  BY <1>13 DEF StartTool, toolFrame, callFrame
<1>14. CASE ToolFails
  BY <1>14 DEF ToolFails, toolFrame, callFrame
<1>15. CASE Exhausted
  BY <1>15 DEF Exhausted, budgetFrame
<1>16. CASE RecheckBudget
  BY <1>16 DEF RecheckBudget, budgetFrame
<1>17. CASE LogFails
  BY <1>17 DEF LogFails
<1>18. CASE CancelTurn
  BY <1>18 DEF CancelTurn
<1>19. CASE Steer
  BY <1>19 DEF Steer
<1>20. ASSUME NEW a \in Answer, ReceiveAnswer(a)
      PROVE  OwedInv'
  BY <1>20 DEF ReceiveAnswer, streamFrame, IInv, AnswerInv
<1>21. CASE TakeCalls
  BY <1>21, OwedTaken
<1>22. ASSUME NEW k \in Kinds, RequestTool(k)
      PROVE  OwedInv'
  BY <1>22 DEF RequestTool, callFrame
<1>23. CASE RefuseTool
  <2>1. CASE canceled
    BY <1>23, <2>1 DEF RefuseTool, callFrame
  <2>2. CASE ~canceled
    BY <1>23, <2>2, OwedFinished DEF RefuseTool
  <2> QED
    BY <2>1, <2>2
<1>24. ASSUME NEW verdict \in Verdicts, Decide(verdict)
      PROVE  OwedInv'
  BY <1>24 DEF Decide, toolFrame, callFrame, Verdicts
<1>25. CASE CompleteTool
  BY <1>25, OwedFinished DEF CompleteTool, IInv, AnswerInv
<1>26. ASSUME NEW verdict \in Verdicts, RenewBudget(verdict)
      PROVE  OwedInv'
  BY <1>26 DEF RenewBudget, NewWindow, budgetFrame, Verdicts
<1>27. CASE UNCHANGED vars
  BY <1>27 DEF vars
<1> QED
  BY <1>1, <1>2, <1>3, <1>4, <1>5, <1>6, <1>7, <1>8, <1>9, <1>10, <1>11,
     <1>12, <1>13, <1>14, <1>15, <1>16, <1>17, <1>18, <1>19, <1>20, <1>21,
     <1>22, <1>23, <1>24, <1>25, <1>26, <1>27 DEF Next, WorkerStep,
     ProviderStep, ToolStep, Terminated

(* The counters and the conversation agree in every reachable state.       *)
THEOREM OwedInvariance == Spec => []OwedInv
<1>1. IInv /\ OwedInv /\ [Next]_vars => OwedInv'
  BY OwedStep
<1> QED
  BY OwedInit, <1>1, Invariance, PTL DEF Spec
-----------------------------------------------------------------------------
(* The protocol.                                                           *)

(* The phase of a program point,                                           *)
LEMMA PhaseAt ==
  /\ pc = "start" => Phase = "new"
  /\ pc \in {"iterate", "prompted", "deciding"} => Phase = "idle"
  /\ pc \in {"asking", "streaming", "answered"} => Phase = "asking"
  /\ pc \in {"calling"} \cup Executing => Phase = "working"
  /\ pc = "done" => Phase = IF outcome = "completed" THEN "completed"
                                                     ELSE "aborted"
BY DEF Phase, Executing

(* and of the next one.                                                    *)
LEMMA PhaseAfter ==
  /\ pc' = "start" => Phase' = "new"
  /\ pc' \in {"iterate", "prompted", "deciding"} => Phase' = "idle"
  /\ pc' \in {"asking", "streaming", "answered"} => Phase' = "asking"
  /\ pc' \in {"calling"} \cup Executing => Phase' = "working"
  /\ pc' = "done" => Phase' = IF outcome' = "completed" THEN "completed"
                                                        ELSE "aborted"
BY DEF Phase, Executing

(* What the protocol sees.                                                 *)
view == <<Phase, iteration, permits, OwedIn(messages)>>

(* A turn that ends without completing aborts the protocol.                *)
LEMMA EndAborts ==
  ASSUME pc \in {"start", "iterate", "prompted", "deciding", "asking",
                 "streaming", "answered", "calling"} \cup Executing,
         NEW how \in {"failed", "canceled", "silent"}, End(how),
         UNCHANGED <<iteration, permits, messages>>
  PROVE  Protocol!Abort
BY PhaseAt, PhaseAfter DEF End, Protocol!Abort

(* A step between two program points of one phase.                         *)
LEMMA SamePhase ==
  ASSUME NEW S \in {{"iterate", "prompted", "deciding"},
                    {"asking", "streaming", "answered"},
                    {"calling"} \cup Executing},
         pc \in S, pc' \in S,
         UNCHANGED <<iteration, permits, messages>>
  PROVE  UNCHANGED view
<1>1. Phase' = Phase
  <2>1. CASE S = {"iterate", "prompted", "deciding"}
    BY <2>1, PhaseAt, PhaseAfter
  <2>2. CASE S = {"asking", "streaming", "answered"}
    BY <2>2, PhaseAt, PhaseAfter
  <2>3. CASE S = {"calling"} \cup Executing
    BY <2>3, PhaseAt, PhaseAfter
  <2> QED
    BY <2>1, <2>2, <2>3
<1> QED
  BY <1>1 DEF view

(* Text settles nothing of the turn's conversation.                        *)
LEMMA SayOwes == IInv /\ OwedInv => OwedIn(Say(messages)) = OwedIn(messages)
BY OwedAfterText DEF IInv, TypeOK, OwedInv

(* A turn begins as the protocol does.                                     *)
LEMMA ProtocolInit == Init => Protocol!Init
<1> SUFFICES ASSUME Init
             PROVE  Protocol!Init
  OBVIOUS
<1>1. Phase = "new" /\ iteration = 0 /\ permits = 0
  BY PhaseAt DEF Init
<1>2. OwedIn(messages) = 0
  BY OwedInit DEF OwedInv, Owed, Init
<1> QED
  BY <1>1, <1>2 DEF Protocol!Init

(* Begin is a step of the protocol.                                        *)
LEMMA ProtocolBegin == IInv /\ OwedInv /\ Begin => Protocol!Next
<1> SUFFICES ASSUME IInv, OwedInv, Begin
             PROVE  Protocol!Next
  OBVIOUS
<1>1. CASE Goto("iterate") /\ messages' = Say(messages)
  <2>1. Protocol!Begin
    BY <1>1, SayOwes, PhaseAt, PhaseAfter
       DEF Begin, Goto, Protocol!Begin, configVars, historyVars
  <2> QED
    BY <2>1 DEF Protocol!Next
<1>2. CASE (End("canceled") \/ End("failed")) /\ UNCHANGED messages
  <2>1. Protocol!Abort
    BY <1>2, EndAborts DEF Begin, configVars, historyVars
  <2> QED
    BY <2>1 DEF Protocol!Next
<1> QED
  BY <1>1, <1>2 DEF Begin

(* A request is within the windows, and owes nothing.                      *)
LEMMA ProtocolAsk == IInv /\ OwedInv /\ Ask => Protocol!Next
<1> SUFFICES ASSUME IInv, OwedInv, Ask
             PROVE  Protocol!Next
  OBVIOUS
<1>1. messages' = Say(messages) \/ messages' = messages
  BY DEF Ask
<1>2. OwedIn(messages') = OwedIn(messages)
  BY <1>1, SayOwes
<1>3. Prepared(messages')
  BY <1>1, SayPrepared DEF IInv, TypeOK, PreparedInv
<1>4. Phase = "idle" /\ Phase' = "asking"
  BY <1>3, PhaseAt, PhaseAfter DEF Ask, Goto
<1>5. Protocol!Ask
  BY <1>2, <1>4 DEF Ask, IInv, BudgetInv, Protocol!Ask
<1> QED
  BY <1>5 DEF Protocol!Next

(* Failed and truncated attempts.                                          *)
LEMMA ProtocolDrop ==
  ASSUME IInv, OwedInv, pc \in {"asking", "streaming", "answered"},
         Goto("iterate"), messages' = Say(messages),
         UNCHANGED <<iteration, permits>>
  PROVE  Protocol!Next
<1>1. Protocol!Drop
  BY SayOwes, PhaseAt, PhaseAfter DEF Goto, Protocol!Drop
<1> QED
  BY <1>1 DEF Protocol!Next

(* A final answer completes or aborts.                                     *)
LEMMA ProtocolComplete == IInv /\ OwedInv /\ FinalAnswer => Protocol!Next
<1> SUFFICES ASSUME IInv, OwedInv, FinalAnswer
             PROVE  Protocol!Next
  OBVIOUS
<1>1. pc = "answered" /\ UNCHANGED <<iteration, permits, messages>>
  BY DEF FinalAnswer, answerFrame, historyVars
<1>2. CASE End("completed")
  <2>1. Protocol!Complete
    BY <1>1, <1>2, PhaseAt, PhaseAfter DEF End, Protocol!Complete
  <2> QED
    BY <2>1 DEF Protocol!Next
<1>3. CASE End("failed")
  <2>1. Protocol!Abort
    BY <1>1, <1>3, EndAborts
  <2> QED
    BY <2>1 DEF Protocol!Next
<1> QED
  BY <1>2, <1>3 DEF FinalAnswer

(* An answer with calls is accepted.                                       *)
LEMMA ProtocolAccept == IInv /\ OwedInv /\ TakeCalls => Protocol!Next
<1> SUFFICES ASSUME IInv, OwedInv, TakeCalls
             PROVE  Protocol!Next
  OBVIOUS
<1>1. pc = "answered" /\ pc' = "calling" /\ UNCHANGED <<iteration, permits>>
  BY DEF TakeCalls, Goto, answerFrame, historyVars
<1>2. response.calls \in 1..MaxCalls /\ call' = 1 /\ response' = response
  BY TurnAssumption DEF TakeCalls, IInv, AnswerInv, Answer
<1>3. OwedIn(messages)' \in 1..MaxCalls
  BY <1>2, OwedTaken DEF OwedInv, Owed
<1>4. Protocol!Accept
  BY <1>1, <1>3, PhaseAt, PhaseAfter DEF Protocol!Accept
<1> QED
  BY <1>4 DEF Protocol!Next

(* A result settles one call.                                              *)
LEMMA ProtocolSettle ==
  ASSUME IInv, OwedInv, Finished, pc \in {"calling"} \cup Executing,
         call <= response.calls, UNCHANGED callFrame
  PROVE  Protocol!Next
<1>1. /\ pc' = "calling" /\ call' = call + 1
      /\ UNCHANGED <<iteration, permits, response>>
  BY DEF Finished, Goto, callFrame, configVars
<1>2. response.calls \in Nat /\ call \in 1..response.calls
  BY TurnAssumption DEF IInv, AnswerInv, Executing, Answer
<1>3. OwedIn(messages) = response.calls + 1 - call
  BY <1>2 DEF OwedInv, Owed
<1>4. OwedIn(messages)' = response.calls - call
  BY <1>1, <1>2, OwedFinished DEF OwedInv, Owed
<1>5. Protocol!Settle
  BY <1>1, <1>2, <1>3, <1>4, PhaseAt, PhaseAfter DEF Protocol!Settle
<1> QED
  BY <1>5 DEF Protocol!Next

(* When no calls are left, nothing is owed.                                *)
LEMMA ProtocolResume == IInv /\ OwedInv /\ NoMoreCalls => Protocol!Next
<1> SUFFICES ASSUME IInv, OwedInv, NoMoreCalls
             PROVE  Protocol!Next
  OBVIOUS
<1>1. /\ pc = "calling" /\ pc' = "iterate"
      /\ UNCHANGED <<iteration, permits, messages>>
  BY DEF NoMoreCalls, Goto, callFrame, configVars
<1>2. OwedIn(messages) = 0
  BY TurnAssumption DEF NoMoreCalls, IInv, AnswerInv, Answer, OwedInv, Owed
<1>3. Protocol!Resume
  BY <1>1, <1>2, PhaseAt, PhaseAfter DEF Protocol!Resume
<1> QED
  BY <1>3 DEF Protocol!Next

(* The user allows a window more, or the turn is aborted.                  *)
LEMMA ProtocolRenew ==
  ASSUME IInv, OwedInv, NEW verdict \in Verdicts, RenewBudget(verdict)
  PROVE  Protocol!Next
<1>1. pc = "deciding" /\ UNCHANGED <<iteration, messages>>
  BY DEF RenewBudget, budgetFrame, turnVars
<1>2. CASE verdict = "approved"
  <2>1. pc' = "iterate" /\ permits' = permits + 1
    BY <1>2 DEF RenewBudget, NewWindow, Goto, Permit
  <2>2. Protocol!Renew
    BY <1>1, <2>1, PhaseAt, PhaseAfter DEF IInv, BudgetInv, Protocol!Renew
  <2> QED
    BY <2>2 DEF Protocol!Next
<1>3. CASE verdict # "approved"
  <2>1. End("failed") \/ End("canceled")
    BY <1>3, Zenon DEF RenewBudget, Verdicts
  <2>2. permits' = permits
    BY <1>3 DEF RenewBudget, Permit
  <2>3. Protocol!Abort
    BY <1>1, <2>1, <2>2, EndAborts
  <2> QED
    BY <2>3 DEF Protocol!Next
<1> QED
  BY <1>2, <1>3

(* Every step is one of the protocol, or none.                             *)
LEMMA ProtocolStep ==
  ASSUME IInv, OwedInv, [Next]_vars
  PROVE  [Protocol!Next]_view
<1> USE DEF configVars, turnVars, clientVars, historyVars, Goto, CheckedGoto
<1>1. CASE Begin
  BY <1>1, ProtocolBegin
<1>2. CASE Ask
  BY <1>2, ProtocolAsk
<1>3. CASE OpenStream
  <2>1. pc = "asking" /\ UNCHANGED <<iteration, permits, messages>>
    BY <1>3 DEF OpenStream, streamFrame
  <2>2. End("canceled") \/ pc' = "streaming"
    BY <1>3 DEF OpenStream
  <2> QED
    BY <2>1, <2>2, EndAborts, SamePhase DEF Protocol!Next
<1>4. ASSUME NEW a \in Answer, ReceiveAnswer(a)
      PROVE  [Protocol!Next]_view
  <2>1. pc = "streaming" /\ UNCHANGED <<iteration, permits, messages>>
    BY <1>4 DEF ReceiveAnswer, streamFrame
  <2>2. End("canceled") \/ End("failed") \/ pc' = "streaming"
    BY <1>4 DEF ReceiveAnswer
  <2> QED
    BY <2>1, <2>2, EndAborts, SamePhase DEF Protocol!Next
<1>5. CASE ProviderFails
  <2>1. /\ pc \in {"asking", "streaming"}
        /\ UNCHANGED <<iteration, permits, messages>>
        /\ End("canceled") \/ End("failed")
    BY <1>5 DEF ProviderFails, streamFrame
  <2> QED
    BY <2>1, EndAborts DEF Protocol!Next
<1>6. CASE ProviderInterrupted
  <2>1. pc \in {"asking", "streaming"} /\ UNCHANGED <<iteration, permits>>
    BY <1>6 DEF ProviderInterrupted, streamFrame
  <2>2. \/ Goto("iterate") /\ messages' = Say(messages)
        \/ (End("canceled") \/ End("failed")) /\ UNCHANGED messages
    BY <1>6 DEF ProviderInterrupted
  <2> QED
    BY <2>1, <2>2, EndAborts, ProtocolDrop DEF Protocol!Next
<1>7. CASE ProviderStalls
  <2>1. pc \in {"asking", "streaming"} /\ UNCHANGED <<iteration, permits>>
    BY <1>7 DEF ProviderStalls, streamFrame
  <2>2. \/ Goto("iterate") /\ messages' = Say(messages)
        \/ End("failed") /\ UNCHANGED messages
    BY <1>7 DEF ProviderStalls
  <2> QED
    BY <2>1, <2>2, EndAborts, ProtocolDrop DEF Protocol!Next
<1>8. CASE EndStream
  <2>1. pc = "streaming" /\ UNCHANGED <<iteration, permits, messages>>
    BY <1>8 DEF EndStream, streamFrame
  <2>2. End("canceled") \/ pc' = "answered"
    BY <1>8 DEF EndStream
  <2> QED
    BY <2>1, <2>2, EndAborts, SamePhase DEF Protocol!Next
<1>9. CASE Truncated
  BY <1>9, ProtocolDrop DEF Truncated, answerFrame
<1>10. CASE FinalAnswer
  BY <1>10, ProtocolComplete
<1>11. CASE TakeCalls
  BY <1>11, ProtocolAccept
<1>12. CASE NoMoreCalls
  BY <1>12, ProtocolResume
<1>13. CASE RefuseTool
  <2>1. pc = "calling" /\ call <= response.calls /\ UNCHANGED callFrame
    BY <1>13 DEF RefuseTool
  <2>2. CASE End("canceled") /\ UNCHANGED messages
    BY <2>1, <2>2, EndAborts DEF callFrame, Protocol!Next
  <2>3. CASE Finished
    BY <2>1, <2>3, ProtocolSettle
  <2> QED
    BY <1>13, <2>2, <2>3 DEF RefuseTool
<1>14. CASE AbortTool
  <2>1. /\ pc = "calling" /\ UNCHANGED <<iteration, permits, messages>>
        /\ End("canceled") \/ End("failed")
    BY <1>14 DEF AbortTool, callFrame
  <2> QED
    BY <2>1, EndAborts DEF Protocol!Next
<1>15. ASSUME NEW k \in Kinds, RequestTool(k)
       PROVE  [Protocol!Next]_view
  <2>1. pc = "calling" /\ UNCHANGED <<iteration, permits, messages>>
    BY <1>15 DEF RequestTool, callFrame
  <2>2. End("canceled") \/ pc' = "requested"
    BY <1>15 DEF RequestTool
  <2> QED
    BY <2>1, <2>2, EndAborts, SamePhase DEF Protocol!Next, Executing
<1>16. CASE EnsureApproval
  <2>1. pc = "requested" /\ UNCHANGED <<iteration, permits, messages>>
    BY <1>16 DEF EnsureApproval, toolFrame, callFrame
  <2>2. End("failed") \/ pc' \in {"waiting", "cleared"}
    BY <1>16 DEF EnsureApproval
  <2> QED
    BY <2>1, <2>2, EndAborts, SamePhase DEF Protocol!Next, Executing
<1>17. ASSUME NEW verdict \in Verdicts, Decide(verdict)
       PROVE  [Protocol!Next]_view
  <2>1. pc = "waiting" /\ UNCHANGED <<iteration, permits, messages>>
    BY <1>17 DEF Decide, toolFrame, callFrame
  <2>2. End("failed") \/ End("canceled") \/ pc' = "cleared"
    BY <1>17, Zenon DEF Decide, Verdicts
  <2> QED
    BY <2>1, <2>2, EndAborts, SamePhase DEF Protocol!Next, Executing
<1>18. CASE StartTool
  <2>1. pc = "cleared" /\ UNCHANGED <<iteration, permits, messages>>
    BY <1>18 DEF StartTool, toolFrame, callFrame
  <2>2. End("canceled") \/ pc' = "executing"
    BY <1>18 DEF StartTool
  <2> QED
    BY <2>1, <2>2, EndAborts, SamePhase DEF Protocol!Next, Executing
<1>19. CASE CompleteTool
  BY <1>19, ProtocolSettle DEF CompleteTool, IInv, AnswerInv, Executing
<1>20. CASE ToolFails
  <2>1. /\ pc = "executing" /\ UNCHANGED <<iteration, permits, messages>>
        /\ End("canceled") \/ End("failed")
    BY <1>20 DEF ToolFails, toolFrame, callFrame
  <2> QED
    BY <2>1, EndAborts DEF Protocol!Next, Executing
<1>21. CASE Exhausted
  <2>1. pc = "iterate" /\ UNCHANGED <<iteration, permits, messages>>
    BY <1>21 DEF Exhausted, budgetFrame
  <2>2. End("canceled") \/ pc' = "prompted"
    BY <1>21 DEF Exhausted
  <2> QED
    BY <2>1, <2>2, EndAborts, SamePhase DEF Protocol!Next
<1>22. CASE RecheckBudget
  <2>1. pc = "prompted" /\ UNCHANGED <<iteration, permits, messages>>
    BY <1>22 DEF RecheckBudget, budgetFrame
  <2>2. End("canceled") \/ pc' = "deciding"
    BY <1>22 DEF RecheckBudget
  <2> QED
    BY <2>1, <2>2, EndAborts, SamePhase DEF Protocol!Next
<1>23. ASSUME NEW verdict \in Verdicts, RenewBudget(verdict)
       PROVE  [Protocol!Next]_view
  BY <1>23, ProtocolRenew
<1>24. CASE LogFails
  <2>1. /\ End("silent") /\ UNCHANGED <<iteration, permits, messages>>
        /\ pc \in {"start", "iterate", "prompted", "deciding", "asking",
                   "streaming", "answered", "calling"} \cup Executing
    BY <1>24 DEF LogFails, IInv, TypeOK, Executing
  <2> QED
    BY <2>1, EndAborts DEF Protocol!Next
<1>25. CASE CancelTurn
  BY <1>25 DEF CancelTurn, view, Phase
<1>26. CASE Steer
  BY <1>26 DEF Steer, view, Phase
<1>27. CASE UNCHANGED vars
  BY <1>27 DEF vars, view, Phase
<1> QED
  BY <1>1, <1>2, <1>3, <1>4, <1>5, <1>6, <1>7, <1>8, <1>9, <1>10, <1>11,
     <1>12, <1>13, <1>14, <1>15, <1>16, <1>17, <1>18, <1>19, <1>20, <1>21,
     <1>22, <1>23, <1>24, <1>25, <1>26, <1>27 DEF Next, WorkerStep,
     ProviderStep, ToolStep, Terminated

(* Every turn follows the protocol: it asks within the windows the user    *)
(* allowed, gives one result for each call it took before it asks again,   *)
(* completes only on an answer without calls, and ends once.               *)
THEOREM Implementation == Spec => ImplementsProtocol
<1>1. IInv /\ OwedInv /\ [Next]_vars => [Protocol!Next]_Protocol!vars
  BY ProtocolStep DEF Protocol!vars, view
<1> QED
  BY ProtocolInit, <1>1, Invariance, OwedInvariance, PTL
     DEF Spec, ImplementsProtocol, Protocol!Spec
-----------------------------------------------------------------------------
(* Well-formed conversations.                                              *)

(* The calls of message i have their results,                              *)
Answered(conversation, i) ==
  /\ i + conversation[i].of <= Len(conversation)
  /\ \A n \in 1..conversation[i].of : conversation[i + n] = Result(n)

(* or the first `given` of them, at the end of the conversation.           *)
Partial(conversation, i, given) ==
  /\ i + given = Len(conversation)
  /\ \A n \in 1..given : conversation[i + n] = Result(n)

(* A result belongs to calls before it.                                    *)
Owned(conversation, i) ==
  \E j \in 1..i - 1 : conversation[j].role = "calls" /\ conversation[j].of >= i - j

Working == {"calling"} \cup Executing

(* The message whose calls are being executed.                             *)
InProgress(i) ==
  /\ messages[i].role = "calls" /\ messages[i].of = response.calls
  /\ Partial(messages, i, call - 1)

(* All calls have their results, but for those being executed.             *)
ConversationInv ==
  /\ pc # "done" =>
       \A i \in DOMAIN messages :
         messages[i].role = "calls" =>
           Answered(messages, i) \/ (pc \in Working /\ InProgress(i))
  /\ \A i \in DOMAIN messages : messages[i].role = "result" => Owned(messages, i)
  /\ pc \in Working => \E i \in DOMAIN messages : InProgress(i)

(* What is so of a message stays so when others follow.                    *)
LEMMA LongerConversation ==
  ASSUME NEW conversation \in Seq(Message), NEW m \in Message,
         NEW i \in DOMAIN conversation
  PROVE  /\ Append(conversation, m)[i] = conversation[i]
         /\ i \in DOMAIN Append(conversation, m)
         /\ Answered(conversation, i) => Answered(Append(conversation, m), i)
         /\ Owned(conversation, i) => Owned(Append(conversation, m), i)
<1> DEFINE longer == Append(conversation, m)
<1>1. /\ longer \in Seq(Message) /\ Len(longer) = Len(conversation) + 1
      /\ \A j \in 1..Len(conversation) : longer[j] = conversation[j]
      /\ i \in 1..Len(conversation) /\ i \in DOMAIN longer /\ conversation[i].of \in Nat
  BY MessageOf
<1> HIDE DEF longer
<1>2. ASSUME Answered(conversation, i) PROVE Answered(longer, i)
  <2>1. \A n \in 1..conversation[i].of : i + n \in 1..Len(conversation)
    BY <1>1, <1>2 DEF Answered
  <2>2. longer[i] = conversation[i] /\ Len(conversation) \in Nat
    BY <1>1
  <2>3. \A n \in 1..conversation[i].of : longer[i + n] = Result(n)
    BY <1>1, <1>2, <2>1 DEF Answered
  <2>4. i + conversation[i].of <= Len(longer)
    BY <1>1, <1>2, <2>2 DEF Answered
  <2> QED
    BY <2>2, <2>3, <2>4 DEF Answered
<1>3. ASSUME Owned(conversation, i) PROVE Owned(longer, i)
  <2>1. \A j \in 1..i - 1 : j \in 1..Len(conversation)
    BY <1>1
  <2> QED
    BY <1>1, <1>3, <2>1 DEF Owned
<1> QED
  BY <1>1, <1>2, <1>3 DEF longer

(* Steps that leave the conversation alone.                                *)
LEMMA ConversationStays ==
  ASSUME IInv, ConversationInv, messages' = messages,
         \/ pc' = "done"
         \/ pc # "done" /\ pc \notin Working /\ pc' \notin Working
         \/ pc \in Working /\ pc' \in Working /\ response' = response /\ call' = call
  PROVE  ConversationInv'
<1>1. CASE pc' = "done"
  BY <1>1 DEF ConversationInv, Working, Executing
<1>2. CASE pc # "done" /\ pc \notin Working /\ pc' \notin Working
  BY <1>2 DEF ConversationInv
<1>3. CASE pc \in Working /\ pc' \in Working /\ response' = response /\ call' = call
  BY <1>3 DEF ConversationInv, InProgress, Working, Executing
<1> QED
  BY <1>1, <1>2, <1>3

(* A text, or nothing.                                                     *)
LEMMA ConversationSaid ==
  ASSUME IInv, ConversationInv, messages' \in {messages, Say(messages)},
         pc # "done", pc \notin Working, pc' \notin Working
  PROVE  ConversationInv'
<1>1. CASE messages' = messages
  BY <1>1, ConversationStays
<1>2. CASE messages' # messages
  <2>1. messages' = Append(messages, Text) /\ Text \in Message /\ messages \in Seq(Message)
        /\ Text.role = "text"
    BY <1>2, MessageTypes DEF Say, Text, IInv, TypeOK
  <2>2. \A i \in DOMAIN messages' : i \in DOMAIN messages \/ messages'[i] = Text
    BY <2>1
  <2>3. \A i \in DOMAIN messages :
          /\ messages'[i] = messages[i]
          /\ Answered(messages, i) => Answered(messages', i)
          /\ Owned(messages, i) => Owned(messages', i)
    BY <2>1, LongerConversation
  <2> QED
    BY <2>1, <2>2, <2>3 DEF ConversationInv
<1> QED
  BY <1>1, <1>2

(* New calls have no results yet.                                          *)
LEMMA ConversationTaken ==
  ASSUME IInv, ConversationInv, TakeCalls
  PROVE  ConversationInv'
<1>1. response \in Answer /\ response.calls \in 1..MaxCalls
  BY TurnAssumption DEF TakeCalls, IInv, AnswerInv, Answer
<1>2. PICK b \in BOOLEAN : b = (response.reasoning \/ Thinking)
  BY Zenon
<1>3. PICK m \in Message : m = Calls(response, b)
  BY <1>1, MessageTypes
<1>4. messages' = Append(messages, m) /\ messages \in Seq(Message)
  BY <1>2, <1>3, Zenon DEF TakeCalls, IInv, TypeOK
<1>5. m.role = "calls" /\ m.of = response.calls
  BY <1>3 DEF Calls
<1>6. pc = "answered" /\ pc' = "calling" /\ call' = 1 /\ response' = response
  BY DEF TakeCalls, Goto
<1>7. PICK new \in Nat :
        /\ Len(messages') = new /\ messages'[new] = m /\ new \in DOMAIN messages'
        /\ \A i \in DOMAIN messages' : i \in DOMAIN messages \/ i = new
  <2> DEFINE last == Len(messages) + 1
  <2>1. /\ last \in Nat /\ Len(messages') = last /\ messages'[last] = m
        /\ last \in DOMAIN messages'
        /\ \A i \in DOMAIN messages' : i \in DOMAIN messages \/ i = last
    BY <1>4
  <2> QED
    BY <2>1
<1>8. \A i \in DOMAIN messages :
        /\ messages'[i] = messages[i]
        /\ Answered(messages, i) => Answered(messages', i)
        /\ Owned(messages, i) => Owned(messages', i)
  BY <1>4, LongerConversation
<1>9. InProgress(new)'
  <2>1. Partial(messages', new, 0)
    BY <1>7 DEF Partial
  <2> QED
    BY <1>5, <1>6, <1>7, <2>1 DEF InProgress
<1> QED
  BY <1>5, <1>6, <1>7, <1>8, <1>9 DEF ConversationInv, Working, Executing

(* One more call of the answer has its result.                             *)
LEMMA ConversationFinished ==
  ASSUME IInv, ConversationInv, Finished, pc \in Working,
         call <= response.calls, response' = response
  PROVE  ConversationInv'
<1>1. call \in 1..MaxCalls /\ response \in Answer /\ response.calls \in Nat
  BY TurnAssumption DEF IInv, AnswerInv, Working, Executing, Answer
<1>2. /\ messages' = Append(messages, Result(call)) /\ messages \in Seq(Message)
      /\ call' = call + 1 /\ pc' = "calling"
  BY DEF Finished, Goto, IInv, TypeOK
<1>3. Result(call) \in Message /\ Result(call).role = "result"
  BY <1>1, MessageTypes DEF Result
<1> DEFINE new == Len(messages) + 1
<1>4. /\ Len(messages') = new /\ messages'[new] = Result(call) /\ new \in DOMAIN messages'
      /\ \A i \in DOMAIN messages' : i \in DOMAIN messages \/ i = new
      /\ Len(messages) \in Nat /\ DOMAIN messages = 1..Len(messages)
  BY <1>2, <1>3
<1>5. \A i \in DOMAIN messages :
        /\ messages'[i] = messages[i] /\ i \in DOMAIN messages'
        /\ Answered(messages, i) => Answered(messages', i)
        /\ Owned(messages, i) => Owned(messages', i)
  BY <1>2, <1>3, LongerConversation
<1>6. ASSUME NEW i \in DOMAIN messages, InProgress(i) PROVE InProgress(i)'
  <2>1. i + (call - 1) = Len(messages) /\ i \in 1..Len(messages)
        /\ \A n \in 1..call - 1 : messages[i + n] = Result(n)
    BY <1>4, <1>6 DEF InProgress, Partial
  <2>2. \A n \in 1..call - 1 : i + n \in DOMAIN messages
    BY <1>1, <1>4, <2>1
  <2>3. \A n \in 1..call - 1 : messages'[i + n] = Result(n)
    BY <1>5, <2>1, <2>2
  <2>4. i + call = new
    BY <1>1, <1>4, <2>1
  <2>5. \A n \in 1..call : n \in 1..call - 1 \/ n = call
    BY <1>1
  <2>6. \A n \in 1..call : messages'[i + n] = Result(n)
    BY <1>4, <2>3, <2>4, <2>5
  <2>7. call' - 1 = call
    BY <1>1, <1>2
  <2>8. Partial(messages', i, call' - 1)
    BY <1>4, <2>4, <2>6, <2>7 DEF Partial
  <2> QED
    BY <1>5, <1>6, <2>8 DEF InProgress
<1>7. PICK i \in DOMAIN messages : InProgress(i)
  BY DEF ConversationInv
<1>8. Owned(messages', new)
  <2>1. i + (call - 1) = Len(messages) /\ i \in 1..Len(messages)
        /\ messages[i].role = "calls" /\ messages[i].of = response.calls
    BY <1>4, <1>7 DEF InProgress, Partial
  <2>2. i \in 1..new - 1 /\ response.calls >= new - i
    BY <1>1, <1>4, <2>1
  <2> QED
    BY <1>5, <2>1, <2>2 DEF Owned
<1> HIDE DEF new
<1> QED
  BY <1>2, <1>3, <1>4, <1>5, <1>6, <1>7, <1>8 DEF ConversationInv, Working, Executing

(* When no calls are left, all have their results.                         *)
LEMMA ConversationResumed ==
  ASSUME IInv, ConversationInv, NoMoreCalls
  PROVE  ConversationInv'
<1>1. /\ pc = "calling" /\ pc' = "iterate" /\ messages' = messages
      /\ call > response.calls
  BY DEF NoMoreCalls, Goto
<1>2. response.calls \in Nat /\ call = response.calls + 1
  BY <1>1, TurnAssumption DEF IInv, AnswerInv, Answer
<1>3. ASSUME NEW i, InProgress(i) PROVE Answered(messages, i)
  <2>1. messages[i].of = call - 1 /\ i + (call - 1) = Len(messages)
        /\ \A n \in 1..call - 1 : messages[i + n] = Result(n)
    BY <1>2, <1>3 DEF InProgress, Partial
  <2>2. Len(messages) \in Nat
    BY DEF IInv, TypeOK
  <2> QED
    BY <2>1, <2>2 DEF Answered
<1> QED
  BY <1>1, <1>3 DEF ConversationInv, Working, Executing

(* Every step keeps the conversation well formed.                          *)
LEMMA ConversationStep ==
  ASSUME IInv, ConversationInv, [Next]_vars
  PROVE  ConversationInv'
<1> USE DEF configVars, turnVars, clientVars, historyVars, Goto, End, CheckedGoto, Working,
            Executing
<1>1. CASE Ask
  BY <1>1, ConversationSaid DEF Ask
<1>2. CASE Begin
  BY <1>2, ConversationSaid, ConversationStays DEF Begin
<1>3. CASE OpenStream
  BY <1>3, ConversationStays DEF OpenStream, streamFrame
<1>4. CASE ProviderFails
  BY <1>4, ConversationStays DEF ProviderFails, streamFrame
<1>5. CASE ProviderInterrupted
  BY <1>5, ConversationSaid, ConversationStays DEF ProviderInterrupted, streamFrame
<1>6. CASE ProviderStalls
  BY <1>6, ConversationSaid, ConversationStays DEF ProviderStalls, streamFrame
<1>7. CASE EndStream
  BY <1>7, ConversationStays DEF EndStream, streamFrame
<1>8. CASE Truncated
  BY <1>8, ConversationSaid DEF Truncated, answerFrame
<1>9. CASE FinalAnswer
  BY <1>9, ConversationStays DEF FinalAnswer, answerFrame
<1>10. CASE NoMoreCalls
  BY <1>10, ConversationResumed
<1>11. CASE AbortTool
  BY <1>11, ConversationStays DEF AbortTool, callFrame
<1>12. CASE EnsureApproval
  BY <1>12, ConversationStays DEF EnsureApproval, toolFrame, callFrame
<1>13. CASE StartTool
  BY <1>13, ConversationStays DEF StartTool, toolFrame, callFrame
<1>14. CASE ToolFails
  BY <1>14, ConversationStays DEF ToolFails, toolFrame, callFrame
<1>15. CASE Exhausted
  BY <1>15, ConversationStays DEF Exhausted, budgetFrame
<1>16. CASE RecheckBudget
  BY <1>16, ConversationStays DEF RecheckBudget, budgetFrame
<1>17. CASE LogFails
  BY <1>17, ConversationStays DEF LogFails
<1>18. CASE CancelTurn
  BY <1>18, ConversationStays DEF CancelTurn
<1>19. CASE Steer
  BY <1>19, ConversationStays DEF Steer
<1>20. ASSUME NEW a \in Answer, ReceiveAnswer(a)
      PROVE  ConversationInv'
  BY <1>20, ConversationStays DEF ReceiveAnswer, streamFrame
<1>21. CASE TakeCalls
  BY <1>21, ConversationTaken
<1>22. ASSUME NEW k \in Kinds, RequestTool(k)
      PROVE  ConversationInv'
  BY <1>22, ConversationStays DEF RequestTool, callFrame
<1>23. CASE RefuseTool
  <2>1. CASE canceled
    BY <1>23, <2>1, ConversationStays DEF RefuseTool, callFrame
  <2>2. CASE ~canceled
    BY <1>23, <2>2, ConversationFinished DEF RefuseTool, callFrame
  <2> QED
    BY <2>1, <2>2
<1>24. ASSUME NEW verdict \in Verdicts, Decide(verdict)
      PROVE  ConversationInv'
  BY <1>24, ConversationStays DEF Decide, toolFrame, callFrame, Verdicts
<1>25. CASE CompleteTool
  BY <1>25, ConversationFinished DEF CompleteTool, callFrame, IInv, AnswerInv
<1>26. ASSUME NEW verdict \in Verdicts, RenewBudget(verdict)
      PROVE  ConversationInv'
  BY <1>26, ConversationStays DEF RenewBudget, NewWindow, budgetFrame, Verdicts
<1>27. CASE UNCHANGED vars
  BY <1>27, ConversationStays DEF vars, IInv, TypeOK
<1> QED
  BY <1>1, <1>2, <1>3, <1>4, <1>5, <1>6, <1>7, <1>8, <1>9, <1>10, <1>11,
     <1>12, <1>13, <1>14, <1>15, <1>16, <1>17, <1>18, <1>19, <1>20, <1>21,
     <1>22, <1>23, <1>24, <1>25, <1>26, <1>27 DEF Next, WorkerStep,
     ProviderStep, ToolStep, Terminated

(* In every reachable state all calls have their results, but for those    *)
(* being executed.                                                         *)
THEOREM ConversationInvariance == Spec => []ConversationInv
<1>1. Init => ConversationInv
  BY DEF Init, ConversationInv, Working, Executing
<1>2. IInv /\ ConversationInv /\ [Next]_vars => ConversationInv'
  BY ConversationStep
<1> QED
  BY <1>1, <1>2, Invariance, PTL DEF Spec

(* After any mix of retries, truncated answers, steers, refused and failed *)
(* calls, the provider is sent every call with its results, in order       *)
(* (run_turn_with_event_sink, execute_tool_call).                          *)
THEOREM ConversationsAreWellFormed == Spec => []ConversationIsWellFormed
<1>1. IInv /\ ConversationInv => ConversationIsWellFormed
  BY DEF IInv, PreparedInv, Prepared, ConversationInv, ConversationIsWellFormed,
     Answered, Owned, Working, Executing
<1> QED
  BY <1>1, Invariance, ConversationInvariance, PTL
=============================================================================
