---------------------------- MODULE ToolExecutor ----------------------------
(***************************************************************************)
(* A tool call that changes files or starts processes, from the arguments  *)
(* of the model to its result: the approval it needs                       *)
(* (crates/agent-core/src/turn_loop.rs) and its execution by               *)
(* WorkspaceToolExecutor (tool_execution.rs).  The turn loop makes one     *)
(* call at a time, and the thread that serves the user may cancel it.      *)
(* Or the calls of a turn, with what they do to files, for the report the  *)
(* turn ends with (TurnReport).                                            *)
(***************************************************************************)
EXTENDS PatchTool, CommandTool, CommandRisk, TurnReport

VARIABLE gate   \* how far a command is: composed by the model, to be asked
                \* about, cleared or refused; or a turn that reports

gateVars == <<gate, textVars>>
callVarsAll == <<canceled, patchVars, commandVars, gateVars>>
vars     == <<callVarsAll, reportVars>>

(* One call: a patch on any files, or a command.  Or the report of a turn. *)
Init ==
  /\ canceled = FALSE /\ CommandInit /\ PatchInit
  /\ \/ gate = "cleared" /\ NoText /\ NoReport
     \/ /\ \A p \in Path : disk[p] = Absent
        /\ \/ gate = "composing" /\ TextInit /\ NoReport
           \/ gate = "reporting" /\ NoText /\ ReportInit

ApplyPatch ==
  /\ commandPc = "idle" /\ gate = "cleared" /\ PatchStep
  /\ UNCHANGED <<commandVars, gateVars, reportVars>>

ComposeCommand ==
  /\ gate = "composing" /\ Compose
  /\ UNCHANGED <<canceled, patchVars, commandVars, gate, reportVars>>

(* ensure_approval up to its question. *)
Assess ==
  /\ gate = "composing"
  /\ \E cwdIsInside \in BOOLEAN : gate' = QuestionFor(command, cwdIsInside)
  /\ UNCHANGED <<canceled, patchVars, commandVars, textVars, reportVars>>

(* The answer of the user, or of a grant. *)
Decide ==
  /\ \/ gate = "free" /\ gate' = "cleared"
     \/ gate \in {"grantable", "ask"} /\ gate' \in {"cleared", "refused"}
  /\ ForgetText
  /\ UNCHANGED <<canceled, patchVars, commandVars, reportVars>>

RunCommand ==
  /\ patchPc = "idle" /\ gate = "cleared" /\ CommandStep
  /\ UNCHANGED <<patchVars, gateVars, reportVars>>

(* A step of a turn that reports. *)
Report ==
  /\ gate = "reporting" /\ ReportStep
  /\ UNCHANGED callVarsAll

(* The user, the clock, processes, an editor. *)
Environment ==
  /\ \/ CancelTool /\ gate \notin {"composing", "reporting"} /\ UNCHANGED <<patchVars, commandVars>>
     \/ Elapse /\ UNCHANGED patchVars
     \/ ProcessStep /\ UNCHANGED patchVars
     \/ /\ \E p \in Path, c \in Contents \cup {Absent} : Edit(p, c)
        /\ UNCHANGED commandVars
  /\ UNCHANGED <<gateVars, reportVars>>

Returned ==
  /\ patchPc = "returned" \/ commandPc = "returned" \/ gate = "refused"
     \/ reportPc = "reported"
  /\ UNCHANGED vars

Next ==
  \/ ApplyPatch \/ ComposeCommand \/ Assess \/ Decide \/ RunCommand
  \/ Report \/ Environment \/ Returned

(* The thread of the turn is scheduled and time passes.  The processes are *)
(* under no obligation.                                                    *)
Fairness == WF_vars(RunCommand) /\ WF_vars(Elapse /\ UNCHANGED <<patchVars, gateVars, reportVars>>)

Spec == Init /\ [][Next]_vars /\ Fairness
-----------------------------------------------------------------------------
(* A command that is not asked about only reads the workspace, unless it   *)
(* has a subcommand in parentheses; and one that a grant may answer for    *)
(* neither goes to the network nor destroys anything, where the classifier *)
(* looks (tool_risk_assessment, effective_approval_requirement,            *)
(* approval_persistable; docs/tool-system.md).                             *)
RiskyCommandsAsk ==
  /\ gate = "free" => reads \/ \E i \in DOMAIN command : command[i] = "("
  /\ gate = "grantable" =>
       ~\E f \in meaning \ hidden : f.risk \in {"network", "destructive"}
=============================================================================
