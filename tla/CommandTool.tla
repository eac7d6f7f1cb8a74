---------------------------- MODULE CommandTool ----------------------------
(***************************************************************************)
(* run_command of crates/agent-core/src/tool_execution.rs on Unix: a       *)
(* program is started in a process group of its own, with pipes for its    *)
(* output, and polled until it exits, its time is up or the turn is        *)
(* canceled.  The pipes are read only once it has exited.                  *)
(*                                                                         *)
(* The program (external) writes, starts other processes and exits as it   *)
(* likes.  A process that ignores SIGTERM is deaf; one that left the group *)
(* (setsid) is detached.                                                   *)
(***************************************************************************)
EXTENDS Integers, FiniteSets, Cancellation

CONSTANTS
  Root,       \* the program
  Children,   \* processes it may start
  Deaf,       \* ignore SIGTERM
  Detached,   \* leave the process group
  Capacity,   \* what a pipe holds (64 KiB on Linux)
  MaxOutput   \* bound on what the processes write together

Processes == {Root} \cup Children

ASSUME CommandAssumption ==
  /\ Root \notin Children
  /\ Deaf \subseteq Processes /\ Detached \subseteq Children
  /\ Capacity \in Nat \ {0} /\ MaxOutput \in Nat

VARIABLES
  commandPc,
  process,      \* of each process: whether it was started, runs, exited
  termed,       \* processes that were sent SIGTERM
  pipe,         \* output in the pipes
  output,       \* output that was read
  late,         \* the timeout has elapsed
  graceOver,    \* PROCESS_TREE_TERMINATION_GRACE has elapsed
  ended,        \* how the command ended: exited, canceled or timedOut
  \* history
  produced      \* output written

treeVars    == <<process, termed, pipe, produced>>
commandVars == <<commandPc, treeVars, output, late, graceOver, ended>>

ClockTypeOK == late \in BOOLEAN /\ graceOver \in BOOLEAN

CommandTypeOK ==
  /\ commandPc \in {"idle", "canceled?", "exited?", "late?", "reading",
                    "term", "grace", "kill", "reap", "returned"}
  /\ process \in [Processes -> {"none", "running", "exited"}]
  /\ termed \subseteq Processes
  /\ pipe \in 0..Capacity /\ output \in 0..MaxOutput
  /\ produced \in 0..MaxOutput
  /\ ClockTypeOK
  /\ ended \in {"none", "exited", "canceled", "timedOut"}

CommandInit ==
  /\ commandPc = "idle"
  /\ process = [p \in Processes |-> "none"]
  /\ termed = {} /\ pipe = 0 /\ output = 0 /\ produced = 0
  /\ late = FALSE /\ graceOver = FALSE
  /\ ended = "none"

Running == {p \in Processes : process[p] = "running"}
Group   == Running \ Detached

(* A process that writes waits for room. *)
Full == pipe = Capacity
-----------------------------------------------------------------------------
(* The processes. *)

Write(p) ==
  /\ p \in Running /\ ~Full /\ produced < MaxOutput
  /\ commandPc # "returned"
  /\ pipe' = pipe + 1 /\ produced' = produced + 1
  /\ UNCHANGED <<commandPc, process, termed, output, late, graceOver, canceled,
                 ended>>

Fork(p) ==
  /\ Running # {} /\ process[p] = "none" /\ p # Root
  /\ commandPc # "returned"
  /\ process' = [process EXCEPT ![p] = "running"]
  /\ UNCHANGED <<commandPc, termed, pipe, produced, output, late, graceOver,
                 canceled, ended>>

(* A process may end at any time, and need not heed SIGTERM. *)
ExitProcess(p) ==
  /\ p \in Running
  /\ process' = [process EXCEPT ![p] = "exited"]
  /\ UNCHANGED <<commandPc, termed, pipe, produced, output, late, graceOver,
                 canceled, ended>>

Elapse ==
  /\ commandPc \notin {"idle", "returned"}
  /\ \/ ~late /\ late' = TRUE /\ UNCHANGED graceOver
     \/ commandPc = "grace" /\ graceOver' = TRUE /\ UNCHANGED late
  /\ UNCHANGED <<commandPc, treeVars, output, canceled, ended>>
-----------------------------------------------------------------------------
(* run_command. *)

pollFrame == <<treeVars, output, late, graceOver, canceled>>

Spawn ==
  /\ commandPc = "idle"
  /\ IF canceled
     THEN commandPc' = "returned" /\ ended' = "canceled" /\ UNCHANGED process
     ELSE /\ commandPc' = "canceled?"
          /\ process' = [process EXCEPT ![Root] = "running"]
          /\ UNCHANGED ended
  /\ UNCHANGED <<termed, pipe, produced, output, late, graceOver, canceled>>

(* The loop looks at the token, at the program, at the clock, and sleeps.  *)
PollToken ==
  /\ commandPc = "canceled?"
  /\ IF canceled THEN commandPc' = "term" /\ ended' = "canceled"
             ELSE commandPc' = "exited?" /\ UNCHANGED ended
  /\ UNCHANGED pollFrame

(* Mutant: the output is what is in the pipes when the program has exited. *)
PollExitDrains ==
  /\ commandPc = "exited?"
  /\ IF process[Root] = "exited"
     THEN /\ commandPc' = "returned" /\ ended' = "exited"
          /\ output' = output + pipe /\ pipe' = 0
     ELSE commandPc' = "late?" /\ UNCHANGED <<ended, output, pipe>>
  /\ UNCHANGED <<process, termed, produced, late, graceOver, canceled>>

PollExit ==
  /\ commandPc = "exited?"
  /\ commandPc' = IF process[Root] = "exited" THEN "reading" ELSE "late?"
  /\ UNCHANGED <<pollFrame, ended>>

PollClock ==
  /\ commandPc = "late?"
  /\ IF late THEN commandPc' = "term" /\ ended' = "timedOut"
             ELSE commandPc' = "canceled?" /\ UNCHANGED ended
  /\ UNCHANGED pollFrame

(* wait_with_output reads until every process that may still write closed  *)
(* its end.  It looks neither at the token nor at the clock.               *)
ReadOutput ==
  /\ commandPc = "reading" /\ pipe > 0
  /\ output' = output + pipe /\ pipe' = 0
  /\ UNCHANGED <<commandPc, process, termed, produced, late, graceOver, canceled,
                 ended>>

FinishOutput ==
  /\ commandPc = "reading" /\ pipe = 0 /\ Running = {}
  /\ commandPc' = "returned" /\ ended' = "exited"
  /\ UNCHANGED pollFrame

(* terminate_child_process_tree (the program kill is there): SIGTERM to the *)
(* group, ...                                                               *)
SendTerm ==
  /\ commandPc = "term"
  /\ commandPc' = "grace" /\ graceOver' = FALSE
  /\ termed' = termed \cup Group
  /\ UNCHANGED <<process, pipe, produced, output, late, canceled, ended>>

(* Mutant: the program gets all the time it wants. *)
AwaitExit ==
  /\ commandPc = "grace" /\ process[Root] = "exited"
  /\ commandPc' = "reap"
  /\ UNCHANGED <<pollFrame, ended>>

(* ... a while for the program to exit, and SIGKILL to the group if it did *)
(* not.                                                                    *)
AwaitGrace ==
  /\ commandPc = "grace" /\ (graceOver \/ process[Root] = "exited")
  /\ commandPc' = IF process[Root] = "exited" THEN "reap" ELSE "kill"
  /\ UNCHANGED <<pollFrame, ended>>

KillGroup ==
  /\ commandPc = "kill" /\ commandPc' = "reap"
  /\ process' = [p \in Processes |-> IF p \in Group THEN "exited"
                                                     ELSE process[p]]
  /\ UNCHANGED <<termed, pipe, produced, output, late, graceOver, canceled, ended>>

(* child.wait; the pipes are closed. *)
Reap ==
  /\ commandPc = "reap" /\ process[Root] = "exited"
  /\ commandPc' = "returned"
  /\ UNCHANGED <<pollFrame, ended>>

CommandStep ==
  \/ Spawn \/ PollToken \/ PollExit \/ PollClock \/ ReadOutput \/ FinishOutput
  \/ SendTerm \/ AwaitGrace \/ KillGroup \/ Reap

ProcessStep == \E p \in Processes : Write(p) \/ Fork(p) \/ ExitProcess(p)

(* A command by itself. *)
CommandNext ==
  CommandStep \/ ProcessStep \/ Elapse \/ (CancelTool /\ UNCHANGED commandVars)

CommandSpec ==
  /\ CommandInit /\ canceled = FALSE
  /\ [][CommandNext]_<<commandVars, canceled>>
-----------------------------------------------------------------------------
(* Properties. *)

(* The result of a command that exited holds all that it and the processes *)
(* it started have written, also what they write after the program exited  *)
(* (run_command, wait_with_output).                                        *)
OutputIsComplete ==
  ended = "exited" => output = produced /\ Running = {}

(* Whatever the program does, also when it waits for room in a pipe nobody *)
(* reads yet, a command comes to its end: it is killed when its time is up *)
(* or the turn is canceled.  What may still take long is the output of     *)
(* processes it left behind.                                               *)
CommandEnds == commandPc = "canceled?" ~> commandPc \in {"reading", "returned"}
=============================================================================
