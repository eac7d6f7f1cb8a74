# Verification of prole-coder

prole-coder is a coding agent. A Rust process runs the agent (the *turn loop*)
and serves a JSON-RPC protocol over stdin and stdout; a VS Code extension starts
that process and shows what it does. This directory holds TLA+ models of the parts
where threads, processes, files and people meet, the TLC configurations that check
them on small instances, and TLAPS proofs for every instance.

Paths below are relative to the repository's root. `RPC` is
`crates/agent-rpc/src/lib.rs`, `TL` is `crates/agent-core/src/turn_loop.rs`, `RL` is
`crates/agent-core/src/run_log.rs`, `TE` is `crates/agent-core/src/tool_execution.rs`.

## 1. Inventory

| component | state | operations | hard behaviours | what makes it correct |
|---|---|---|---|---|
| Pending-approval queue (`RPC` `RpcApprovalQueue`) | map of pending approvals, session and workspace keys, `approvals.v1.json` | register, approve, reject, cancel a run, wait | two threads; the lock is released around a file write; deadlines; crash while writing; ids that start again every turn | an accepted answer is what the worker gets; nothing runs without an approval; every wait ends |
| Turn loop (`TL`) | conversation, request numbers, retry counts, diff baseline, steer queue, cancellation token | build the context, ask the provider, retry, execute tools, ask for approval or for more budget, report, end | arbitrary answers, stalls, transient errors, cancellation anywhere, failing run log | well-formed conversation; only approved calls run; the turn ends; what it reports is true |
| Stdio request loop and active run (`RPC` `run_stdio_request_loop`, `AgentTurnLoopRpcHandler`) | two bounded queues and one unbounded one, active run, deferred message | read, forward, batch, handle, replay, delete, join, shut down | four threads that block on one another; EOF and broken pipes at any time; replay during a live run | events once, in order, after the response; no run without a client; a log is not deleted under its writer |
| JSON-RPC layer (`RPC` `AgentRpcServer`) | initialized or not | one line in, a response and events out | protocol order, parse errors | every line is answered as the state demands |
| Run log store (`RL`) | `events.jsonl` and `summary.json` of each run | create, open, append, list, load, delete | crash between writes; two threads writing one summary; a listing during an append | what the client saw is on disk; summaries tell the truth |
| Approval requirement and command risk (`command_risk.rs`, `TL`) | none | classify a command, combine requirements | nesting of shells, wrappers, quotes | nothing risky without a question |
| Context capsule (`context.rs`, `token_estimator.rs`, `workspace_manifest.rs`) | manifest, items | walk, attach, choose under a token budget | directories in any order, files that change, budgets | budget respected, required items kept, equal workspaces give equal prefixes |
| DeepSeek adapter (`provider/deepseek_api.rs`, `crates/cli`) | buffer of the event stream, tool-call deltas | send, retry, parse, accumulate, map errors | bytes cut anywhere, mixed deltas, connections that break | a completed answer is the one that was sent; an error has its cause |
| Tool executor (`TE`) | workspace files, processes | read, search, patch, shell | partial patches, processes that outlive a command, full pipes | a rejected patch leaves no trace; a patch can be undone; output is complete |
| Tool definitions (`tool.rs`) | static tables | validate arguments | | |
| CLI and TUI (`crates/cli`, `crates/tui`) | none | parse arguments, wire the parts | | |
| Extension: RPC server manager (`vscode/extension/src/rpcServer.ts`) | child process, status, pending requests, replay bounds | start, stop, send, handle output, exit and errors | callbacks of an old child after a new one was started; answers to a stopped server | answers come from the server that was asked; no server is forgotten; every request settles |
| Extension: approval prompts (`approvalFlow.ts`, `chatApprovals.ts`, `patchPreview.ts`) | queue of prompts, remembered keys | prompt, preview, answer | ids that repeat | every question is shown once |
| Extension: chat view (`chatView.ts`, `chatEvents.ts`) | the conversation shown | fold events | replay mixed with live events | same result for both |
| Extension: rendering, attachments, secrets, git, completion preview | editor state | editor commands | | |
| Protocol package (`packages/protocol`) | none | types | | |

How they interact. The extension starts the server process, sends requests as lines
and matches the responses by id. In the server the request loop (main thread) takes
lines that the reader thread queues, and handles each to its end. `agent.sendTurn`
starts a worker thread that runs the turn loop. Each event of a turn goes first to the
run log, then to the event sink (`RpcRunEventSink::on_event`), which registers approvals
in the queue, hands terminal events to the request loop through an unbounded channel,
and sends every event to the live queue; the forwarder thread moves it to the loop
queue, from which the request loop writes it to stdout. The turn loop builds its context
from the workspace, reads the provider's stream, and executes tools on the workspace;
it blocks in `wait_for_decision` until `agent.approve`, `agent.reject`, `agent.cancel`
or the deadline decides. `agent.resume` writes events of the log to stdout, marked by
the client as replayed up to the seq in the response.

## 2. Modules

| module | models | checked by | proved in |
|---|---|---|---|
| `ApprovalLifecycle` | abstract: the state machine of an approval (`approval.rs`) | implemented by `ApprovalQueue` | `ApprovalQueueProofs` |
| `ApprovalQueue` | the queue, its file, the request loop and the worker that share it | `MCApprovalQueue` | `ApprovalQueueProofs` |
| `TurnProtocol` | abstract: what a turn promises to provider and user | implemented by `TurnLoop` | `TurnLoopProofs` |
| `TurnLoop` | the control of one turn | `MCTurnLoop` | `TurnLoopProofs` |
| `StdioLoop` | the four threads of the server, their queues, the methods, and the client's replay marks | `MCStdioLoop` | `StdioLoopProofs` |
| `RunLog` | the files of the run log, the appending worker, the listing and deleting request loop | `MCRunLog` | `RunLogProofs` |
| `Patch`, `PatchText` | unified diffs: application, reversal, choice of hunks; their text and its parser | with `PatchTool` | |
| `PatchTool` | one call of `apply_patch` on files that others may write | `MCToolExecutor` | `ToolProofs` |
| `CommandTool` | one shell command: its processes, its pipes, timeout and cancellation | `MCToolExecutor` | `ToolProofs` |
| `CommandRisk` | lexer and classifier of commands, and the approval they need | `MCToolExecutor` | |
| `TurnReport` | the snapshots around a turn's commands; changed files and verification status | `MCToolExecutor` | `ToolProofs` |
| `ToolExecutor` | composes the five before: a call from its arguments to its result, or the calls of a turn with their report | `MCToolExecutor` | |
| `WorkspaceManifest` | the walk of the workspace | `MCFirstAnswer` | `FirstAnswerProofs` |
| `ContextCapsule` | the choice of items under two budgets | `MCFirstAnswer` | `FirstAnswerProofs` |
| `TurnContext` | composes the two before: manifest, rules, task, attachments | `MCFirstAnswer` | `FirstAnswerProofs` |
| `ProviderStream` | one streamed answer over a network | `MCFirstAnswer` | `FirstAnswerProofs` |
| `FirstAnswer` | composes the context with the provider: the beginning of a turn | `MCFirstAnswer` | `FirstAnswerProofs` |
| `ServerManager` | the extension's view of its server processes | `MCServerManager` | `ServerManagerProofs` |
| `Cancellation` | the cancellation token of a turn, shared by tools, context and stream | | |
| `Projection` | what is left of a sequence when it is filtered, as a recursive function | | |
| `SequenceFacts` | lemmas: induction, sequences, projections, joined sequences | | itself |

The models meet at the boundaries of the code. The worker of `StdioLoop` and of `RunLog`
emits a sequence of events that ends with a terminal one, as `TurnLoop` does; the
`decide` of `TurnLoop` returns the verdicts that `ApprovalQueue` delivers; its provider
and its tools are nondeterministic where `FirstAnswer` and `ToolExecutor` go into detail;
the servers of `ServerManager` answer what they are sent, as `RequestsAreHandled` says
of `StdioLoop`. Replay is composed where it matters: in `StdioLoop`, `agent.resume` reads
the log while live events are in the queues, and the client tells the copies apart.

Definitions named as mutants (`(* Mutant: ... *)` in the modules) are plausible bugs in
the definition that follows them. They are not part of any specification; replacing
the definition by its mutant must violate a property, which shows that the property
depends on that piece of code.

### ApprovalQueue

State: `pending` is the map of `RpcApprovalQueueInner` as a set of entries, keyed by
the id of the request (`IdOf`); `sessionKeys`, `workspaceKeys` and `file` are the
persistence state and its file; `mainPc`, `handling` say where the request loop is
within `resolve` or `cancel`; `workerPc`, `question`, `turn`, `run`, `canceled` describe
the worker. `announced`, `accepted`, `resolved`, `chosen`, `executed` are history.

One action is one critical section of the `pending` mutex. `resolve` is `BeginAnswer`
(first section: checks and validation), `TruncateFile` and `WriteFile` (or `WriteFails`)
for `fs::write` without the lock, `Commit`, `CommitTooLate` or `CommitGone` (second
section) and `Remember`. `cancel` is `CancelToken`, `CancelPending`. The worker is
`CheckToken` / `Announce` (append, register) / `TakeDecision`, `TakePersistent`,
`TakeExpired` or `Park` / `StartTool` / `FinishTool`; `RecheckToken` is the second look
at the token that only the budget prompt has. `Tick` lets the deadline of any entry
pass; `Restart` kills the process and keeps the file.

### TurnLoop

One action per step of `run_turn_inner` that the environment can tell apart.
`Ask`..`EndStream` are a request to the provider, `Truncated`, `FinalAnswer` and
`TakeCalls` are what is done with the answer, `RequestTool`..`ToolFails` execute one
call, `Exhausted`, `RecheckBudget` and `RenewBudget` are the budget prompt. `LogFails`
is every `?` behind `append_turn_event`. Messages keep what the provider's rules tell
apart: tool calls with their number and reasoning, results, and anything else.
Neighbouring text messages count as one. The kind of a call (read-only, allowlisted
shell command, shell command, patch) is chosen when the call is executed, since nothing
looks at it before. `iteration` and `budgetEnd` are the absolute numbers of the code.
`misses`, `granted`, `permits` and `shellRan` are history.

### StdioLoop

The threads are the four of `run_stdio_request_loop`: `readerPc`, `forwarderPc`,
`workerPc`, `mainPc`. Sending to a full `sync_channel` is an action that is not enabled.
The request loop's `handle_line` is split where it waits: `draining`
(`drain_ready_active_run_events`), `joining` (`finish_active_run`), `acting`,
`collecting` (`collect_active_run_events_until_pause`), `replying`. `BeginRequest` tells
apart what `handle_line` tells apart: lines without a request, methods before or after
their time, refused parameters, and one action per method. A run is active from
`StartRun` until `DropRun` and `Join`; its log is in `stored` until `DeleteRun`.
`Resume` reads the log and answers with the events and the next seq; `client` follows
`markReplayEvent` of the extension and keeps what it took for new (`acted`) and for a
copy. When the request loop gives up, the receiver of the loop queue still exists until
the scope ends (`loop_rx` belongs to the enclosing function), so that the reader and the
forwarder block on a full queue rather than fail.

### RunLog

`events[r]` and `summary[r]` are the two files. A line is written in three steps (first
bytes, rest, newline), a summary in two (truncate, fill), and `Crash` may come between
any two. The contents of an event are its type; of a summary, its `lastSeq`, its
`eventCount` and its status.

`write_summary` truncates the file and writes it unbuffered, piece by piece; nothing keeps
another thread from reading or writing meanwhile. So `summary[r]` is the set of the texts
that have pieces in the file, `Torn` among them when a text may be incomplete: `{}` is no
file, one text a whole one. Reading is in two steps as well, opening and parsing, and
`workerSees` and `mainSees` collect the texts that were in the file in between. What a reader
gets (`Readings`) is `Torn` or any `Blend` of the texts, each field from one of them. `mixed`
is history: the text is a blend of several, or was made from one. (That such a blend parses is
not far-fetched: the texts before and after `run.completed` of a small run are the same up to
the status and two digits, and their pretty-printed lines can be cut within the indentation.
Two numbers that run together match no count, as `Torn` does.)

### ToolExecutor

A state is one call (a patch, or a command that is composed, asked about and run), or a
turn that reports.

- *Patches.* A parsed patch is a sequence of sections with numbered hunks. `Patch` has
  `apply_file_patch` (lines before a hunk are copied, a hunk that starts too early is
  applied at the cursor), `reverse_patch` and the renumbering of chosen hunks
  (`filter_apply_patch_hunks`); `PatchText` writes a patch as text and parses it again. In
  `PatchTool`, a call names files, is asked about or not, is parsed and filtered, stages
  file by file in memory, and writes file by file. `expectedFiles` is a list of spellings:
  whether to ask is decided on them as they are (`NeedsQuestion`), and only then `PathOf` makes
  paths of them, which the patch is held to (`Acceptable`); a write may fail, the token is looked
  at where the code looks, and others write at any time (`foreign`).
- *Commands.* `CommandTool` is `run_command` on Unix: processes write into a pipe of
  bounded capacity that is read only after the program has exited; timeout and
  cancellation send SIGTERM to the group, wait a grace period and kill. Processes may be
  deaf to SIGTERM or leave the group.
- *Risk.* A command is a sequence of symbols. The environment composes it (`Compose`) from
  an example whose meaning is known and up to `MaxNesting` constructions around it
  (quotes, wrappers with and without option values, reserved words, assignments, shells,
  substitutions, parentheses, backquotes that are quoted, nested or followed by an operator,
  operators), of POSIX shells and of PowerShell alike; the classifier is the code's lexer,
  tables and recursion. `hidden` is what of the meaning stands where the classifier does not
  look; the properties except it, and section 5 says what that amounts to.
- *Reports.* In `TurnReport` a snapshot is one `ScanFile` per file of the walk, and commands,
  patches, editors and left-over processes write between any two. Fingerprints are of
  size, time and, up to `HashMax`, data.

### FirstAnswer

- *Context.* `WorkspaceManifest` visits files in any order, with files changed by others in
  between; `TurnContext` adds rules, the task, the caller's items and attachments (ranges,
  limits, refusals); `ContextCapsule` takes items in the order of priority and estimates
  the rendered size before it keeps one. Texts are sizes.
- *Provider.* The wire is the sequence of symbols of an answer's blocks, with line ends of
  either kind. `Network` delivers pieces of any length, closes or breaks the connection;
  `ReadStream` is the send with retries, the buffer of `SseEventParser`, the accumulator of
  tool-call deltas and the mapping of errors. Whether bytes are cut within a character does
  not matter, since the parser looks for line ends only.

### ServerManager

The first block of variables are fields of `RpcServerManager`. Each callback runs to its
end, as JavaScript does: `SendRequest` (with `start`) up to its await, `WriteRequest` after
it, `Stop`, `HandleStdout`, `HandleExit`, `HandleProcessError`. `SendRequest` may spawn
(`Spawn`), fail to (`SpawnFails`) or fail to write (`InitializeFails`). Output comes in
chunks that may end within a line. A server's `output` is read also after it was stopped,
replaced, or has exited: Node delivers its events in no promised order. Continuations of
promises run before the next exit or error is told (`Due`).

## 3. Runs

| run | expects | what it asks |
|---|---|---|
| `approval_queue` | pass | accepted answers are delivered, nothing runs unauthorised, grants survive, every wait ends, a canceled run ends, and every tool question follows `ApprovalLifecycle` |
| `answer_by_id` | violation | does an answer decide the question it was given for? |
| `lost_cancel` | violation | does `agent.cancel` leave an undecided approval? |
| `stdio_loop` | pass | events once, in order and after the response; replays and live events make one stream; no log is deleted under its worker; no run left behind |
| `stdio_roomy` | pass | with room in the queues, every request is handled and EOF ends the loop |
| `stdio_full` | violation | with full queues, does EOF settle the run? |
| `run_log` | pass | durability, true and fresh summaries |
| `replay_mismatch` | violation | can what was delivered always be replayed? |
| `turn_loop` | pass | conversation, approvals, diff baseline; the turn follows `TurnProtocol` and ends |
| `tool_executor` | pass | rejected patches leave no trace, questions cover what is written, patches can be undone, output is complete, commands end, reports are true; what commands do is found, and risky ones are asked about, outside the known blind spots |
| `first_answer` | pass | equal files give equal prefixes, capsules keep their budget and their form, framing is invisible, completed answers are what was sent, errors have causes, requests end |
| `server_manager` | pass | answers come from the server asked, no server is forgotten, every request settles |

Bounds, and why they are enough.

- `approval_queue`: two turns, of the same or of different runs, because the defects an
  id can cause need an old question and a new one; one tool request that is persistable
  and offers a hunk, and one budget request, because these are the two classes the code
  distinguishes; two hunks (one offered, one not) and the hunk lists that
  `validate_approval_decision` tells apart (empty, good, repeated, unknown).
- `turn_loop`: two windows of two requests, answers of up to two calls (so that one
  follows another in one answer, and an answer follows an answer), three kinds of calls,
  one transient error and two idle attempts (the code has 2 and 5), one steer message.
  The real window is 50 requests; the theorems hold for all numbers.
- `stdio_loop`: queues of one message and batches of two make every send block and every
  batch close; two runs of three events, four lines (start, resume, and two more) and one
  read error. `stdio_roomy`: queues that hold everything two runs of two events emit, and
  all methods. `stdio_full`: queues of one message and a run of six events; the code's
  bounds are 256 and 256, and a run that streams text emits an event per delta.
- `run_log`: one run, since the files of two runs are disjoint and the listing looks at
  each alone; four events over several turns; two crashes, because a torn line needs a
  crash and its effect another opening.
- `tool_executor`: files of one and three lines with repeated contents, so that a hunk can
  match at the wrong place; one or two hunks, one or two sections, creation, deletion and
  renaming; a program with three children (ordinary, deaf, detached) and a pipe smaller
  than its output; every file by its path, one also by a spelling that hides its name, one
  spelling that is refused, and lists of one or two (the limit is one); reports of two commands and two writes over
  four files with a walk limit of two; fourteen shell commands that cover the tables of the
  classifier, inside up to three of the constructions around a command (the code's depth is 8).
- `first_answer`: four paths (one secret, one excluded), a manifest limit of one entry, and
  budgets that some lists of items exceed; eight answers, of which some are not well-formed,
  two line ends and their mixture, three sends.
- `server_manager`: two requests and two servers, of which the second can meet the late
  output and the exit of the first; one chunk of unread output each, whole or in halves.

Fairness. `TurnLoop`: the thread is scheduled, and the provider either answers or its
idle timeout fires; a stream that sends deltas for ever is excluded, since every delta
resets the timeout and the code has no other limit. An approval is always decided or
expires, which `ApprovalQueue` shows (`WaitEnds`). `ApprovalQueue`: the worker is
scheduled, time passes, and a cancellation that was begun is finished. `StdioLoop`: every
thread but the reader (the client may never send another line) is scheduled, and the
client reads stdout or closes it. `ToolExecutor`: the thread that runs the command is
scheduled and time passes; the processes are under no obligation. `FirstAnswer`: the
turn's thread is scheduled and its timers run; the provider need not answer.
`ServerManager`: Node runs every callback; a server answers what it was sent (which
`RequestsAreHandled` shows of `StdioLoop`) or exits, and one that was killed exits. No
fairness is assumed of the users, of crashes or of failures.

Deadlock is checked except in `stdio_loop` and `stdio_full`. When stdout breaks, the
loop may return from its body while the reader or the forwarder is blocked for ever
(see 5); `stdio_full` shows such a standstill.

## 4. Proofs

Every theorem is about all values of the constants; the assumptions are the `ASSUME`s of the
component's module, which say what types the constants have and are evaluated by TLC in
every run. No invariant below is inductive alone. Each proof module therefore states an
inductive invariant as a conjunction of named parts, and each part was checked by TLC on the
component's run before it was proved. The proof that a step keeps it has one step for each
action, or for each group of actions that touch the same variables.

| module | theorems about the runs' properties | and |
|---|---|---|
| `ApprovalQueueProofs` | `AcceptedAnswerIsDelivered`, `ApprovalIsAuthorised`, `GrantsAreOnDisk`, `ImplementsLifecycle` | types, `WaiterHasEntry`, `ToolVerdictIsFresh`, `LifeInv` |
| `TurnLoopProofs` | `ApprovedBeforeStart`, `ShellChangesAreCovered`, `ConversationIsWellFormed`, `ImplementsProtocol` | types, `PrepareNeverFails`, `TruncatedCallsNeverRun`, `RetriesAreBounded` |
| `StdioLoopProofs` | `TypeOK`, `NothingLostOrReordered`, `ReplyBeforeEvents`, `ReplayKeepsTheStream`, `LogOutlivesWorker`, `NoOrphanRun` | |
| `RunLogProofs` | `DeliveredIsDurable`, `SummaryIsHistory`, `ListIsFresh` | types |
| `ToolProofs` | `RejectionIsClean`, `QuestionCoversChanges`, `OutputIsComplete`, `ReportIsAccurate` | types, the end of a command's shell |
| `FirstAnswerProofs` | `PrefixIsStable`, `CapsuleIsWellFormed`, `OmissionIsJustified`, `FramingIsInvisible`, `CompletedIsTheAnswer`, `FailuresHaveCauses` | `AnswerInv` |
| `ServerManagerProofs` | `AnswersAreOwn`, `NoServerIsForgotten` | |

### The approval queue

The assumptions are `QueueAssumption` (types; budget requests are not persistable) and
`IdsByKind` (the two id formats of the turn loop never coincide). `IInv` has three parts:

- `QueueInv`: ids are unique in the map; everything in it was asked; the worker's question
  belongs to its turn; a resolved question is gone from the map; only a budget prompt
  outlives its turn.
- `AnswerInv`: an entry says "approved" only if a client was told so; accepted answers are
  in the map or resolved with that verdict. It needs `QueueInv` (a question accepted once
  is not pending undecided again) and `GrantInv`.
- `GrantInv`: while the request loop is between the sections of `resolve` it holds what it
  needs: the key was asked for, and is on disk before it is relied on.

*Refinement.* The state of a question in `ApprovalLifecycle` is read off the history: asked,
in the map with or without a decision, resolved, executing, executed. For this to be a
function of the question, a question must have one entry, one verdict and one execution,
and what the worker is about to execute must have been approved and not been executed:
`LifeInv`, kept because a verdict removes the entry it is made of. `UntouchedStays` says that
a step changes the state of no question but those whose records it changes. Then `Announce`
is `Ask`; a decision of the request loop, a verdict of the worker, the start and the end of a
tool are each one edge of `can_transition_to`; `CancelPending` is the cancellation of a set
of questions at once; all others stutter. A verdict that was in the map already is the one
case of a step of two possible meanings: taking it changes nothing.

### The turn loop

`IInv` says what the code relies on between two steps: where there is an answer, where a
call is being executed and what is known of it, and how the failed attempts relate to the
two counts (`misses + transient + idle` never exceeds what a window starts with). The
assumption is `TurnAssumption`.

*Refinement.* The refinement mapping takes the debt of a turn, the tool calls that have no
result, from the conversation itself, not from a counter of the code. `OwedInv` says that
this debt is what the number of the executed call leaves (`response.calls + 1 - call`), and
that it is nought whenever the provider is about to be asked. Then every action is one step
of the protocol: `Begin`, `Ask`, `RenewBudget` and `FinalAnswer` by name, failed and
truncated attempts as `Drop`, `TakeCalls` as `Accept`, a finished or refused call as
`Settle`, `NoMoreCalls` as `Resume`, each end as `Abort`; or it changes nothing the protocol
sees. `Ask` needs `PreparedInv`: otherwise it could count a request it never made.

*Conversation.* `ConversationInv` strengthens `ConversationIsWellFormed` for the time in
which the calls of an answer are being executed: the last answer has the results of the
calls before the current one, in order, and nothing else; all earlier answers are complete.
Nothing is ever inserted, so that what is so of a message stays so (`LongerConversation`).

### The request loop

The theorems hold for queues and batches of every size, any number of lines, runs and
events. `IInv` consists of

- `RequestInv` and `RunInv`: what the request loop has in hand at each of its places, and who
  knows of the worker (the active run, or the request loop that joins it);
- `EventStream` and `LineStream`: what was emitted (read) is what was written (answered)
  followed by what the batch, the queues and the threads hold, in order;
- `AcceptInv`: events on their way belong to runs whose request was answered, or is about to
  be answered before they are written;
- `EmittedInv`: the log of a run has the seqs 1, 2, ... without a gap, so that the part from
  `replayFromSeq` on begins with that seq;
- `ClientInv`: the client has seen the events of a run up to some point, of which the live
  ones are a prefix; each replay that is asked for, or on its way, begins no later than
  after that point, and ends below the `nextSeq` of its response.

`ReplayKeepsTheStream` follows from the last two: what a replay brings is either seen or
next, and what it marks as replayed is what the live events that are still queued have below
`nextSeq`. The filters of the log are `Only` (`Projection`), a recursive function; the lemmas
of `SequenceFacts` say how it follows `Append` and concatenation.

### The run log

The point of `DeliveredIsDurable` is that the worker counts seqs in memory while the lines
are on disk. `CountInv` says that for a log opened at the end of a line the two are in step at
every point of an append; `ActiveInv` and `MainInv` that the request loop neither deletes nor
creates the log the worker has open; and `DurableInv` strengthens the property by the one
fact that makes an append harmless: a delivered event that is the last line has its newline.
The assumption is `LogAssumption`.

`SummaryIsHistory` and `ListIsFresh` need `HInv` as well. A text *tells* the history of a
run if it is that of a prefix of its settled lines; logs only grow (`HistoryGrows`), so that it
goes on telling it, however late it is written and by whom. `SummaryInv`, `SightInv`,
`UpdateInv`, `SeenInv` and `ResultInv` say this of every text that has pieces on disk or before
a reader's eyes, in the worker's hand, in the listing's hand and in its result, unless it is
`mixed`; and of mixed ones, as far as it is true of them, that their two numbers count lines
that are there (`Honest`, `ReadingIsHonest`: a reading of texts that tell the history is mixed
or one of them). `SeenInv` adds that what the listing returns counts no less than what there
was when it began. `LineInv` says what an unfinished line looks like, `UnsoundInv`
that a log opened within a line cannot be read again, and `DirInv` which files there are when
a directory is half made or half deleted.

### Tools

*Patches.* `FilesInv`: the files are what they were until the first write, and after a
rejection. `UnaskedInv`: unless somebody was asked, the targets of the patch are few, policy
files among them are spelled so that their names are hidden (`Harmless`), what is staged is
among the targets, and so is what has changed. A list of spellings means no more files than it
has entries, whatever `PathOf` is (`ShortListMeansFewFiles`). That the staged files are
targets needs an induction over the sections of the parsed text. The theorems are about
`PatchSpec`, a patch with its files, other writers and the cancellation. In `ToolExecutor` the
same actions are taken under additional guards, with the variables of the other tools
unchanged; the composition itself contains the classifier of commands, which is written with
RECURSIVE operators and which the prover cannot read.

*Commands.* For any processes and any capacity of the pipe: every byte written is in the
pipe or was read (`OutputInv`), and the end of the output is seen only when nobody is left
to write.

*Reports.* `ReportIsAccurate` for any workspace, any order of the walk and any limits: a
snapshot in progress says the truth of the files it has passed, except those written meanwhile
(`ScanInv`), and a finished one goes on doing so of the files at the baseline (`BaselineInv`).
The theorem has a hypothesis beside the specification, `TableIsTrue`: the classifier of
verifying commands agrees with the table it is given, which the run checks for its table.
TLAPS cannot evaluate a table of words.

### The context

`PrefixIsStable`: an undisturbed walk leaves in `entries` each file that is there as it is
(`WalkInv`), in any order; what is made of them is determined by the set of paths, because
the sorted and cut list is a projection of the one list of all paths.

`OmissionIsJustified` is about a greedy choice: an item is left out when it does not fit
behind those included so far, and the property asks whether it would fit into the capsule
that is built in the end. This needs that the cost of a list grows with the list
(`TokensGrow` for the estimate, which is linear in the rendered bytes and rounds up;
`StableGrows` for the stable prefix), and that items are taken in the order of placement
(`OrderInv`), so that what comes later neither shifts an omitted item to another section nor
makes room for it. `SourceInv` says that the required items that were taken are included,
`UniqueInv` that no source is there twice. `CapsuleIsWellFormed` is that a list in the order of
placement has one section for each placement.

### The answer of the provider

`FramingIsInvisible`, `CompletedIsTheAnswer` and `FailuresHaveCauses` are about what was shown
and what the answer became in the end; to keep them, one must know where the parser stands
between two pieces. `AnswerInv` says: while the stream is open there is a block m such that
the parser's buffer is what has arrived of the wire behind block m, and `response` is what the
accumulator makes of the choices of the blocks up to m, without those of the events in
`pending` (`Hearing`). Nothing read so far was malformed, and nothing is left behind [DONE].
When the stream ends, all blocks up to its last one have been taken (`EndsAt`).

A piece makes the bytes left longer; each round of the parser's loop moves m by one
block (`RoundReadsOn`), or the parser stops (`Stopped`). This rests on two facts about one
block. The first separator found in what is left is the end of block m + 1, whichever line
end it has (`FindsTheNext`): no line end within a block looks like one. What stands before it
is read as that block, as nothing, or as a failure (`ParsedIs`), and as nothing only if it is
a comment, also when the payload is on two lines or the block keeps the `\r` of a mixed
separator. When the loop stops there is no separator left or the last event is [DONE], so
that a connection that is closed is closed behind a block, or within one (`AllIsRead`).

What was taken is the meaning of the blocks (`TakenMeans`), by induction over the choices. The
meaning gathers, for each number, the pieces with that number; the accumulator extends one
entry per number, piece by piece, and gives up at a contradiction. That entry holds the only
values the pieces name and their joined arguments (`Accumulated`), a contradiction among the
first pieces remains one (`Heard`), and `finish` lists the entries in the order of their
numbers, as the meaning does. The texts join by `SayConcat`, and since what was taken is a
beginning of what all blocks say (`HeardIsShown`), `FramingIsInvisible` follows
(`FramingHolds`).

The parser, the lines of a block and the accumulator are recursive functions in the
model, and `SequenceFacts` has the lemmas on joined and filtered sequences (`FlatAppend`,
`Regroup`, `PrefixOfConcat`). The assumption is `StreamAssumption`: the line ends are those of
the wire format; an answer is a sequence of blocks, of which only chunks have choices and
only the last, on one line, is [DONE]; and an index, which is a number in the code, is one.

`FailuresHaveCauses` has one hypothesis of its own, `EndsAreClean`: no answer ends its lines with
`\r\n` and its blocks with a bare `\n` behind that. Such a block keeps a `\r` that the code takes
for a part of the payload of its last line, a well-formed [DONE] is then no [DONE], and the
answer fails. The event-stream format would allow such a mixture, and the code is not made for it; the
run has three kinds of line ends without it.
`FramingIsInvisible` and `CompletedIsTheAnswer` hold for it as well.

### Servers

`IdsInv` follows an id from the counter through a server's requests and its output back to
the caller: ids below the counter were given once, to one server. `ChildInv` says in which
states the manager may hold a server.

### Model-checked only

- The liveness properties (`WaitEnds`, `CancelEndsRun`, `EofEndsLoop`, `RequestsAreHandled`,
  `TurnEnds`, `CommandEnds`, `RequestEnds`, `RequestsSettle`): the prover has no rules for
  fairness and ENABLED.
- The classifier of commands (`NothingIsMissed`, `RiskyCommandsAsk`): it is mutually recursive
  like the code (RECURSIVE operators), and its tables are strings.
- The reverse of a patch (`ReverseRestores`). It is a property of the patches the run offers,
  not of every patch: the code applies a hunk by its old number and never compares the new
  one, which the reverse is applied by, so that a theorem would need hunks whose numbers
  agree. Rendering, parsing and applying are also folds over the lines, with an operator
  that the prover cannot instantiate.

The library's induction theorems take an operator as well. `SequenceFacts` states induction of
sets instead, over numbers and over sequences, from the well-foundedness of the natural
numbers, which needs none; with it the modules above prove what their recursive functions
(projections, concatenations, sums) compute.


## 5. What the code does otherwise than its documents

Shown by a run:

- `answer_by_id`: approval ids are `approval_{iteration}_{tool}` and both numbers start
  again in every turn. An answer to a question that was already decided or expired is
  accepted for a later question with the same id.
- `lost_cancel`: `ensure_approval` does not look at the token after it has registered; a
  cancellation just before leaves the approval open until its deadline.
- `stdio_full`: while the request loop waits for the end of a run nobody receives from the
  loop queue, and a worker with more events than both queues hold never ends.
- `replay_mismatch`: an event line without its newline is continued by the next event.

Stated as the exception of a property that a run checks; without the exception TLC finds what
follows:

- `SummaryIsHistory`, `ListIsFresh` (`mixed`): a listing that reads `summary.json` while the
  worker writes it may parse the beginning of one text and the end of another (`RL:823`). It
  compares only `lastSeq` and `eventCount` with the events, and can call a completed run
  running, although `docs/run-log.md:70` has listings repair a half-written summary from the
  events. The file itself is whole again after the write, and the next listing is right.
- `QuestionCoversChanges` (a spelling that hides the name): `expectedFiles: [".gitignore/"]` is
  asked about by nobody and patches `.gitignore` (`TL:3213`, `TE:304`): the name is looked for
  before the path is normalised. `docs/tool-system.md:169` says such patches ask.
- `NothingIsMissed` and `RiskyCommandsAsk` (`hidden`): `nice -n 10 curl address` and
  `sudo -u root rm` are classified by `10` and `root` (`command_risk.rs:808`), and a grant may
  answer for the user, although `docs/tool-system.md:205` has wrappers looked into. The other
  members of `hidden` are under "Command risk" below.
- `RiskyCommandsAsk` (parentheses): `cat (curl address)` passes the read-only allowlist
  (`TL:3351`), and PowerShell runs what is in the parentheses; `docs/tool-system.md:207` says no
  subcommands.

Seen while modelling, and not the subject of a property:

- Run log: `agent.listRuns` reads all events of all runs (`RL:923`), where
  `docs/json-rpc-protocol.md:499` says it reads `summary.json`; one half-written line makes
  the listing fail. `create_run` refuses a directory without a log, which a crash leaves.
- Turn loop: the idle attempts of `docs/turn-loop.md` count per window and start again with
  every success; a stalled provider whose attempts are used up fails the run even if it was
  canceled; a failed append of the terminal event leaves a run without one; tool calls are
  executed whatever the finish reason, except `length`.
- Replay: an approval event that is still in the live queues when `agent.resume` answers has
  a seq below `nextSeq`, so that both its copies are marked as replayed and
  `approvalFlow.ts:93` drops the question until it expires. The chat view prevents a resume
  while it is busy; the server does not. After `agent.deleteRun` a reused run id starts at
  seq 1 again, below the mark the client keeps.
- Server manager: a response to `initialize` that is read after `stop()` or after the exit
  makes the status "ready" without a process (`rpcServer.ts:499`); requests are then refused,
  none hangs, until `stop()`. A line cut by an exit is joined with the first output of the
  next server only if that arrives late; what does not parse ends the new server. A process
  error while ready leaves the child in place, and the next start overwrites it
  (`NoServerIsForgotten` excepts such servers). `start()` returns `undefined` when writing
  the first request throws, so that the request then fails as "not ready".
- Patches: lines that begin with `-- ` cannot be removed by a patch, nor can the reverse
  patch of one that adds them be parsed (`TE:1498`); CRLF files become LF; counts in hunk
  headers are ignored; of two sections for one file the last wins; hunks that only add or
  only remove are placed otherwise than git places them. A write that fails halfway leaves
  earlier files changed.
- Commands: a process that left the group keeps the pipe, and with it the reader, beyond
  timeout and cancellation (`TE:957`), and survives, although `docs/security-model.md:33`
  speaks of the process tree; a program that fills the pipe waits until its timeout.
- Command risk: a backquote before an operator hides the operator, and one before a double
  quote all operators after it; backquotes within double quotes are not looked into (they are
  escapes in PowerShell, substitutions in a POSIX shell), nor escaped ones within backquotes;
  reserved words (`!`, `{`, `then`) are taken for programs; `--opt=value` skips the next word as
  `--opt` does. `NothingIsMissed` and `RiskyCommandsAsk` except the first three.
- Context: an optional item may use the budget that a required one after it needs
  (`docs/context-capsule.md:184`); two attachments of one path pass the removal of
  duplicates and fail in the builder if their ranges differ.
- Provider: a stream that ends between two events without `[DONE]` counts as complete;
  `\r\n\n` is no separator the parser handles cleanly (`docs/deepseek-api-adapter.md:108`);
  an invalid event discards the valid ones in the same chunk of bytes. A connection that is
  closed between the pieces of a tool call counts as the end of the answer, so that the call is
  found incomplete and the run fails, where a break within a block is tried again.
- Reports: with more files than the walk's limit, a new early file pushes the last one out of
  the second snapshot, which is then reported as changed; a failed verification stays
  failed although the tests pass later (`docs/turn-loop.md:89`).

## 6. Not modelled

- Turn loop: payload references, diagnostics files, edits of read-only previews, message
  texts.
- Server: the handler without live events (`collect_active_run_events_until_pause` without a
  live sink), which the stdio loop never uses; parameters beyond their being accepted.
- Run log: payload files and redaction.
- Tools: those that only read; Windows' process tree; the schemas of arguments, of which
  only the verdict appears; errors of spawn and `try_wait`, which end a command before it
  begins or leave its processes to the user; case-insensitive file systems and links, by
  which one file has two normalised paths.
- Commands: redirections, compound commands (loops, functions, here-documents), `eval`, and
  programs that run others (`xargs`, `find -exec`) are not composed.
- Context: malformed items; `total_size_bytes` of the manifest, which nothing decides on.
- Provider: configuration, the endpoints that are not streamed, the text of requests, errors
  in reading the body that go away by themselves.
- Extension: prompts, chat view, rendering, attachments, secrets, git and completion preview.
  Of the server manager: the refusal in an untrusted workspace, a process without pipes,
  and which results of `initialize` are accepted.
- CLI, TUI and protocol package: wiring, static output and types.

The components' status is in `PROJECT.json`. What is left is mostly wiring, text and editor
calls, where a model would repeat the code; of the prompts, the part that can go wrong is
the reuse of ids, shown on the server's side.

## 7. What could follow

1. The queue of prompts (`approvalFlow.ts`) composed with `StdioLoop`'s client: remembered
   keys, ids that repeat, replayed questions.
2. `StdioLoop` as an implementation of an abstract "ordered stream with replay".
3. A proof about the text of a patch, with the induction of `SequenceFacts`: that a patch whose
   hunks are numbered as they fit, and its reverse, cancel out (`ReverseRestores`).
4. Payload files of the run log: references that must be durable before the event that names
   them.
