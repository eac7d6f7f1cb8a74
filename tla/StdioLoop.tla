----------------------------- MODULE StdioLoop -----------------------------
(***************************************************************************)
(* The stdio request loop of the RPC server, the methods it serves and     *)
(* the active run: run_stdio_request_loop, AgentRpcServer and              *)
(* AgentTurnLoopRpcHandler (crates/agent-rpc/src/lib.rs) in their          *)
(* live-event mode; and how the client's RpcServerManager                  *)
(* (vscode/extension/src/rpcServer.ts) tells replayed events from live     *)
(* ones.                                                                   *)
(*                                                                         *)
(* Four threads and three queues:                                          *)
(*                                                                         *)
(*    stdin -> reader ----------------> loopQueue -> main -> stdout -> client *)
(*             worker -> liveQueue -> forwarder -^    |                    *)
(*               |                                    |                    *)
(*               +--------------> internal -----------+                    *)
(*                                                                         *)
(* loopQueue and liveQueue are bounded: a thread that finds its queue full *)
(* blocks.  internal is unbounded and, in live mode, carries only the      *)
(* terminal event of the run.                                              *)
(***************************************************************************)
EXTENDS Naturals, FiniteSets, SequencesExt, Projection

CONSTANTS
  Methods,     \* what the client asks for
  LoopBound,   \* RPC_LOOP_QUEUE_BOUND
  LiveBound,   \* RPC_LIVE_EVENT_QUEUE_BOUND
  BatchMax,    \* RPC_LIVE_EVENT_BATCH_MAX
  MaxLines,    \* bound on the lines the client sends
  MaxErrors,   \* bound on the read errors of stdin
  MaxTurns,    \* bound on the runs the client starts
  MaxEvents,   \* bound on the events of one run
  None         \* no event in hand

ASSUME StdioAssumption ==
  /\ LoopBound \in Nat \ {0}
  /\ LiveBound \in Nat \ {0}
  /\ BatchMax \in Nat \ {0}
  /\ MaxLines \in Nat /\ MaxErrors \in Nat
  /\ MaxTurns \in Nat /\ MaxEvents \in Nat \ {0}

(* "read" stands for agent.loadRunEvents and agent.listRuns, "approve" for *)
(* agent.reject as well, "garbled" for a line that is no request, that     *)
(* names no method or whose parameters do not fit, "notification" for one  *)
(* without an id and for an empty line.  Every agent.sendTurn starts a run *)
(* of its own; cancel and steer name the active run.                       *)
AllMethods == {"initialize", "sendTurn", "approve", "cancel", "steer", "resume",
               "read", "deleteRun", "previewFim", "garbled", "notification"}

ASSUME MethodsAssumption == Methods \subseteq AllMethods

(* A line: its number, the method, the run it names, and replayFromSeq.    *)
Request == [id : 1..MaxLines, method : Methods, run : 0..MaxTurns,
            from : 0..MaxEvents + 1]

Event   == [turn : 1..MaxTurns, seq : 1..MaxEvents, terminal : BOOLEAN]
Message == [type : {"line"}, body : Request]
           \cup [type : {"eof", "readError"}, body : {None}]
           \cup [type : {"event"}, body : Event]

ASSUME NoneAssumption == None \notin Event

VARIABLES
  readerPc, lines, errors,   \* the reader thread, lines and errors passed on
  loopQueue,                 \* loop_tx / loop_rx
  forwarderPc, carried,      \* the forwarder thread, the event in its hand
  liveQueue,                 \* live_event_tx / live_event_rx
  internal,                  \* ActiveRpcRun.events
  workerPc, turn, seq,       \* the worker thread, its run, events so far
  sending,                   \* the event on_event is delivering
  died,                      \* the worker ended without a terminal event
  canceled,                  \* the cancellation token of the run
  mainPc, request,           \* the request loop, the request it handles
  deferred,                  \* pending_messages
  batch,                     \* live events taken for one notification
  active,                    \* handler.active_run is Some
  attached,                  \* handler.live_event_sender is Some
  shutdown,                  \* shutdown_started
  failed,                    \* an error will be returned
  broken,                    \* writes to stdout fail
  initialized,               \* agent.initialize was answered
  stored,                    \* runs whose log is in the store
  refused,                   \* the response will be an error
  replay,                    \* events that follow the response, nextSeq
  client,                    \* the client's replayUpperBounds (0: none),
                             \* and what it has received
  \* history
  emitted,                   \* events the runs have produced: their logs
  written,                   \* live events written to stdout
  answered,                  \* lines dealt with
  accepted                   \* runs whose sendTurn was answered

readerVars    == <<readerPc, lines, errors>>
forwarderVars == <<forwarderPc, carried>>
workerVars    == <<workerPc, turn, seq, sending, died, canceled, emitted>>
serverVars    == <<initialized, stored, refused, replay>>
mainVars      == <<mainPc, request, deferred, batch, active, attached,
                   shutdown, failed, written, answered, accepted, serverVars,
                   client>>
queues        == <<loopQueue, liveQueue, internal>>
vars == <<readerVars, forwarderVars, workerVars, mainVars, queues, broken>>

NoRequest == [id |-> 0, method |-> "none", run |-> 0, from |-> 0]
Shutdown  == [NoRequest EXCEPT !.method = "shutdown"]
NoReplay  == [events |-> <<>>, next |-> 0]

TypeOK ==
  /\ readerPc \in {"reading", "done"}
  /\ lines \in 0..MaxLines /\ errors \in 0..MaxErrors
  /\ loopQueue \in Seq(Message) /\ Len(loopQueue) <= LoopBound
  /\ forwarderPc \in {"running", "done"}
  /\ carried \in Event \cup {None}
  /\ liveQueue \in Seq(Event) /\ Len(liveQueue) <= LiveBound
  /\ internal \in Seq(Event) /\ Len(internal) <= 1
  /\ workerPc \in {"exited", "running", "sending"}
  /\ turn \in 0..MaxTurns /\ seq \in 0..MaxEvents
  /\ sending \in Event \cup {None}
  /\ died \in BOOLEAN /\ canceled \in BOOLEAN
  /\ mainPc \in {"idle", "draining", "joining", "acting", "collecting",
                 "replying", "batching", "writing", "failed", "returned"}
  /\ request \in Request \cup {NoRequest, Shutdown}
  /\ deferred \in Seq(Message) /\ Len(deferred) <= 1
  /\ batch \in Seq(Event) /\ Len(batch) <= BatchMax
  /\ active \in BOOLEAN /\ attached \in BOOLEAN
  /\ shutdown \in BOOLEAN /\ failed \in BOOLEAN /\ broken \in BOOLEAN
  /\ emitted \in Seq(Event) /\ written \in Seq(Event)
  /\ answered \in Seq(1..MaxLines)
  /\ initialized \in BOOLEAN /\ stored \subseteq 1..MaxTurns
  /\ refused \in BOOLEAN
  /\ replay \in [events : Seq(Event), next : 0..MaxEvents + 1]
  /\ client \in [bounds : [1..MaxTurns -> 0..MaxEvents + 1],
                 shown : SUBSET Event, acted : Seq(Event)]
  /\ accepted \subseteq 1..MaxTurns

(* The client has not initialized the server, or has done so already.      *)
Init ==
  /\ initialized \in BOOLEAN
  /\ readerPc = "reading" /\ lines = 0 /\ errors = 0
  /\ loopQueue = <<>> /\ liveQueue = <<>> /\ internal = <<>>
  /\ forwarderPc = "running" /\ carried = None
  /\ workerPc = "exited" /\ turn = 0 /\ seq = 0 /\ sending = None
  /\ died = FALSE /\ canceled = FALSE /\ emitted = <<>>
  /\ mainPc = "idle" /\ request = NoRequest /\ deferred = <<>> /\ batch = <<>>
  /\ active = FALSE /\ attached = TRUE /\ shutdown = FALSE /\ failed = FALSE
  /\ written = <<>> /\ answered = <<>> /\ accepted = {}
  /\ stored = {} /\ refused = FALSE /\ replay = NoReplay
  /\ client = [bounds |-> [run \in 1..MaxTurns |-> 0], shown |-> {},
               acted |-> <<>>]
  /\ broken = FALSE

-----------------------------------------------------------------------------
Room(queue, bound) == Len(queue) < bound

RunEvent(e) == [type |-> "event", body |-> e]

(* The events of a run, from a seq on; its log. *)
EventsFrom(run, from) ==
  [turn : {run}, seq : from..MaxEvents, terminal : BOOLEAN]

LogOf(run) == Only(emitted, EventsFrom(run, 1))

Seen(run) == {e.seq : e \in {f \in client.shown : f.turn = run}}

(* What the client may ask for.  It resumes a run from its beginning or    *)
(* from the first event it has not seen.                                   *)
Lines ==
  LET Line(method, run, from) ==
        [id |-> lines + 1, method |-> method, run |-> run, from |-> from]
  IN  {Line(method, 0, 0) : method \in Methods \ {"resume", "deleteRun"}}
      \cup {Line("deleteRun", run, 0) : run \in
              IF "deleteRun" \in Methods THEN 1..MaxTurns ELSE {}}
      \cup UNION {{Line("resume", run, from) :
                      from \in {1, Cardinality(Seen(run)) + 1}} : run \in
              IF "resume" \in Methods THEN 1..MaxTurns ELSE {}}

(* Mutant: the channel is unbounded. *)
ReadLineUnbounded(line) ==
  /\ readerPc = "reading" /\ lines < MaxLines
  /\ loopQueue' = Append(loopQueue, [type |-> "line", body |-> line])
  /\ lines' = lines + 1
  /\ UNCHANGED <<readerPc, errors, forwarderVars, workerVars, mainVars,
                 liveQueue, internal, broken>>

(* The reader thread: for line in reader.lines().  It goes on after a read *)
(* error and ends with ReaderEof.                                          *)
ReadLine(line) ==
  /\ readerPc = "reading" /\ lines < MaxLines
  /\ Room(loopQueue, LoopBound)
  /\ loopQueue' = Append(loopQueue, [type |-> "line", body |-> line])
  /\ lines' = lines + 1
  /\ UNCHANGED <<readerPc, errors, forwarderVars, workerVars, mainVars,
                 liveQueue, internal, broken>>

ReadFails ==
  /\ readerPc = "reading" /\ errors < MaxErrors
  /\ Room(loopQueue, LoopBound)
  /\ loopQueue' = Append(loopQueue, [type |-> "readError", body |-> None])
  /\ errors' = errors + 1
  /\ UNCHANGED <<readerPc, lines, forwarderVars, workerVars, mainVars,
                 liveQueue, internal, broken>>

ReadEof ==
  /\ readerPc = "reading"
  /\ Room(loopQueue, LoopBound)
  /\ loopQueue' = Append(loopQueue, [type |-> "eof", body |-> None])
  /\ readerPc' = "done"
  /\ UNCHANGED <<lines, errors, forwarderVars, workerVars, mainVars,
                 liveQueue, internal, broken>>

(* The forwarder thread: for event in live_event_rx. *)
Carry ==
  /\ forwarderPc = "running" /\ carried = None
  /\ liveQueue # <<>>
  /\ carried' = Head(liveQueue)
  /\ liveQueue' = Tail(liveQueue)
  /\ UNCHANGED <<readerVars, forwarderPc, workerVars, mainVars, loopQueue,
                 internal, broken>>

(* Mutant: the forwarder writes to stdout itself. *)
ForwardDirect ==
  /\ carried # None
  /\ written' = Append(written, carried)
  /\ carried' = None
  /\ UNCHANGED <<readerVars, forwarderPc, workerVars, queues, mainPc, request,
                 deferred, batch, active, attached, shutdown, failed,
                 answered, accepted, serverVars, client, broken>>

Forward ==
  /\ carried # None
  /\ Room(loopQueue, LoopBound)
  /\ loopQueue' = Append(loopQueue, RunEvent(carried))
  /\ carried' = None
  /\ UNCHANGED <<readerVars, forwarderPc, workerVars, mainVars, liveQueue,
                 internal, broken>>

(* The iteration ends when every sender is dropped: the handler's and the  *)
(* worker's.                                                               *)
ForwarderEnds ==
  /\ forwarderPc = "running" /\ carried = None
  /\ liveQueue = <<>> /\ ~attached /\ workerPc = "exited"
  /\ forwarderPc' = "done"
  /\ UNCHANGED <<readerVars, carried, workerVars, mainVars, queues, broken>>

-----------------------------------------------------------------------------
(* The worker thread.  Of the turn loop only this matters here: it emits   *)
(* events one by one, looks at the token in between, and ends with a       *)
(* terminal event unless the run log or the sink fails.                    *)

(* RpcRunEventSink::on_event, first half: a terminal event goes to the     *)
(* request loop's handler before it goes to the client.                    *)
Emit(terminal) ==
  /\ workerPc = "running" /\ seq < MaxEvents
  /\ canceled \/ seq + 1 = MaxEvents => terminal
  /\ LET e == [turn |-> turn, seq |-> seq + 1, terminal |-> terminal] IN
       /\ sending' = e
       /\ emitted' = Append(emitted, e)
       /\ internal' = IF terminal THEN Append(internal, e) ELSE internal
  /\ seq' = seq + 1
  /\ workerPc' = "sending"
  /\ UNCHANGED <<readerVars, forwarderVars, turn, died, canceled, mainVars,
                 loopQueue, liveQueue, broken>>

(* Mutant: events are dropped when the live queue is full. *)
SendLiveLossy ==
  /\ workerPc = "sending"
  /\ liveQueue' = IF Room(liveQueue, LiveBound)
                  THEN Append(liveQueue, sending) ELSE liveQueue
  /\ sending' = None
  /\ workerPc' = IF sending.terminal THEN "exited" ELSE "running"
  /\ UNCHANGED <<readerVars, forwarderVars, turn, seq, died, canceled,
                 emitted, mainVars, loopQueue, internal, broken>>

(* on_event, second half: live_events.send blocks while the queue is full. *)
SendLive ==
  /\ workerPc = "sending"
  /\ Room(liveQueue, LiveBound)
  /\ liveQueue' = Append(liveQueue, sending)
  /\ sending' = None
  /\ workerPc' = IF sending.terminal THEN "exited" ELSE "running"
  /\ UNCHANGED <<readerVars, forwarderVars, turn, seq, died, canceled,
                 emitted, mainVars, loopQueue, internal, broken>>

(* A RunLog or EventSink error: no terminal event. *)
Die ==
  /\ workerPc = "running"
  /\ workerPc' = "exited"
  /\ died' = TRUE
  /\ UNCHANGED <<readerVars, forwarderVars, turn, seq, sending, canceled,
                 emitted, mainVars, queues, broken>>

-----------------------------------------------------------------------------
(* The request loop. *)

(* The next message: a deferred one first, else the head of the queue. *)
NextMessage(m) ==
  /\ mainPc = "idle"
  /\ \/ /\ deferred # <<>> /\ m = Head(deferred)
        /\ deferred' = Tail(deferred) /\ UNCHANGED loopQueue
     \/ /\ deferred = <<>> /\ loopQueue # <<>> /\ m = Head(loopQueue)
        /\ loopQueue' = Tail(loopQueue) /\ UNCHANGED deferred
  /\ UNCHANGED <<readerVars, forwarderVars, workerVars, liveQueue, internal,
                 active, attached, written, accepted, initialized, stored,
                 replay, client, broken>>

(* handle_line takes up a line.                                            *)
TakeLine(m) ==
  /\ m.type = "line" /\ ~shutdown
  /\ NextMessage(m)
  /\ UNCHANGED <<batch, shutdown, failed>>

Skip(m) ==
  /\ TakeLine(m) /\ m.body.method = "notification"
  /\ answered' = Append(answered, m.body.id)
  /\ UNCHANGED <<mainPc, request, refused>>

(* What handle_line answers itself, with an error.                         *)
Misplaced(line) ==
  \/ line.method = "garbled"
  \/ (line.method = "initialize") = initialized

Refuse(m) ==
  /\ TakeLine(m) /\ m.body.method # "notification" /\ Misplaced(m.body)
  /\ request' = m.body /\ refused' = TRUE
  /\ mainPc' = "replying"
  /\ UNCHANGED answered

(* handle_initialize: another protocol version, an untrusted workspace, a  *)
(* store that does not open.                                               *)
Initialize(m) ==
  /\ TakeLine(m) /\ m.body.method = "initialize" /\ ~Misplaced(m.body)
  /\ request' = m.body /\ refused' \in BOOLEAN
  /\ mainPc' = "replying"
  /\ UNCHANGED answered

(* The other handlers.  An approval that is not refused and a preview go   *)
(* straight to the reply; everything else first drains the run's terminal  *)
(* event.                                                                  *)
BeginRequest(m) ==
  /\ TakeLine(m) /\ ~Misplaced(m.body)
  /\ m.body.method \notin {"notification", "initialize"}
  /\ request' = m.body
  /\ \/ /\ m.body.method \in {"approve", "previewFim"}
        /\ mainPc' = "replying" /\ UNCHANGED refused
     \/ /\ m.body.method = "previewFim"
        /\ mainPc' = "replying" /\ refused' = TRUE
     \/ /\ m.body.method # "previewFim"
        /\ mainPc' = "draining" /\ UNCHANGED refused
  /\ UNCHANGED answered

BeginShutdown(m) ==
  /\ m.type \in {"eof", "readError"} /\ ~shutdown
  /\ NextMessage(m)
  /\ shutdown' = TRUE
  /\ failed' = (m.type = "readError")
  /\ request' = Shutdown
  /\ mainPc' = "draining"
  /\ UNCHANGED <<batch, answered, refused>>

IgnoreInput(m) ==
  /\ m.type \in {"line", "eof", "readError"} /\ shutdown
  /\ NextMessage(m)
  /\ UNCHANGED <<mainPc, request, batch, shutdown, failed, answered, refused>>

BeginBatch(m) ==
  /\ m.type = "event"
  /\ NextMessage(m)
  /\ batch' = <<m.body>>
  /\ mainPc' = "batching"
  /\ UNCHANGED <<request, shutdown, failed, answered, refused>>

batchFrame == <<readerVars, forwarderVars, workerVars, liveQueue, internal,
                request, active, attached, shutdown, failed, written,
                answered, accepted, serverVars, client, broken>>

(* try_recv: another event joins the batch; anything else is deferred and  *)
(* closes it.                                                              *)
ExtendBatch ==
  /\ mainPc = "batching" /\ Len(batch) < BatchMax /\ loopQueue # <<>>
  /\ LET m == Head(loopQueue) IN
       IF m.type = "event"
       THEN batch' = Append(batch, m.body) /\ UNCHANGED <<mainPc, deferred>>
       ELSE /\ deferred' = Append(deferred, m)
            /\ mainPc' = "writing" /\ UNCHANGED batch
  /\ loopQueue' = Tail(loopQueue)
  /\ UNCHANGED batchFrame

CloseBatch ==
  /\ mainPc = "batching"
  /\ Len(batch) = BatchMax \/ loopQueue = <<>>
  /\ mainPc' = "writing"
  /\ UNCHANGED <<batchFrame, batch, deferred, loopQueue>>

(* What the client does with an event: below the upper bound it is marked  *)
(* as a replay; the first one above ends the replay.  A bound of 0 is none.*)
MarkReplayEvent(c, e) ==
  [IF c.bounds[e.turn] > e.seq THEN c
   ELSE [c EXCEPT !.bounds[e.turn] = 0, !.acted = Append(@, e)]
   EXCEPT !.shown = @ \cup {e}]

DispatchEvents(c, events) ==
  LET after[n \in 0..Len(events)] ==
        IF n = 0 THEN c ELSE MarkReplayEvent(after[n - 1], events[n])
  IN  after[Len(events)]

MarkReplayRange(c, run, range) ==
  IF range.events # <<>> THEN [c EXCEPT !.bounds[run] = range.next] ELSE c

(* emit_live_run_log_events: agent.event, or agent.eventBatch. *)
WriteBatch ==
  /\ mainPc = "writing" /\ ~broken
  /\ written' = written \o batch
  /\ client' = DispatchEvents(client, batch)
  /\ batch' = <<>>
  /\ mainPc' = "idle"
  /\ UNCHANGED <<readerVars, forwarderVars, workerVars, queues, request,
                 deferred, active, attached, shutdown, failed, answered,
                 accepted, serverVars, broken>>

handlerFrame == <<readerVars, forwarderVars, loopQueue, liveQueue, request,
                  deferred, batch, shutdown, written, answered, accepted,
                  initialized, client, broken>>

(* Mutant: a closed channel is not noticed. *)
RunIsOverIfTerminal == active /\ internal # <<>>

RunIsOver == active /\ (internal # <<>> \/ workerPc = "exited")

(* drain_ready_active_run_events or collect_active_run_events_until_pause  *)
(* found the terminal event, or the channel closed; finish_active_run      *)
(* takes the run.                                                          *)
DropRun ==
  /\ mainPc \in {"draining", "collecting"} /\ RunIsOver
  /\ active' = FALSE
  /\ internal' = <<>>
  /\ mainPc' = "joining"
  /\ UNCHANGED <<handlerFrame, workerVars, attached, failed, stored, refused,
                 replay>>

DrainNothing ==
  /\ mainPc = "draining" /\ ~RunIsOver
  /\ mainPc' = "acting"
  /\ UNCHANGED <<handlerFrame, workerVars, internal, active, attached, failed,
                 stored, refused, replay>>

(* finish_active_run: join() blocks until the thread is gone, and returns  *)
(* its error: the request is answered with it, a shutdown ends the loop.   *)
Join ==
  /\ mainPc = "joining" /\ workerPc = "exited"
  /\ died' = FALSE
  /\ IF died /\ request = Shutdown
     THEN /\ mainPc' = "failed" /\ failed' = TRUE /\ attached' = FALSE
          /\ UNCHANGED refused
     ELSE /\ mainPc' = IF died THEN "replying" ELSE "acting"
          /\ refused' = died
          /\ UNCHANGED <<failed, attached>>
  /\ UNCHANGED <<handlerFrame, workerPc, turn, seq, sending, canceled,
                 emitted, internal, active, stored, replay>>

(* A handler behind its drain.                                             *)
Handle(method) ==
  /\ mainPc = "acting" /\ request.method = method
  /\ mainPc' = "replying"
  /\ UNCHANGED <<handlerFrame, sending, died, emitted, internal, attached,
                 failed>>

runFrame == <<workerPc, turn, seq, canceled, active, stored, replay>>

(* spawn_active_run: a thread and a token of its own. *)
SpawnRun ==
  turn' = turn + 1 /\ seq' = 0 /\ workerPc' = "running" /\ canceled' = FALSE

StartRun ==
  /\ Handle("sendTurn")
  /\ ~active /\ turn < MaxTurns
  /\ stored' = stored \cup {turn + 1}
  /\ SpawnRun
  /\ active' = TRUE
  /\ UNCHANGED <<refused, replay>>

(* A run is active, or the run cannot be set up. *)
RefuseTurn == Handle("sendTurn") /\ refused' = TRUE /\ UNCHANGED runFrame

(* The approval queue did not know the approval. *)
RefuseApproval == Handle("approve") /\ refused' = TRUE /\ UNCHANGED runFrame

CancelRun ==
  /\ Handle("cancel")
  /\ canceled' = (canceled \/ active)
  /\ refused' = ~active
  /\ UNCHANGED <<workerPc, turn, seq, active, stored, replay>>

(* No run is active, the message is empty, or it is queued. *)
SteerRun ==
  /\ Handle("steer")
  /\ refused' \in BOOLEAN /\ (~active => refused')
  /\ UNCHANGED runFrame

ReadLog == Handle("read") /\ refused' \in BOOLEAN /\ UNCHANGED runFrame

(* Mutant: nextSeq is the number of events. *)
ResumeShort ==
  /\ Handle("resume")
  /\ refused' = (request.run \notin stored)
  /\ replay' = IF refused' THEN NoReplay
               ELSE [events |-> Only(emitted, EventsFrom(request.run, request.from)),
                     next   |-> Len(LogOf(request.run))]
  /\ UNCHANGED <<workerPc, turn, seq, canceled, active, stored>>

(* agent.resume: what the log holds from replayFromSeq on follows the      *)
(* response.  The log is ahead of the live queues.                         *)
Resume ==
  /\ Handle("resume")
  /\ refused' = (request.run \notin stored)
  /\ replay' = IF refused' THEN NoReplay
               ELSE [events |-> Only(emitted, EventsFrom(request.run, request.from)),
                     next   |-> Len(LogOf(request.run)) + 1]
  /\ UNCHANGED <<workerPc, turn, seq, canceled, active, stored>>

(* Mutant: an active run can be deleted. *)
DeleteAnyRun ==
  /\ Handle("deleteRun")
  /\ refused' = (request.run \notin stored)
  /\ stored' = IF refused' THEN stored ELSE stored \ {request.run}
  /\ UNCHANGED <<workerPc, turn, seq, canceled, active, replay>>

(* agent.deleteRun, which does not touch the active run. *)
DeleteRun ==
  /\ Handle("deleteRun")
  /\ refused' = \/ request.run \notin stored
                \/ active /\ request.run = turn
  /\ stored' = IF refused' THEN stored ELSE stored \ {request.run}
  /\ UNCHANGED <<workerPc, turn, seq, canceled, active, replay>>

(* Mutant: the live event sender is kept. *)
ShutdownRunKeepsSender ==
  /\ mainPc = "acting" /\ request = Shutdown
  /\ IF active
     THEN canceled' = TRUE /\ mainPc' = "collecting" /\ UNCHANGED attached
     ELSE mainPc' = "idle" /\ UNCHANGED <<canceled, attached>>
  /\ UNCHANGED <<handlerFrame, workerPc, turn, seq, sending, died, emitted,
                 internal, active, failed, stored, refused, replay>>

(* shutdown: an active run is canceled and its terminal event awaited;     *)
(* then detach_stdio_loop_handler.                                         *)
ShutdownRun ==
  /\ mainPc = "acting" /\ request = Shutdown
  /\ IF active
     THEN canceled' = TRUE /\ mainPc' = "collecting" /\ UNCHANGED attached
     ELSE mainPc' = "idle" /\ attached' = FALSE /\ UNCHANGED canceled
  /\ UNCHANGED <<handlerFrame, workerPc, turn, seq, sending, died, emitted,
                 internal, active, failed, stored, refused, replay>>

(* The response, and behind it the replay. *)
Reply ==
  /\ mainPc = "replying" /\ ~broken
  /\ answered' = Append(answered, request.id)
  /\ accepted' = IF request.method = "sendTurn" /\ ~refused
                 THEN accepted \cup {turn} ELSE accepted
  /\ initialized' = (initialized \/ (request.method = "initialize" /\ ~refused))
  /\ client' = DispatchEvents(MarkReplayRange(client, request.run, replay),
                              replay.events)
  /\ replay' = NoReplay /\ refused' = FALSE /\ request' = NoRequest
  /\ mainPc' = "idle"
  /\ UNCHANGED <<readerVars, forwarderVars, workerVars, queues, deferred,
                 batch, active, attached, shutdown, failed, written, stored,
                 broken>>

(* Mutant: the run is left alone. *)
WriteFailsUncanceled ==
  /\ mainPc \in {"replying", "writing"} /\ broken
  /\ attached' = FALSE
  /\ failed' = TRUE
  /\ mainPc' = "failed"
  /\ UNCHANGED <<handlerFrame, workerVars, internal, active, stored, refused,
                 replay>>

(* The disconnect handle holds the token of the active run.                *)
CancelActive == canceled' = (canceled \/ active)

(* handle_stdio_write_result: cancel_active, detach, return the error.     *)
WriteFails ==
  /\ mainPc \in {"replying", "writing"} /\ broken
  /\ CancelActive
  /\ attached' = FALSE
  /\ failed' = TRUE
  /\ mainPc' = "failed"
  /\ UNCHANGED <<handlerFrame, workerPc, turn, seq, sending, died, emitted,
                 internal, active, stored, refused, replay>>

(* recv() fails once the reader and the forwarder are gone and the queue   *)
(* is empty; after an error the scope still joins both threads.            *)
Return ==
  /\ \/ mainPc = "idle" /\ deferred = <<>> /\ loopQueue = <<>>
     \/ mainPc = "failed"
  /\ readerPc = "done" /\ forwarderPc = "done"
  /\ mainPc' = "returned"
  /\ UNCHANGED <<handlerFrame, workerVars, internal, active, attached, failed,
                 stored, refused, replay>>

(* The client closes its end of stdout. *)
BreakPipe ==
  /\ ~broken
  /\ broken' = TRUE
  /\ UNCHANGED <<readerVars, forwarderVars, workerVars, mainVars, queues>>

Terminated == mainPc = "returned" /\ UNCHANGED vars

-----------------------------------------------------------------------------
Receive ==
  \E m \in ToSet(deferred \o loopQueue) :
    \/ Skip(m) \/ Refuse(m) \/ Initialize(m) \/ BeginRequest(m)
    \/ BeginShutdown(m) \/ IgnoreInput(m) \/ BeginBatch(m)

ReaderStep    == (\E line \in Lines : ReadLine(line)) \/ ReadFails \/ ReadEof
ForwarderStep == Carry \/ Forward \/ ForwarderEnds
WorkerStep    == (\E terminal \in BOOLEAN : Emit(terminal)) \/ SendLive \/ Die
MainStep      ==
  \/ Receive \/ ExtendBatch \/ CloseBatch \/ WriteBatch
  \/ DropRun \/ DrainNothing \/ Join
  \/ StartRun \/ RefuseTurn \/ RefuseApproval \/ CancelRun \/ SteerRun
  \/ ReadLog \/ Resume \/ DeleteRun \/ ShutdownRun
  \/ Reply \/ WriteFails \/ Return

Next == ReaderStep \/ ForwarderStep \/ WorkerStep \/ MainStep \/ BreakPipe
        \/ Terminated

(* Every thread but the reader, which may wait for the client for ever, is *)
(* scheduled; the client reads stdout or closes it.                        *)
Fairness == WF_vars(ForwarderStep) /\ WF_vars(WorkerStep) /\ WF_vars(MainStep)

Spec     == Init /\ [][Next]_vars
FairSpec == Spec /\ Fairness
-----------------------------------------------------------------------------
(* Properties. *)

EventsIn(queue) ==
  LET events == Only(queue, [type : {"event"}, body : Event])
  IN  [i \in DOMAIN events |-> events[i].body]

LinesIn(queue) ==
  LET requests == Only(queue, [type : {"line"}, body : Request])
  IN  [i \in DOMAIN requests |-> requests[i].body.id]

InHand(e) == IF e = None THEN <<>> ELSE <<e>>

RequestInHand == IF request \in {NoRequest, Shutdown} THEN <<>> ELSE <<request.id>>

(* Every event a run emits is on its way to the client or was written, in  *)
(* the order of emission, exactly once: batching, deferring, blocking and  *)
(* the hand-over between two queues lose, repeat or reorder none.  Until   *)
(* the loop shuts down every line is dealt with in the order it was read,  *)
(* one that was deferred behind a batch of events included.                *)
NothingLostOrReordered ==
  /\ emitted = written \o batch \o EventsIn(loopQueue) \o InHand(carried)
              \o liveQueue \o InHand(sending)
  /\ ~shutdown =>
       answered \o RequestInHand \o LinesIn(deferred \o loopQueue)
         = [i \in 1..lines |-> i]

(* The client hears of a run from the response to agent.sendTurn before it *)
(* sees any of its events (docs/rpc-server.md: the response is written     *)
(* before the events).                                                     *)
ReplyBeforeEvents == \A i \in DOMAIN written : written[i].turn \in accepted

(* However often a client resumes a run, while the run goes on and its     *)
(* events are still in the queues: it has received the events of the run   *)
(* without a gap, and of each it has taken at most one copy for a live     *)
(* one, in order; the other copies are marked as replayed                  *)
(* (docs/phase-tasks.md, P5-15d: nextSeq tells the two apart).              *)
ReplayKeepsTheStream ==
  /\ \A run \in 1..MaxTurns : Seen(run) = 1..Cardinality(Seen(run))
  /\ \A i, j \in DOMAIN client.acted :
       i < j /\ client.acted[i].turn = client.acted[j].turn =>
         client.acted[i].seq < client.acted[j].seq

(* The log of a run is there as long as its worker writes to it: a request *)
(* to delete the run is refused, or finds the worker gone.                 *)
LogOutlivesWorker == workerPc # "exited" => turn \in stored

(* When the loop gives up, no run goes on without its client: it has ended *)
(* or was canceled.                                                        *)
NoOrphanRun ==
  mainPc \in {"failed", "returned"} => workerPc = "exited" \/ canceled

(* Once stdin is at its end the loop returns, with or without an error, as *)
(* long as the queues have room for what the run emits.                    *)
EofEndsLoop == readerPc = "done" ~> mainPc = "returned"

(* A request that was taken up is answered, or the loop has failed. *)
RequestsAreHandled ==
  mainPc \in {"draining", "joining", "acting"} ~>
    mainPc \in {"idle", "failed", "returned"}

-----------------------------------------------------------------------------
(* A claim of the documentation that the code does not keep. *)

(* docs/json-rpc-protocol.md: when the loop reads EOF, shutdown cancels    *)
(* the active run or waits for its terminal event.  It does not get there  *)
(* when the worker is blocked on a full queue: nobody receives while the   *)
(* request loop waits for the terminal event, or joins the worker.         *)
EofSettlesRun == shutdown ~> workerPc = "exited" \/ broken
=============================================================================
