-------------------------- MODULE StdioLoopProofs --------------------------
(***************************************************************************)
(* Proofs about the request loop: the safety invariants of StdioLoop hold  *)
(* for every number of lines, runs and events and for queues and batches   *)
(* of every size.                                                          *)
(*                                                                         *)
(* The invariants are not inductive.  IInv adds what the request loop has  *)
(* in hand at each of its places (RequestInv), who knows of the worker     *)
(* (RunInv), that the logs have no gap (EmittedInv), which runs may have   *)
(* events on their way (AcceptInv), and what a client and the replays it   *)
(* asked for know of each other (ClientInv).                               *)
(***************************************************************************)
EXTENDS StdioLoop, SequenceFacts, FiniteSetTheorems

(* What the request loop has in hand, at every place of it.                *)
RequestInv ==
  /\ mainPc \in {"draining", "joining", "acting", "replying"} =>
       request # NoRequest
  /\ mainPc = "replying" => request \in Request
  /\ mainPc = "collecting" => shutdown
  /\ mainPc \in {"idle", "batching", "writing"} /\ ~shutdown => request = NoRequest
  /\ shutdown <=> request = Shutdown
  /\ refused => mainPc \in {"replying", "failed", "returned"}
  /\ replay # NoReplay =>
       mainPc \in {"replying", "failed", "returned"} /\ request.method = "resume"
  /\ batch # <<>> => mainPc \in {"batching", "writing", "failed", "returned"}
  /\ \A i \in DOMAIN deferred : deferred[i].type # "event"
  /\ mainPc = "batching" => deferred = <<>>

(* Who may be running, and who knows of it.                                *)
RunInv ==
  /\ workerPc = "sending" <=> sending # None
  /\ workerPc # "exited" => active \/ mainPc = "joining"
  /\ workerPc # "exited" => turn \in stored
  /\ internal # <<>> => active /\ workerPc # "running"
  /\ mainPc = "joining" => workerPc # "running"  /\ ~active
  /\ workerPc = "sending" => (sending.terminal <=> (internal # <<>> \/ mainPc = "joining"))
  /\ ~attached => \/ mainPc \in {"failed", "returned"}
                  \/ shutdown /\ mainPc \in {"idle", "batching", "writing"}
  /\ forwarderPc = "done" => ~attached /\ workerPc = "exited"
  /\ mainPc \in {"failed", "returned"} => workerPc = "exited" \/ canceled
  /\ mainPc = "replying" /\ request.method = "sendTurn" /\ ~refused => turn # 0

(* The two halves of NothingLostOrReordered.                               *)
EventStream ==
  emitted = written \o batch \o EventsIn(loopQueue) \o InHand(carried)
              \o liveQueue \o InHand(sending)

LineStream ==
  ~shutdown => answered \o RequestInHand \o LinesIn(deferred \o loopQueue)
                 = [i \in 1..lines |-> i]

(* Which runs may have events on their way to the client.                  *)
AcceptInv ==
  /\ \A r \in 1..turn :
       \/ r \in accepted
       \/ r = turn /\ mainPc = "replying" /\ request.method = "sendTurn" /\ ~refused
       \/ mainPc \in {"failed", "returned"}
  /\ ReplyBeforeEvents

(* A log that is complete, and what is left of it from a seq on.           *)
Complete(q) ==
  \A run \in 1..MaxTurns, from \in 1..(MaxEvents + 1) :
    LET log  == Only(q, EventsFrom(run, 1))
        part == Only(q, EventsFrom(run, from))
    IN  /\ Len(log) <= MaxEvents
        /\ from <= Len(log) => Len(part) = Len(log) - from + 1
        /\ from > Len(log) => Len(part) = 0
        /\ \A k \in DOMAIN part : part[k].seq = from + k - 1

(* The logs, and the place of the worker in the last of them.              *)
EmittedInv ==
  /\ \A i \in DOMAIN emitted : emitted[i].turn <= turn
  /\ turn > 0 => Len(LogOf(turn)) = seq
  /\ turn = 0 => seq = 0
  /\ \A run \in 1..MaxTurns : run > turn => LogOf(run) = <<>>
  /\ Complete(emitted)

(* The seqs of a run that a client c has seen.                             *)
SeenBy(c, run) == {e.seq : e \in {f \in c.shown : f.turn = run}}

(* How a client c stands that was sent the live events p: it has seen them *)
(* and maybe, from a replay, some that follow them; those it took for live *)
(* are among them, and in order.                                           *)
FollowsRun(c, p, run) ==
  /\ \E k \in 0..MaxEvents :
       Len(Only(p, EventsFrom(run, 1))) <= k /\ SeenBy(c, run) = 1..k
  /\ \A i \in DOMAIN c.acted :
       c.acted[i].turn = run =>
         c.acted[i].seq <= Len(Only(p, EventsFrom(run, 1)))

InOrder(c) ==
  \A i, j \in DOMAIN c.acted :
    i < j /\ c.acted[i].turn = c.acted[j].turn => c.acted[i].seq < c.acted[j].seq

Follows(c, p) ==
  /\ \A run \in 1..MaxTurns : FollowsRun(c, p, run)
  /\ InOrder(c)

(* A replay is asked for from the beginning of the run, or from an event   *)
(* that follows one that was seen.                                         *)
Reachable(c, line) ==
  line.method = "resume" =>
    /\ line.run \in 1..MaxTurns
    /\ line.from > 0 /\ line.from - 1 \in SeenBy(c, line.run) \cup {0}

ReachableIn(c, queue) ==
  \A i \in DOMAIN queue : queue[i].type = "line" => Reachable(c, queue[i].body)

(* The replay that is about to follow a response.                          *)
ReplayInv ==
  \A k \in DOMAIN replay.events :
    /\ replay.events[k].turn = request.run
    /\ replay.events[k].seq = request.from + k - 1
    /\ replay.events[k].seq < replay.next

(* The client, and what is on its way to and from it.                      *)
ClientInv ==
  /\ Follows(client, written)
  /\ Reachable(client, request)
  /\ ReachableIn(client, deferred) /\ ReachableIn(client, loopQueue)
  /\ ReplayInv

-----------------------------------------------------------------------------
(* Requests, messages and events.                                          *)

(* A request is none of the two values that stand for something else.      *)
LEMMA RequestFacts ==
  /\ NoRequest # Shutdown
  /\ NoRequest.method = "none" /\ Shutdown.method = "shutdown"
  /\ \A r \in Request : r # NoRequest /\ r # Shutdown
<1>1. NoRequest.method = "none" /\ Shutdown.method = "shutdown"
  BY DEF NoRequest, Shutdown
<1>2. NoRequest.id = 0 /\ Shutdown.id = 0
  BY DEF NoRequest, Shutdown
<1>3. \A r \in Request : r.id \in 1..MaxLines
  BY DEF Request
<1>4. \A r \in Request : r.id # 0
  BY <1>3, StdioAssumption
<1> QED BY <1>1, <1>2, <1>4

(* What a message carries.                                                 *)
LEMMA MessageFacts ==
  ASSUME NEW m \in Message
  PROVE  /\ m.type \in {"line", "eof", "readError", "event"}
         /\ m.type = "line" => m.body \in Request
         /\ m.type = "event" => m.body \in Event
BY DEF Message

(* What is passed to the request loop is a message.                        *)
LEMMA MessageIntro ==
  /\ \A r \in Request : [type |-> "line", body |-> r] \in Message
  /\ [type |-> "eof", body |-> None] \in Message
  /\ [type |-> "readError", body |-> None] \in Message
  /\ \A e \in Event : RunEvent(e) \in Message
BY DEF Message, RunEvent

(* The parts of an event.                                                  *)
LEMMA EventFacts ==
  ASSUME NEW e \in Event
  PROVE  /\ e.turn \in 1..MaxTurns /\ e.seq \in 1..MaxEvents
         /\ e.terminal \in BOOLEAN /\ e # None
BY NoneAssumption DEF Event

(* The seqs the client has seen are finitely many.                         *)
LEMMA SeenCard ==
  ASSUME TypeOK, NEW run
  PROVE  /\ Seen(run) \subseteq 1..MaxEvents
         /\ Cardinality(Seen(run)) \in 0..MaxEvents
<1>1. client.shown \subseteq Event
  BY DEF TypeOK
<1>2. \A e \in client.shown : e.seq \in 1..MaxEvents
  BY <1>1, EventFacts
<1>3. Seen(run) \subseteq 1..MaxEvents
  BY <1>2 DEF Seen
<1>4. MaxEvents \in Nat
  BY StdioAssumption
<1>5. IsFiniteSet(1..MaxEvents) /\ Cardinality(1..MaxEvents) = MaxEvents
  BY <1>4, FS_Interval
<1>6. Cardinality(Seen(run)) <= Cardinality(1..MaxEvents) /\ IsFiniteSet(Seen(run))
  BY <1>3, <1>5, FS_Subset
<1>7. Cardinality(Seen(run)) \in Nat
  BY <1>6, FS_CardinalityType
<1> QED BY <1>3, <1>4, <1>5, <1>6, <1>7

(* Every line the client may send is a request.                            *)
LEMMA LineIsRequest ==
  ASSUME TypeOK, lines < MaxLines, NEW line \in Lines
  PROVE  line \in Request
<1>1. lines + 1 \in 1..MaxLines
  BY StdioAssumption DEF TypeOK
<1>2. \A run : Cardinality(Seen(run)) + 1 \in 0..(MaxEvents + 1)
  BY SeenCard, StdioAssumption
<1>3. 0 \in 0..MaxTurns /\ 1..MaxTurns \subseteq 0..MaxTurns
      /\ 0 \in 0..(MaxEvents + 1) /\ 1 \in 0..(MaxEvents + 1)
  BY StdioAssumption
<1> DEFINE L(method, run, from) ==
             [id |-> lines + 1, method |-> method, run |-> run, from |-> from]
<1>4. \A method \in Methods, run \in 0..MaxTurns, from \in 0..(MaxEvents + 1) :
        L(method, run, from) \in Request
  BY <1>1 DEF Request
<1>5. \/ \E method \in Methods \ {"resume", "deleteRun"} : line = L(method, 0, 0)
      \/ /\ "deleteRun" \in Methods
         /\ \E run \in 1..MaxTurns : line = L("deleteRun", run, 0)
      \/ /\ "resume" \in Methods
         /\ \E run \in 1..MaxTurns : \E from \in {1, Cardinality(Seen(run)) + 1} :
               line = L("resume", run, from)
  BY ZenonT(30) DEF Lines
<1> HIDE DEF L
<1>6. CASE \E method \in Methods \ {"resume", "deleteRun"} : line = L(method, 0, 0)
  BY <1>3, <1>4, <1>6
<1>7. CASE /\ "deleteRun" \in Methods
           /\ \E run \in 1..MaxTurns : line = L("deleteRun", run, 0)
  BY <1>3, <1>4, <1>7
<1>8. CASE /\ "resume" \in Methods
           /\ \E run \in 1..MaxTurns : \E from \in {1, Cardinality(Seen(run)) + 1} :
                 line = L("resume", run, from)
  <2>1. PICK run \in 1..MaxTurns : \E from \in {1, Cardinality(Seen(run)) + 1} :
               line = L("resume", run, from)
    BY <1>8
  <2>3. PICK from \in {1, Cardinality(Seen(run)) + 1} : line = L("resume", run, from)
    BY <2>1
  <2>2. from \in 0..(MaxEvents + 1)
    BY <1>2, <1>3
  <2> QED BY <1>3, <1>4, <1>8, <2>3, <2>2
<1> QED BY <1>5, <1>6, <1>7, <1>8
-----------------------------------------------------------------------------
(* What the client does with a sequence of events.                         *)

Client == [bounds : [1..MaxTurns -> 0..MaxEvents + 1],
           shown : SUBSET Event, acted : Seq(Event)]

(* One event: it is shown, and acted upon unless it is below the bound.    *)
LEMMA MarkFacts ==
  ASSUME NEW c \in Client, NEW e \in Event
  PROVE  LET d == MarkReplayEvent(c, e)
         IN  /\ d \in Client
             /\ d.shown = c.shown \cup {e}
             /\ c.bounds[e.turn] > e.seq =>
                  d.bounds = c.bounds /\ d.acted = c.acted
             /\ ~(c.bounds[e.turn] > e.seq) => d.acted = Append(c.acted, e)
<1> DEFINE d == MarkReplayEvent(c, e)
<1>1. CASE c.bounds[e.turn] > e.seq
  <2>1. d = [c EXCEPT !.shown = @ \cup {e}]
    BY <1>1 DEF MarkReplayEvent
  <2> QED BY <1>1, <2>1 DEF Client
<1>2. CASE ~(c.bounds[e.turn] > e.seq)
  <2>1. d = [[c EXCEPT !.bounds[e.turn] = 0, !.acted = Append(@, e)]
              EXCEPT !.shown = @ \cup {e}]
    BY <1>2 DEF MarkReplayEvent
  <2>2. d = [bounds |-> [c.bounds EXCEPT ![e.turn] = 0],
             shown |-> c.shown \cup {e}, acted |-> Append(c.acted, e)]
    BY <2>1 DEF Client
  <2>3. 0 \in 0..(MaxEvents + 1)
    BY StdioAssumption
  <2>4. [c.bounds EXCEPT ![e.turn] = 0] \in [1..MaxTurns -> 0..(MaxEvents + 1)]
    BY <2>3, EventFacts DEF Client
  <2>5. Append(c.acted, e) \in Seq(Event) /\ c.shown \cup {e} \in SUBSET Event
    BY DEF Client
  <2> QED BY <1>2, <2>2, <2>4, <2>5 DEF Client
<1> QED BY <1>1, <1>2

(* The recursion of DispatchEvents, for the first n events.                *)
Dispatched(after, c, events, n) ==
  after = [i \in 0..n |-> IF i = 0 THEN c
                          ELSE MarkReplayEvent(after[i - 1], events[i])]

(* It defines a function.                                                  *)
LEMMA DispatchedExists ==
  ASSUME NEW c, NEW events
  PROVE  \A n \in Nat : \E after : Dispatched(after, c, events, n)
<1> DEFINE T == {n \in Nat : \E after : Dispatched(after, c, events, n)}
<1>1. 0 \in T
  <2> DEFINE k == [i \in 0..0 |-> c]
  <2>1. Dispatched(k, c, events, 0)
    BY DEF Dispatched
  <2> QED BY <2>1
<1>2. ASSUME NEW n \in T PROVE n + 1 \in T
  <2>1. PICK k : Dispatched(k, c, events, n)
    OBVIOUS
  <2> DEFINE last == MarkReplayEvent(k[n], events[n + 1])
             l    == [i \in 0..(n + 1) |-> IF i = n + 1 THEN last ELSE k[i]]
  <2>2. Dispatched(l, c, events, n + 1)
    <3> SUFFICES ASSUME NEW i \in 0..(n + 1)
                 PROVE  l[i] = IF i = 0 THEN c
                               ELSE MarkReplayEvent(l[i - 1], events[i])
      BY DEF Dispatched
    <3>1. CASE i = n + 1
      <4>1. n \in 0..(n + 1) /\ n # n + 1
        OBVIOUS
      <4>2. l[n] = k[n]
        BY <4>1
      <4>3. l[i] = last
        BY <3>1
      <4>4. i # 0 /\ i - 1 = n
        BY <3>1
      <4> QED BY <3>1, <4>2, <4>3, <4>4
    <3>2. CASE i \in 0..n
      <4>1. l[i] = k[i]
        BY <3>2
      <4>2. i # 0 => l[i - 1] = k[i - 1]
        BY <3>2
      <4>3. k[i] = IF i = 0 THEN c ELSE MarkReplayEvent(k[i - 1], events[i])
        BY <2>1, <3>2 DEF Dispatched
      <4> QED BY <4>1, <4>2, <4>3
    <3> QED BY <3>1, <3>2
  <2> HIDE DEF l
  <2> QED BY <2>2
<1> HIDE DEF T
<1>3. T = Nat
  BY <1>1, <1>2, Induction DEF T
<1> QED BY <1>3 DEF T

(* Induction over the events that are dispatched: T[n] is what is known of *)
(* the client after n of them.                                             *)
LEMMA DispatchInduction ==
  ASSUME NEW c, NEW events \in Seq(Event), NEW T, c \in T[0],
         \A n \in 0..(Len(events) - 1) : \A d \in T[n] :
            MarkReplayEvent(d, events[n + 1]) \in T[n + 1]
  PROVE  DispatchEvents(c, events) \in T[Len(events)]
<1>1. Len(events) \in Nat
  OBVIOUS
<1>2. \E after : Dispatched(after, c, events, Len(events))
  BY <1>1, DispatchedExists
<1>3. PICK k : /\ Dispatched(k, c, events, Len(events))
               /\ DispatchEvents(c, events) = k[Len(events)]
  BY <1>2, Zenon DEF DispatchEvents, Dispatched
<1> DEFINE N == {n \in Nat : n <= Len(events) => k[n] \in T[n]}
<1>4. 0 \in N
  BY <1>1, <1>3 DEF Dispatched
<1>5. ASSUME NEW n \in N PROVE n + 1 \in N
  <2> SUFFICES ASSUME n + 1 <= Len(events) PROVE k[n + 1] \in T[n + 1]
    OBVIOUS
  <2>1. n \in 0..(Len(events) - 1) /\ k[n] \in T[n]
    BY <1>1
  <2>2. n + 1 \in 0..Len(events) /\ n + 1 # 0 /\ (n + 1) - 1 = n
    BY <1>1
  <2>3. k[n + 1] = MarkReplayEvent(k[(n + 1) - 1], events[n + 1])
    BY <1>3, <2>2 DEF Dispatched
  <2> QED BY <2>1, <2>2, <2>3
<1> HIDE DEF N
<1>6. N = Nat
  BY <1>4, <1>5, Induction DEF N
<1> QED BY <1>1, <1>3, <1>6 DEF N

(* The client stays a client.                                              *)
LEMMA DispatchType ==
  ASSUME NEW c \in Client, NEW events \in Seq(Event)
  PROVE  DispatchEvents(c, events) \in Client
<1> DEFINE T == [n \in Nat |-> Client]
<1>1. \A n \in Nat : T[n] = Client
  OBVIOUS
<1> HIDE DEF T
<1>2. \A n \in 0..(Len(events) - 1) : \A d \in T[n] :
        MarkReplayEvent(d, events[n + 1]) \in T[n + 1]
  <2> TAKE n \in 0..(Len(events) - 1)
  <2>1. n \in Nat /\ n + 1 \in Nat /\ events[n + 1] \in Event
    OBVIOUS
  <2>2. \A d \in Client : MarkReplayEvent(d, events[n + 1]) \in Client
    BY <2>1, MarkFacts
  <2> QED BY <1>1, <2>1, <2>2
<1>3. c \in T[0]
  BY <1>1
<1>4. DispatchEvents(c, events) \in T[Len(events)]
  BY <1>2, <1>3, DispatchInduction
<1> QED BY <1>1, <1>4

-----------------------------------------------------------------------------
(* Queues.                                                                 *)

(* A message that finds room in the loop queue.                            *)
LEMMA Enqueued ==
  ASSUME TypeOK, Room(loopQueue, LoopBound), NEW m \in Message
  PROVE  /\ Append(loopQueue, m) \in Seq(Message)
         /\ Len(Append(loopQueue, m)) <= LoopBound
BY StdioAssumption DEF TypeOK, Room

(* The request loop takes a message.                                       *)
LEMMA Taken ==
  ASSUME TypeOK, NEW m, NextMessage(m)
  PROVE  /\ m \in Message
         /\ loopQueue' \in Seq(Message) /\ Len(loopQueue') <= LoopBound
         /\ deferred' \in Seq(Message) /\ Len(deferred') <= 1
<1>1. loopQueue \in Seq(Message) /\ deferred \in Seq(Message)
      /\ Len(loopQueue) <= LoopBound /\ Len(deferred) <= 1
      /\ Len(loopQueue) \in Nat /\ Len(deferred) \in Nat /\ LoopBound \in Nat
  BY StdioAssumption DEF TypeOK
<1>2. \A q \in Seq(Message) : q # <<>> =>
        Head(q) \in Message /\ Tail(q) \in Seq(Message) /\ Len(Tail(q)) = Len(q) - 1
  OBVIOUS
<1>3. CASE deferred # <<>> /\ m = Head(deferred) /\ deferred' = Tail(deferred)
           /\ loopQueue' = loopQueue
  BY <1>1, <1>2, <1>3
<1>4. CASE loopQueue # <<>> /\ m = Head(loopQueue) /\ loopQueue' = Tail(loopQueue)
           /\ deferred' = deferred
  BY <1>1, <1>2, <1>4
<1> QED BY <1>3, <1>4 DEF NextMessage

(* What the worker emits is an event.                                      *)
LEMMA Emitted ==
  ASSUME TypeOK, RunInv, NEW terminal \in BOOLEAN, Emit(terminal)
  PROVE  /\ sending' \in Event /\ sending'.terminal = terminal
         /\ sending'.turn = turn /\ sending'.seq = seq + 1
         /\ turn \in 1..MaxTurns /\ seq + 1 \in 1..MaxEvents
<1>1. turn \in 1..MaxTurns
  BY DEF TypeOK, RunInv, Emit
<1>2. seq + 1 \in 1..MaxEvents
  BY StdioAssumption DEF TypeOK, Emit
<1>3. sending' = [turn |-> turn, seq |-> seq + 1, terminal |-> terminal]
  BY DEF Emit
<1> QED BY <1>1, <1>2, <1>3 DEF Event

(* The two halves of the type invariant: the threads and their queues, the *)
(* request loop and its handler.                                           *)
ThreadTypes ==
  /\ readerPc \in {"reading", "done"}
  /\ lines \in 0..MaxLines /\ errors \in 0..MaxErrors
  /\ loopQueue \in Seq(Message) /\ Len(loopQueue) <= LoopBound
  /\ forwarderPc \in {"running", "done"}
  /\ carried \in Event \cup {None}
  /\ liveQueue \in Seq(Event) /\ Len(liveQueue) <= LiveBound
  /\ internal \in Seq(Event) /\ Len(internal) <= 1
  /\ workerPc \in {"exited", "running", "sending"}
  /\ turn \in 0..MaxTurns /\ seq \in 0..MaxEvents
  /\ sending \in Event \cup {None}

LoopTypes ==
  /\ died \in BOOLEAN /\ canceled \in BOOLEAN
  /\ mainPc \in {"idle", "draining", "joining", "acting", "collecting",
                 "replying", "batching", "writing", "failed", "returned"}
  /\ request \in Request \cup {NoRequest, Shutdown}
  /\ deferred \in Seq(Message) /\ Len(deferred) <= 1
  /\ batch \in Seq(Event) /\ Len(batch) <= BatchMax
  /\ active \in BOOLEAN /\ attached \in BOOLEAN
  /\ shutdown \in BOOLEAN /\ failed \in BOOLEAN /\ broken \in BOOLEAN
  /\ emitted \in Seq(Event) /\ written \in Seq(Event)
  /\ answered \in Seq(1..MaxLines)
  /\ initialized \in BOOLEAN /\ stored \subseteq 1..MaxTurns
  /\ refused \in BOOLEAN
  /\ replay \in [events : Seq(Event), next : 0..MaxEvents + 1]
  /\ client \in [bounds : [1..MaxTurns -> 0..MaxEvents + 1],
                 shown : SUBSET Event, acted : Seq(Event)]
  /\ accepted \subseteq 1..MaxTurns

(* The part of a log that is asked for is a sequence of events.            *)
LEMMA OnlyEvents ==
  ASSUME NEW q \in Seq(Event), NEW S PROVE Only(q, S) \in Seq(Event)
BY OnlyIn

(* The log of a run is bounded.                                            *)
LEMMA LogLength ==
  ASSUME TypeOK, EmittedInv, NEW run \in 1..MaxTurns
  PROVE  LogOf(run) \in Seq(Event) /\ Len(LogOf(run)) \in 0..MaxEvents
<1>1. LogOf(run) \in Seq(Event)
  BY OnlyEvents DEF LogOf, TypeOK
<1>2. 1 \in 1..(MaxEvents + 1)
  BY StdioAssumption
<1>3. Len(LogOf(run)) <= MaxEvents
  BY <1>2 DEF EmittedInv, Complete, LogOf
<1> QED BY <1>1, <1>3, StdioAssumption

(* The client notes the bound of a replay.                                 *)
LEMMA RangeType ==
  ASSUME TypeOK, RequestInv, ClientInv
  PROVE  MarkReplayRange(client, request.run, replay) \in Client
<1>1. CASE replay.events = <<>>
  BY <1>1 DEF MarkReplayRange, Client, TypeOK
<1>2. CASE replay.events # <<>>
  <2>1. replay # NoReplay
    BY <1>2 DEF NoReplay
  <2>2. request.run \in 1..MaxTurns
    BY <2>1 DEF RequestInv, ClientInv, Reachable
  <2>3. replay.next \in 0..(MaxEvents + 1)
    BY DEF TypeOK
  <2>4. client \in Client
    BY DEF TypeOK, Client
  <2>5. MarkReplayRange(client, request.run, replay)
          = [client EXCEPT !.bounds[request.run] = replay.next]
    BY <1>2 DEF MarkReplayRange
  <2> QED BY <2>2, <2>3, <2>4, <2>5 DEF Client
<1> QED BY <1>1, <1>2

(* No replay is one.                                                       *)
LEMMA NoReplayType == NoReplay \in [events : Seq(Event), next : 0..(MaxEvents + 1)]
<1>1. 0 \in 0..(MaxEvents + 1)
  BY StdioAssumption
<1> QED BY <1>1 DEF NoReplay

(* A sendTurn that is answered with success has started a run.             *)
LEMMA AcceptsARun ==
  ASSUME TypeOK, RunInv, mainPc = "replying", request.method = "sendTurn", ~refused
  PROVE  turn \in 1..MaxTurns
BY StdioAssumption DEF TypeOK, RunInv

(* Which events of a log are asked for.                                    *)
LEMMA EventsFromFacts ==
  ASSUME NEW e \in Event, NEW run, NEW from \in Nat
  PROVE  e \in EventsFrom(run, from) <=> e.turn = run /\ from <= e.seq
<1>1. e = [turn |-> e.turn, seq |-> e.seq, terminal |-> e.terminal]
  BY DEF Event
<1>2. e.seq \in 1..MaxEvents /\ e.terminal \in BOOLEAN
  BY EventFacts
<1>3. e.seq \in from..MaxEvents <=> from <= e.seq
  BY <1>2, StdioAssumption
<1>4. e \in EventsFrom(run, from) => e.turn = run /\ e.seq \in from..MaxEvents
  BY DEF EventsFrom
<1>5. e.turn = run /\ e.seq \in from..MaxEvents => e \in EventsFrom(run, from)
  BY <1>1, <1>2 DEF EventsFrom
<1> QED BY <1>3, <1>4, <1>5

(* A log with one more event.                                              *)
LEMMA LogAppend ==
  ASSUME NEW q \in Seq(Event), NEW e \in Event, NEW run, NEW from \in Nat
  PROVE  LET S == EventsFrom(run, from)
         IN  /\ e.turn = run /\ from <= e.seq =>
                  Only(Append(q, e), S) = Append(Only(q, S), e)
             /\ ~(e.turn = run /\ from <= e.seq) =>
                  Only(Append(q, e), S) = Only(q, S)
<1> DEFINE S == EventsFrom(run, from)
<1>1. e \in S <=> e.turn = run /\ from <= e.seq
  BY EventsFromFacts
<1> HIDE DEF S
<1>2. Only(Append(q, e), S) = IF e \in S THEN Append(Only(q, S), e) ELSE Only(q, S)
  BY OnlyAppend
<1>3. (e \in S) => Only(Append(q, e), S) = Append(Only(q, S), e)
  BY <1>2
<1>4. (e \notin S) => Only(Append(q, e), S) = Only(q, S)
  BY <1>2
<1> QED BY <1>1, <1>3, <1>4 DEF S

(* The next event of its run keeps a log complete.                         *)
LEMMA CompleteAppend ==
  ASSUME NEW q \in Seq(Event), Complete(q), NEW e \in Event,
         e.seq = Len(Only(q, EventsFrom(e.turn, 1))) + 1
  PROVE  Complete(Append(q, e))
<1> SUFFICES ASSUME NEW run \in 1..MaxTurns, NEW from \in 1..(MaxEvents + 1)
    PROVE  LET log  == Only(Append(q, e), EventsFrom(run, 1))
               part == Only(Append(q, e), EventsFrom(run, from))
           IN  /\ Len(log) <= MaxEvents
               /\ from <= Len(log) => Len(part) = Len(log) - from + 1
               /\ from > Len(log) => Len(part) = 0
               /\ \A k \in DOMAIN part : part[k].seq = from + k - 1
  BY DEF Complete
<1> DEFINE log  == Only(q, EventsFrom(run, 1))
           part == Only(q, EventsFrom(run, from))
           log2  == Only(Append(q, e), EventsFrom(run, 1))
           part2 == Only(Append(q, e), EventsFrom(run, from))
<1>0. MaxEvents \in Nat /\ from \in Nat /\ 1 \in Nat /\ from >= 1
  BY StdioAssumption
<1>1. log \in Seq(Event) /\ part \in Seq(Event)
  BY OnlyEvents
<1>2. /\ Len(log) <= MaxEvents
      /\ from <= Len(log) => Len(part) = Len(log) - from + 1
      /\ from > Len(log) => Len(part) = 0
      /\ \A k \in DOMAIN part : part[k].seq = from + k - 1
  BY DEF Complete
<1>3. e.seq \in 1..MaxEvents
  BY EventFacts
<1>4. /\ e.turn = run /\ 1 <= e.seq => log2 = Append(log, e)
      /\ ~(e.turn = run /\ 1 <= e.seq) => log2 = log
  BY <1>0, LogAppend
<1>5. /\ e.turn = run /\ from <= e.seq => part2 = Append(part, e)
      /\ ~(e.turn = run /\ from <= e.seq) => part2 = part
  BY <1>0, LogAppend
<1>6. e.turn = run => e.seq = Len(log) + 1
  OBVIOUS
<1> HIDE DEF log, part, log2, part2
<1>7. CASE e.turn # run
  BY <1>2, <1>4, <1>5, <1>7 DEF log2, part2
<1>8. CASE e.turn = run /\ e.seq < from
  <2>1. log2 = Append(log, e) /\ part2 = part
    BY <1>0, <1>3, <1>4, <1>5, <1>8
  <2>2. Len(log2) = Len(log) + 1 /\ Len(log) \in Nat
    BY <1>1, <2>1
  <2> QED BY <1>0, <1>2, <1>3, <1>6, <1>8, <2>1, <2>2 DEF log2, part2
<1>9. CASE e.turn = run /\ from <= e.seq
  <2>1. log2 = Append(log, e) /\ part2 = Append(part, e)
    BY <1>0, <1>3, <1>4, <1>5, <1>9
  <2>2. Len(log2) = Len(log) + 1 /\ Len(part2) = Len(part) + 1
        /\ Len(log) \in Nat /\ Len(part) \in Nat
    BY <1>1, <2>1
  <2>3. Len(part2) = Len(log2) - from + 1
    BY <1>0, <1>2, <1>6, <1>9, <2>2
  <2>4. ASSUME NEW k \in DOMAIN part2 PROVE part2[k].seq = from + k - 1
    <3>1. CASE k \in DOMAIN part
      BY <1>1, <1>2, <2>1, <3>1
    <3>2. CASE k = Len(part) + 1
      <4>1. part2[k] = e
        BY <1>1, <2>1, <3>2
      <4> QED BY <1>0, <1>6, <1>9, <2>2, <2>3, <3>2, <4>1
    <3>3. part2 \in Seq(Event)
      BY <1>1, <2>1
    <3>4. k \in 1..(Len(part) + 1)
      BY <2>2, <3>3
    <3>5. DOMAIN part = 1..Len(part)
      BY <1>1
    <3> QED BY <2>2, <3>1, <3>2, <3>4, <3>5
  <2> QED BY SMTT(30), <1>0, <1>2, <1>3, <1>6, <1>9, <2>2, <2>3, <2>4 DEF log2, part2
<1> QED BY <1>3, <1>7, <1>8, <1>9, <1>0

-----------------------------------------------------------------------------
(* The request loop, the worker and the log.                               *)

(* The request loop keeps track of what it does.                           *)
LEMMA RequestStep == TypeOK /\ RequestInv /\ [Next]_vars => RequestInv'
<1> SUFFICES ASSUME TypeOK, RequestInv, [Next]_vars PROVE RequestInv'
  OBVIOUS
<1> USE DEF readerVars, forwarderVars, workerVars, mainVars, serverVars, queues
<1>1. ASSUME NEW line \in Lines, ReadLine(line) PROVE RequestInv'
  BY <1>1, RequestFacts DEF ReadLine, RequestInv, TypeOK
<1>2. ASSUME ReadFails PROVE RequestInv'
  BY <1>2, RequestFacts DEF ReadFails, RequestInv, TypeOK
<1>3. ASSUME ReadEof PROVE RequestInv'
  BY <1>3, RequestFacts DEF ReadEof, RequestInv, TypeOK
<1>4. ASSUME Carry PROVE RequestInv'
  BY <1>4, RequestFacts DEF Carry, RequestInv, TypeOK
<1>5. ASSUME Forward PROVE RequestInv'
  BY <1>5, RequestFacts DEF Forward, RequestInv, TypeOK
<1>6. ASSUME ForwarderEnds PROVE RequestInv'
  BY <1>6, RequestFacts DEF ForwarderEnds, RequestInv, TypeOK
<1>7. ASSUME NEW terminal \in BOOLEAN, Emit(terminal) PROVE RequestInv'
  BY <1>7, RequestFacts DEF Emit, RequestInv, TypeOK
<1>8. ASSUME SendLive PROVE RequestInv'
  BY <1>8, RequestFacts DEF SendLive, RequestInv, TypeOK
<1>9. ASSUME Die PROVE RequestInv'
  BY <1>9, RequestFacts DEF Die, RequestInv, TypeOK
<1>10. ASSUME NEW m \in ToSet(deferred \o loopQueue), Skip(m) PROVE RequestInv'
  <2>1. NextMessage(m)
    BY <1>10 DEF Skip, TakeLine
  <2>2. m \in Message
    BY <2>1, Taken
  <2>3. m.type = "line" => m.body \in Request
    BY <2>2, MessageFacts
  <2> QED BY SMTT(30), <1>10, <2>3, RequestFacts DEF Skip, TakeLine, NextMessage, RequestInv, TypeOK
<1>11. ASSUME NEW m \in ToSet(deferred \o loopQueue), Refuse(m) PROVE RequestInv'
  <2>1. NextMessage(m)
    BY <1>11 DEF Refuse, TakeLine
  <2>2. m \in Message
    BY <2>1, Taken
  <2>3. m.type = "line" => m.body \in Request
    BY <2>2, MessageFacts
  <2> QED BY <1>11, <2>3, RequestFacts DEF Refuse, TakeLine, NextMessage, RequestInv, TypeOK
<1>12. ASSUME NEW m \in ToSet(deferred \o loopQueue), Initialize(m) PROVE RequestInv'
  <2>1. NextMessage(m)
    BY <1>12 DEF Initialize, TakeLine
  <2>2. m \in Message
    BY <2>1, Taken
  <2>3. m.type = "line" => m.body \in Request
    BY <2>2, MessageFacts
  <2> QED BY <1>12, <2>3, RequestFacts DEF Initialize, TakeLine, NextMessage, RequestInv, TypeOK
<1>13. ASSUME NEW m \in ToSet(deferred \o loopQueue), BeginRequest(m) PROVE RequestInv'
  <2>1. NextMessage(m)
    BY <1>13 DEF BeginRequest, TakeLine
  <2>2. m \in Message
    BY <2>1, Taken
  <2>3. m.type = "line" => m.body \in Request
    BY <2>2, MessageFacts
  <2> QED BY SMTT(30), <1>13, <2>3, RequestFacts DEF BeginRequest, TakeLine, NextMessage, RequestInv, TypeOK
<1>14. ASSUME NEW m \in ToSet(deferred \o loopQueue), BeginShutdown(m) PROVE RequestInv'
  <2>1. NextMessage(m)
    BY <1>14 DEF BeginShutdown
  <2>2. m \in Message
    BY <2>1, Taken
  <2>3. m.type = "line" => m.body \in Request
    BY <2>2, MessageFacts
  <2> QED BY <1>14, <2>3, RequestFacts DEF BeginShutdown, NextMessage, RequestInv, TypeOK
<1>15. ASSUME NEW m \in ToSet(deferred \o loopQueue), IgnoreInput(m) PROVE RequestInv'
  <2>1. NextMessage(m)
    BY <1>15 DEF IgnoreInput
  <2>2. m \in Message
    BY <2>1, Taken
  <2>3. m.type = "line" => m.body \in Request
    BY <2>2, MessageFacts
  <2> QED BY <1>15, <2>3, RequestFacts DEF IgnoreInput, NextMessage, RequestInv, TypeOK
<1>16. ASSUME NEW m \in ToSet(deferred \o loopQueue), BeginBatch(m) PROVE RequestInv'
  <2>1. NextMessage(m)
    BY <1>16 DEF BeginBatch
  <2>2. m \in Message
    BY <2>1, Taken
  <2>3. m.type = "line" => m.body \in Request
    BY <2>2, MessageFacts
  <2> QED BY <1>16, <2>3, RequestFacts DEF BeginBatch, NextMessage, RequestInv, TypeOK
<1>17. ASSUME ExtendBatch PROVE RequestInv'
  BY SMTT(30), <1>17, RequestFacts DEF ExtendBatch, batchFrame, RequestInv, TypeOK
<1>18. ASSUME CloseBatch PROVE RequestInv'
  BY <1>18, RequestFacts DEF CloseBatch, batchFrame, RequestInv, TypeOK
<1>19. ASSUME WriteBatch PROVE RequestInv'
  BY <1>19, RequestFacts DEF WriteBatch, RequestInv, TypeOK
<1>20. ASSUME DropRun PROVE RequestInv'
  BY <1>20, RequestFacts DEF DropRun, RunIsOver, handlerFrame, RequestInv, TypeOK
<1>21. ASSUME DrainNothing PROVE RequestInv'
  BY <1>21, RequestFacts DEF DrainNothing, RunIsOver, handlerFrame, RequestInv, TypeOK
<1>22. ASSUME Join PROVE RequestInv'
  BY <1>22, RequestFacts DEF Join, handlerFrame, RequestInv, TypeOK
<1>23. ASSUME StartRun PROVE RequestInv'
  BY <1>23, RequestFacts DEF StartRun, SpawnRun, Handle, handlerFrame, RequestInv, TypeOK
<1>24. ASSUME RefuseTurn PROVE RequestInv'
  BY <1>24, RequestFacts DEF RefuseTurn, Handle, handlerFrame, runFrame, RequestInv, TypeOK
<1>25. ASSUME RefuseApproval PROVE RequestInv'
  BY <1>25, RequestFacts DEF RefuseApproval, Handle, handlerFrame, runFrame, RequestInv, TypeOK
<1>26. ASSUME CancelRun PROVE RequestInv'
  BY <1>26, RequestFacts DEF CancelRun, Handle, handlerFrame, RequestInv, TypeOK
<1>27. ASSUME SteerRun PROVE RequestInv'
  BY <1>27, RequestFacts DEF SteerRun, Handle, handlerFrame, runFrame, RequestInv, TypeOK
<1>28. ASSUME ReadLog PROVE RequestInv'
  BY <1>28, RequestFacts DEF ReadLog, Handle, handlerFrame, runFrame, RequestInv, TypeOK
<1>29. ASSUME Resume PROVE RequestInv'
  BY <1>29, RequestFacts DEF Resume, Handle, handlerFrame, RequestInv, TypeOK
<1>30. ASSUME DeleteRun PROVE RequestInv'
  BY <1>30, RequestFacts DEF DeleteRun, Handle, handlerFrame, RequestInv, TypeOK
<1>31. ASSUME ShutdownRun PROVE RequestInv'
  BY <1>31, RequestFacts DEF ShutdownRun, handlerFrame, RequestInv, TypeOK
<1>32. ASSUME Reply PROVE RequestInv'
  BY <1>32, RequestFacts DEF Reply, RequestInv, TypeOK
<1>33. ASSUME WriteFails PROVE RequestInv'
  BY <1>33, RequestFacts DEF WriteFails, CancelActive, handlerFrame, RequestInv, TypeOK
<1>34. ASSUME Return PROVE RequestInv'
  BY <1>34, RequestFacts DEF Return, handlerFrame, RequestInv, TypeOK
<1>35. ASSUME BreakPipe PROVE RequestInv'
  BY <1>35, RequestFacts DEF BreakPipe, RequestInv, TypeOK
<1>36. ASSUME UNCHANGED vars PROVE RequestInv'
  BY <1>36, RequestFacts DEF vars, RequestInv, TypeOK
<1> QED
  BY <1>1, <1>2, <1>3, <1>4, <1>5, <1>6, <1>7, <1>8, <1>9, <1>10, <1>11,
       <1>12, <1>13, <1>14, <1>15, <1>16, <1>17, <1>18, <1>19, <1>20, <1>21,
       <1>22, <1>23, <1>24, <1>25, <1>26, <1>27, <1>28, <1>29, <1>30, <1>31,
       <1>32, <1>33, <1>34, <1>35, <1>36
  DEF Next, ReaderStep, ForwarderStep, WorkerStep, MainStep, Receive, Terminated

(* The worker keeps its place.                                             *)
LEMMA RunStep == TypeOK /\ RequestInv /\ RunInv /\ [Next]_vars => RunInv'
<1> SUFFICES ASSUME TypeOK, RequestInv, RunInv, [Next]_vars PROVE RunInv'
  OBVIOUS
<1> USE DEF readerVars, forwarderVars, workerVars, mainVars, serverVars, queues
<1>1. ASSUME NEW line \in Lines, ReadLine(line) PROVE RunInv'
  BY <1>1 DEF ReadLine, RunInv, RequestInv, TypeOK
<1>2. ASSUME ReadFails PROVE RunInv'
  BY <1>2 DEF ReadFails, RunInv, RequestInv, TypeOK
<1>3. ASSUME ReadEof PROVE RunInv'
  BY <1>3 DEF ReadEof, RunInv, RequestInv, TypeOK
<1>4. ASSUME Carry PROVE RunInv'
  BY <1>4 DEF Carry, RunInv, RequestInv, TypeOK
<1>5. ASSUME Forward PROVE RunInv'
  BY <1>5 DEF Forward, RunInv, RequestInv, TypeOK
<1>6. ASSUME ForwarderEnds PROVE RunInv'
  BY <1>6 DEF ForwarderEnds, RunInv, RequestInv, TypeOK
<1>7. ASSUME NEW terminal \in BOOLEAN, Emit(terminal) PROVE RunInv'
  <2>1. sending' # None /\ sending'.terminal = terminal
    BY <1>7, Emitted, NoneAssumption
  <2>2. internal = <<>> /\ mainPc # "joining" /\ active
    BY <1>7 DEF Emit, RunInv, RequestInv, TypeOK
  <2>3. CASE terminal = TRUE
    <3>1. internal' = Append(internal, sending')
      BY <1>7, <2>3 DEF Emit
    <3>2. \A q \in Seq(Event), e \in Event : Append(q, e) # <<>>
      OBVIOUS
    <3>3. internal \in Seq(Event) /\ sending' \in Event
      BY <1>7, Emitted DEF TypeOK
    <3>4. internal' # <<>>
      BY <3>1, <3>2, <3>3
    <3> QED BY <1>7, <2>1, <2>2, <2>3, <3>4 DEF Emit, RunInv, TypeOK
  <2>4. CASE terminal = FALSE
    <3>1. internal' = <<>>
      BY <1>7, <2>2, <2>4 DEF Emit
    <3> QED BY <1>7, <2>1, <2>2, <2>4, <3>1 DEF Emit, RunInv, TypeOK
  <2> QED BY <2>3, <2>4
<1>8. ASSUME SendLive PROVE RunInv'
  BY <1>8 DEF SendLive, RunInv, RequestInv, TypeOK
<1>9. ASSUME Die PROVE RunInv'
  BY <1>9 DEF Die, RunInv, RequestInv, TypeOK
<1>10. ASSUME NEW m \in ToSet(deferred \o loopQueue), Skip(m) PROVE RunInv'
  BY <1>10 DEF Skip, TakeLine, NextMessage, RunInv, RequestInv, TypeOK
<1>11. ASSUME NEW m \in ToSet(deferred \o loopQueue), Refuse(m) PROVE RunInv'
  BY <1>11 DEF Refuse, TakeLine, NextMessage, RunInv, RequestInv, TypeOK
<1>12. ASSUME NEW m \in ToSet(deferred \o loopQueue), Initialize(m) PROVE RunInv'
  BY <1>12 DEF Initialize, TakeLine, NextMessage, RunInv, RequestInv, TypeOK
<1>13. ASSUME NEW m \in ToSet(deferred \o loopQueue), BeginRequest(m) PROVE RunInv'
  BY <1>13 DEF BeginRequest, TakeLine, NextMessage, RunInv, RequestInv, TypeOK
<1>14. ASSUME NEW m \in ToSet(deferred \o loopQueue), BeginShutdown(m) PROVE RunInv'
  BY <1>14 DEF BeginShutdown, NextMessage, RunInv, RequestInv, TypeOK
<1>15. ASSUME NEW m \in ToSet(deferred \o loopQueue), IgnoreInput(m) PROVE RunInv'
  BY <1>15 DEF IgnoreInput, NextMessage, RunInv, RequestInv, TypeOK
<1>16. ASSUME NEW m \in ToSet(deferred \o loopQueue), BeginBatch(m) PROVE RunInv'
  BY <1>16 DEF BeginBatch, NextMessage, RunInv, RequestInv, TypeOK
<1>17. ASSUME ExtendBatch PROVE RunInv'
  BY <1>17 DEF ExtendBatch, batchFrame, RunInv, RequestInv, TypeOK
<1>18. ASSUME CloseBatch PROVE RunInv'
  BY <1>18 DEF CloseBatch, batchFrame, RunInv, RequestInv, TypeOK
<1>19. ASSUME WriteBatch PROVE RunInv'
  BY <1>19 DEF WriteBatch, RunInv, RequestInv, TypeOK
<1>20. ASSUME DropRun PROVE RunInv'
  BY <1>20 DEF DropRun, RunIsOver, handlerFrame, RunInv, RequestInv, TypeOK
<1>21. ASSUME DrainNothing PROVE RunInv'
  BY <1>21 DEF DrainNothing, RunIsOver, handlerFrame, RunInv, RequestInv, TypeOK
<1>22. ASSUME Join PROVE RunInv'
  BY <1>22 DEF Join, handlerFrame, RunInv, RequestInv, TypeOK
<1>23. ASSUME StartRun PROVE RunInv'
  BY <1>23 DEF StartRun, SpawnRun, Handle, handlerFrame, RunInv, RequestInv, TypeOK
<1>24. ASSUME RefuseTurn PROVE RunInv'
  BY <1>24 DEF RefuseTurn, Handle, handlerFrame, runFrame, RunInv, RequestInv, TypeOK
<1>25. ASSUME RefuseApproval PROVE RunInv'
  BY <1>25 DEF RefuseApproval, Handle, handlerFrame, runFrame, RunInv, RequestInv, TypeOK
<1>26. ASSUME CancelRun PROVE RunInv'
  BY <1>26 DEF CancelRun, Handle, handlerFrame, RunInv, RequestInv, TypeOK
<1>27. ASSUME SteerRun PROVE RunInv'
  BY <1>27 DEF SteerRun, Handle, handlerFrame, runFrame, RunInv, RequestInv, TypeOK
<1>28. ASSUME ReadLog PROVE RunInv'
  BY <1>28 DEF ReadLog, Handle, handlerFrame, runFrame, RunInv, RequestInv, TypeOK
<1>29. ASSUME Resume PROVE RunInv'
  BY <1>29 DEF Resume, Handle, handlerFrame, RunInv, RequestInv, TypeOK
<1>30. ASSUME DeleteRun PROVE RunInv'
  BY <1>30 DEF DeleteRun, Handle, handlerFrame, RunInv, RequestInv, TypeOK
<1>31. ASSUME ShutdownRun PROVE RunInv'
  BY <1>31 DEF ShutdownRun, handlerFrame, RunInv, RequestInv, TypeOK
<1>32. ASSUME Reply PROVE RunInv'
  BY <1>32 DEF Reply, RunInv, RequestInv, TypeOK
<1>33. ASSUME WriteFails PROVE RunInv'
  BY <1>33 DEF WriteFails, CancelActive, handlerFrame, RunInv, RequestInv, TypeOK
<1>34. ASSUME Return PROVE RunInv'
  BY <1>34 DEF Return, handlerFrame, RunInv, RequestInv, TypeOK
<1>35. ASSUME BreakPipe PROVE RunInv'
  BY <1>35 DEF BreakPipe, RunInv, RequestInv, TypeOK
<1>36. ASSUME UNCHANGED vars PROVE RunInv'
  BY <1>36 DEF vars, RunInv, RequestInv, TypeOK
<1> QED
  BY <1>1, <1>2, <1>3, <1>4, <1>5, <1>6, <1>7, <1>8, <1>9, <1>10, <1>11,
       <1>12, <1>13, <1>14, <1>15, <1>16, <1>17, <1>18, <1>19, <1>20, <1>21,
       <1>22, <1>23, <1>24, <1>25, <1>26, <1>27, <1>28, <1>29, <1>30, <1>31,
       <1>32, <1>33, <1>34, <1>35, <1>36
  DEF Next, ReaderStep, ForwarderStep, WorkerStep, MainStep, Receive, Terminated

(* Every variable keeps its type.                                          *)
LEMMA TypeStep ==
  TypeOK /\ RequestInv /\ RunInv /\ EmittedInv /\ ClientInv /\ [Next]_vars
    => TypeOK'
<1> SUFFICES ASSUME TypeOK, RequestInv, RunInv, EmittedInv, ClientInv, [Next]_vars
             PROVE  TypeOK'
  OBVIOUS
<1> USE DEF readerVars, forwarderVars, workerVars, mainVars, serverVars, queues
<1>1. ASSUME NEW line \in Lines, ReadLine(line) PROVE TypeOK'
  <2>1. line \in Request
    BY <1>1, LineIsRequest DEF ReadLine
  <2>2. [type |-> "line", body |-> line] \in Message
    BY <2>1, MessageIntro
  <2>3. loopQueue' \in Seq(Message) /\ Len(loopQueue') <= LoopBound
    BY <1>1, <2>2, Enqueued DEF ReadLine
  <2>4. lines' \in 0..MaxLines
    BY <1>1, StdioAssumption DEF ReadLine, TypeOK
  <2> QED BY SMTT(30), <1>1, <2>3, <2>4 DEF ReadLine, TypeOK
<1>2. ASSUME ReadFails PROVE TypeOK'
  <2>1. loopQueue' \in Seq(Message) /\ Len(loopQueue') <= LoopBound
    BY <1>2, MessageIntro, Enqueued DEF ReadFails
  <2>2. errors' \in 0..MaxErrors
    BY <1>2, StdioAssumption DEF ReadFails, TypeOK
  <2> QED BY SMTT(30), <1>2, <2>1, <2>2 DEF ReadFails, TypeOK
<1>3. ASSUME ReadEof PROVE TypeOK'
  <2>1. loopQueue' \in Seq(Message) /\ Len(loopQueue') <= LoopBound
    BY <1>3, MessageIntro, Enqueued DEF ReadEof
  <2> QED BY <1>3, <2>1 DEF ReadEof, TypeOK
<1>4. ASSUME Carry PROVE TypeOK'
  <2>1. carried' \in Event /\ liveQueue' \in Seq(Event) /\ Len(liveQueue') = Len(liveQueue) - 1
    BY <1>4 DEF Carry, TypeOK
  <2>2. Len(liveQueue') <= LiveBound
    BY <2>1, StdioAssumption DEF TypeOK
  <2> QED BY SMTT(30), <1>4, <2>1, <2>2 DEF Carry, TypeOK
<1>5. ASSUME Forward PROVE TypeOK'
  <2>1. RunEvent(carried) \in Message
    BY <1>5, MessageIntro DEF Forward, TypeOK
  <2>2. loopQueue' \in Seq(Message) /\ Len(loopQueue') <= LoopBound
    BY <1>5, <2>1, Enqueued DEF Forward
  <2> QED BY <1>5, <2>2 DEF Forward, TypeOK
<1>6. ASSUME ForwarderEnds PROVE TypeOK'
  BY <1>6 DEF ForwarderEnds, TypeOK
<1>7. ASSUME NEW terminal \in BOOLEAN, Emit(terminal) PROVE TypeOK'
  <2>1. sending' \in Event
    BY <1>7, Emitted
  <2>9. seq' \in 0..MaxEvents
    BY <1>7, Emitted, StdioAssumption DEF Emit
  <2>2. emitted' = Append(emitted, sending')
        /\ internal' = IF terminal THEN Append(internal, sending') ELSE internal
    BY <1>7 DEF Emit
  <2>3. internal = <<>>
    BY <1>7 DEF Emit, RunInv, TypeOK
  <2>4. \A q \in Seq(Event), e \in Event :
          Append(q, e) \in Seq(Event) /\ Len(Append(<<>>, e)) = 1
    OBVIOUS
  <2>5. emitted' \in Seq(Event) /\ internal' \in Seq(Event) /\ Len(internal') <= 1
    BY <2>1, <2>2, <2>3, <2>4 DEF TypeOK
  <2> QED BY SMTT(30), <1>7, <2>1, <2>5, <2>9 DEF Emit, TypeOK
<1>8. ASSUME SendLive PROVE TypeOK'
  <2>1. sending \in Event
    BY <1>8 DEF SendLive, RunInv, TypeOK
  <2>2. liveQueue' \in Seq(Event) /\ Len(liveQueue') <= LiveBound
    BY <1>8, <2>1, StdioAssumption DEF SendLive, Room, TypeOK
  <2>3. workerPc' \in {"exited", "running", "sending"}
    BY <1>8 DEF SendLive
  <2> QED BY <1>8, <2>2, <2>3 DEF SendLive, TypeOK
<1>9. ASSUME Die PROVE TypeOK'
  BY <1>9 DEF Die, TypeOK
<1>10. ASSUME NEW m \in ToSet(deferred \o loopQueue), Skip(m) PROVE TypeOK'
  <2>1. NextMessage(m)
    BY <1>10 DEF Skip, TakeLine
  <2>2. /\ m \in Message
        /\ loopQueue' \in Seq(Message) /\ Len(loopQueue') <= LoopBound
        /\ deferred' \in Seq(Message) /\ Len(deferred') <= 1
    BY <2>1, Taken
  <2>3. m.type = "line" => m.body \in Request
    BY <2>2, MessageFacts
  <2>5. answered' \in Seq(1..MaxLines)
    <3>1. m.body.id \in 1..MaxLines
      BY <1>10, <2>3 DEF Skip, TakeLine, Request
    <3> QED BY <1>10, <3>1 DEF Skip, TypeOK
  <2>11. ThreadTypes'
    BY <1>10, <2>2, <2>3, <2>5 DEF Skip, TakeLine, NextMessage, ThreadTypes, TypeOK
  <2>12. LoopTypes'
    BY <1>10, <2>2, <2>3, <2>5 DEF Skip, TakeLine, NextMessage, LoopTypes, TypeOK
  <2> QED BY <2>11, <2>12 DEF ThreadTypes, LoopTypes, TypeOK
<1>11. ASSUME NEW m \in ToSet(deferred \o loopQueue), Refuse(m) PROVE TypeOK'
  <2>1. NextMessage(m)
    BY <1>11 DEF Refuse, TakeLine
  <2>2. /\ m \in Message
        /\ loopQueue' \in Seq(Message) /\ Len(loopQueue') <= LoopBound
        /\ deferred' \in Seq(Message) /\ Len(deferred') <= 1
    BY <2>1, Taken
  <2>3. m.type = "line" => m.body \in Request
    BY <2>2, MessageFacts
  <2>11. ThreadTypes'
    BY <1>11, <2>2, <2>3 DEF Refuse, TakeLine, NextMessage, ThreadTypes, TypeOK
  <2>12. LoopTypes'
    BY <1>11, <2>2, <2>3 DEF Refuse, TakeLine, NextMessage, LoopTypes, TypeOK
  <2> QED BY <2>11, <2>12 DEF ThreadTypes, LoopTypes, TypeOK
<1>12. ASSUME NEW m \in ToSet(deferred \o loopQueue), Initialize(m) PROVE TypeOK'
  <2>1. NextMessage(m)
    BY <1>12 DEF Initialize, TakeLine
  <2>2. /\ m \in Message
        /\ loopQueue' \in Seq(Message) /\ Len(loopQueue') <= LoopBound
        /\ deferred' \in Seq(Message) /\ Len(deferred') <= 1
    BY <2>1, Taken
  <2>3. m.type = "line" => m.body \in Request
    BY <2>2, MessageFacts
  <2>11. ThreadTypes'
    BY <1>12, <2>2, <2>3 DEF Initialize, TakeLine, NextMessage, ThreadTypes, TypeOK
  <2>12. LoopTypes'
    BY <1>12, <2>2, <2>3 DEF Initialize, TakeLine, NextMessage, LoopTypes, TypeOK
  <2> QED BY <2>11, <2>12 DEF ThreadTypes, LoopTypes, TypeOK
<1>13. ASSUME NEW m \in ToSet(deferred \o loopQueue), BeginRequest(m) PROVE TypeOK'
  <2>1. NextMessage(m)
    BY <1>13 DEF BeginRequest, TakeLine
  <2>2. /\ m \in Message
        /\ loopQueue' \in Seq(Message) /\ Len(loopQueue') <= LoopBound
        /\ deferred' \in Seq(Message) /\ Len(deferred') <= 1
    BY <2>1, Taken
  <2>3. m.type = "line" => m.body \in Request
    BY <2>2, MessageFacts
  <2>11. ThreadTypes'
    BY <1>13, <2>2, <2>3 DEF BeginRequest, TakeLine, NextMessage, ThreadTypes, TypeOK
  <2>12. LoopTypes'
    BY <1>13, <2>2, <2>3 DEF BeginRequest, TakeLine, NextMessage, LoopTypes, TypeOK
  <2> QED BY <2>11, <2>12 DEF ThreadTypes, LoopTypes, TypeOK
<1>14. ASSUME NEW m \in ToSet(deferred \o loopQueue), BeginShutdown(m) PROVE TypeOK'
  <2>1. NextMessage(m)
    BY <1>14 DEF BeginShutdown
  <2>2. /\ m \in Message
        /\ loopQueue' \in Seq(Message) /\ Len(loopQueue') <= LoopBound
        /\ deferred' \in Seq(Message) /\ Len(deferred') <= 1
    BY <2>1, Taken
  <2>3. m.type = "line" => m.body \in Request
    BY <2>2, MessageFacts
  <2>11. ThreadTypes'
    BY <1>14, <2>2, <2>3 DEF BeginShutdown, NextMessage, ThreadTypes, TypeOK
  <2>12. LoopTypes'
    BY <1>14, <2>2, <2>3 DEF BeginShutdown, NextMessage, LoopTypes, TypeOK
  <2> QED BY <2>11, <2>12 DEF ThreadTypes, LoopTypes, TypeOK
<1>15. ASSUME NEW m \in ToSet(deferred \o loopQueue), IgnoreInput(m) PROVE TypeOK'
  <2>1. NextMessage(m)
    BY <1>15 DEF IgnoreInput
  <2>2. /\ m \in Message
        /\ loopQueue' \in Seq(Message) /\ Len(loopQueue') <= LoopBound
        /\ deferred' \in Seq(Message) /\ Len(deferred') <= 1
    BY <2>1, Taken
  <2>3. m.type = "line" => m.body \in Request
    BY <2>2, MessageFacts
  <2>11. ThreadTypes'
    BY <1>15, <2>2, <2>3 DEF IgnoreInput, NextMessage, ThreadTypes, TypeOK
  <2>12. LoopTypes'
    BY <1>15, <2>2, <2>3 DEF IgnoreInput, NextMessage, LoopTypes, TypeOK
  <2> QED BY <2>11, <2>12 DEF ThreadTypes, LoopTypes, TypeOK
<1>16. ASSUME NEW m \in ToSet(deferred \o loopQueue), BeginBatch(m) PROVE TypeOK'
  <2>1. NextMessage(m)
    BY <1>16 DEF BeginBatch
  <2>2. /\ m \in Message
        /\ loopQueue' \in Seq(Message) /\ Len(loopQueue') <= LoopBound
        /\ deferred' \in Seq(Message) /\ Len(deferred') <= 1
    BY <2>1, Taken
  <2>3. m.type = "line" => m.body \in Request
    BY <2>2, MessageFacts
  <2>5. batch' \in Seq(Event) /\ Len(batch') <= BatchMax
    BY <1>16, <2>2, MessageFacts, StdioAssumption DEF BeginBatch
  <2>11. ThreadTypes'
    BY <1>16, <2>2, <2>3, <2>5 DEF BeginBatch, NextMessage, ThreadTypes, TypeOK
  <2>12. LoopTypes'
    BY SMTT(30), <1>16, <2>2, <2>3, <2>5 DEF BeginBatch, NextMessage, LoopTypes, TypeOK
  <2> QED BY <2>11, <2>12 DEF ThreadTypes, LoopTypes, TypeOK
<1>17. ASSUME ExtendBatch PROVE TypeOK'
  <2> DEFINE m == Head(loopQueue)
  <2>1. /\ m \in Message /\ loopQueue' \in Seq(Message)
        /\ Len(loopQueue') = Len(loopQueue) - 1
    BY <1>17 DEF ExtendBatch, TypeOK
  <2>2. Len(loopQueue') <= LoopBound
    BY <2>1, StdioAssumption DEF TypeOK
  <2>3. m.type = "event" => m.body \in Event
    BY <2>1, MessageFacts
  <2>4. CASE m.type = "event"
    <3>1. batch' \in Seq(Event) /\ Len(batch') <= BatchMax
      <4>1. batch' = Append(batch, m.body) /\ m.body \in Event
        BY <1>17, <2>3, <2>4 DEF ExtendBatch
      <4>2. batch \in Seq(Event) /\ Len(batch) < BatchMax
        BY <1>17, StdioAssumption DEF ExtendBatch, TypeOK
      <4> HIDE DEF m
      <4> QED BY <4>1, <4>2, StdioAssumption
    <3> QED BY SMTT(30), <1>17, <2>1, <2>2, <2>4, <3>1 DEF ExtendBatch, batchFrame, TypeOK
  <2>5. CASE m.type # "event"
    <3>1. deferred' = <<m>>
      BY <1>17, <2>5 DEF ExtendBatch, RequestInv, TypeOK
    <3> HIDE DEF m
    <3>2. deferred' \in Seq(Message) /\ Len(deferred') <= 1
      BY <2>1, <3>1
    <3> USE DEF m
    <3> QED BY SMTT(30), <1>17, <2>1, <2>2, <2>5, <3>2 DEF ExtendBatch, batchFrame, TypeOK
  <2> QED BY <2>4, <2>5
<1>18. ASSUME CloseBatch PROVE TypeOK'
  BY <1>18 DEF CloseBatch, batchFrame, TypeOK
<1>19. ASSUME WriteBatch PROVE TypeOK'
  <2>1. client' \in Client
    BY <1>19, DispatchType DEF WriteBatch, Client, TypeOK
  <2>2. written' \in Seq(Event)
    BY <1>19 DEF WriteBatch, TypeOK
  <2>3. batch' \in Seq(Event) /\ Len(batch') <= BatchMax
    BY <1>19, StdioAssumption DEF WriteBatch
  <2> QED BY SMTT(30), <1>19, <2>1, <2>2, <2>3 DEF WriteBatch, Client, TypeOK
<1>20. ASSUME DropRun PROVE TypeOK'
  <2>1. internal' \in Seq(Event) /\ Len(internal') <= 1
    BY <1>20 DEF DropRun
  <2>11. ThreadTypes'
    BY <1>20, <2>1 DEF DropRun, handlerFrame, ThreadTypes, TypeOK
  <2>12. LoopTypes'
    BY <1>20, <2>1 DEF DropRun, handlerFrame, LoopTypes, TypeOK
  <2> QED BY <2>11, <2>12 DEF ThreadTypes, LoopTypes, TypeOK
<1>21. ASSUME DrainNothing PROVE TypeOK'
  BY <1>21 DEF DrainNothing, RunIsOver, handlerFrame, TypeOK
<1>22. ASSUME Join PROVE TypeOK'
  <2>1. died' \in BOOLEAN /\ refused' \in BOOLEAN
    BY <1>22, Zenon DEF Join, TypeOK
  <2>2. failed' \in BOOLEAN /\ attached' \in BOOLEAN
    BY <1>22, Zenon DEF Join, TypeOK
  <2>3. mainPc' \in {"failed", "replying", "acting"}
    BY <1>22, Zenon DEF Join
  <2> QED BY SMTT(30), <1>22, <2>1, <2>2, <2>3 DEF Join, handlerFrame, TypeOK
<1>23. ASSUME StartRun PROVE TypeOK'
  <2>1. turn' \in 0..MaxTurns /\ turn + 1 \in 1..MaxTurns /\ seq' \in 0..MaxEvents
    BY <1>23, StdioAssumption DEF StartRun, SpawnRun, TypeOK
  <2>2. stored' \subseteq 1..MaxTurns
    BY <1>23, <2>1 DEF StartRun, TypeOK
  <2>3. workerPc' = "running" /\ canceled' = FALSE /\ active' = TRUE
    BY <1>23 DEF StartRun, SpawnRun
  <2>11. ThreadTypes'
    BY <1>23, <2>1, <2>2, <2>3 DEF StartRun, Handle, handlerFrame, ThreadTypes, TypeOK
  <2>12. LoopTypes'
    BY <1>23, <2>1, <2>2, <2>3 DEF StartRun, Handle, handlerFrame, LoopTypes, TypeOK
  <2> QED BY <2>11, <2>12 DEF ThreadTypes, LoopTypes, TypeOK
<1>24. ASSUME RefuseTurn PROVE TypeOK'
  BY <1>24 DEF RefuseTurn, Handle, handlerFrame, runFrame, TypeOK
<1>25. ASSUME RefuseApproval PROVE TypeOK'
  BY <1>25 DEF RefuseApproval, Handle, handlerFrame, runFrame, TypeOK
<1>26. ASSUME CancelRun PROVE TypeOK'
  BY <1>26 DEF CancelRun, Handle, handlerFrame, TypeOK
<1>27. ASSUME SteerRun PROVE TypeOK'
  BY <1>27 DEF SteerRun, Handle, handlerFrame, runFrame, TypeOK
<1>28. ASSUME ReadLog PROVE TypeOK'
  BY <1>28 DEF ReadLog, Handle, handlerFrame, runFrame, TypeOK
<1>29. ASSUME Resume PROVE TypeOK'
  <2>1. replay' \in [events : Seq(Event), next : 0..(MaxEvents + 1)]
    <3>1. CASE request.run \notin stored
      <4>1. replay' = NoReplay
        BY <1>29, <3>1 DEF Resume
      <4> QED BY <4>1, NoReplayType
    <3>2. CASE request.run \in stored
      <4>1. Only(emitted, EventsFrom(request.run, request.from)) \in Seq(Event)
        BY OnlyEvents DEF TypeOK
      <4>2. request.run \in 1..MaxTurns
        BY <3>2 DEF TypeOK
      <4>3. Len(LogOf(request.run)) + 1 \in 0..(MaxEvents + 1)
        BY <4>2, StdioAssumption, LogLength
      <4> QED BY <1>29, <3>2, <4>1, <4>3 DEF Resume
    <3> QED BY <3>1, <3>2
  <2>2. refused' \in BOOLEAN
    BY <1>29 DEF Resume
  <2> QED BY SMTT(30), <1>29, <2>1, <2>2 DEF Resume, Handle, handlerFrame, TypeOK
<1>30. ASSUME DeleteRun PROVE TypeOK'
  <2>1. refused' \in BOOLEAN
    BY <1>30, Zenon DEF DeleteRun
  <2>2. stored' \subseteq 1..MaxTurns
    BY <1>30, Zenon DEF DeleteRun, TypeOK
  <2> QED BY <1>30, <2>1, <2>2 DEF DeleteRun, Handle, handlerFrame, TypeOK
<1>31. ASSUME ShutdownRun PROVE TypeOK'
  <2>1. canceled' \in BOOLEAN /\ attached' \in BOOLEAN
    BY <1>31, Zenon DEF ShutdownRun, TypeOK
  <2>2. mainPc' \in {"collecting", "idle"}
    BY <1>31, Zenon DEF ShutdownRun
  <2> QED BY SMTT(30), <1>31, <2>1, <2>2 DEF ShutdownRun, handlerFrame, TypeOK
<1>32. ASSUME Reply PROVE TypeOK'
  <2>1. request \in Request
    BY <1>32 DEF Reply, RequestInv
  <2>2. answered' \in Seq(1..MaxLines)
    BY <1>32, <2>1 DEF Reply, Request, TypeOK
  <2>3. accepted' \subseteq 1..MaxTurns
    BY <1>32, <2>1, AcceptsARun DEF Reply, TypeOK
  <2>4. client' \in Client
    <3>1. MarkReplayRange(client, request.run, replay) \in Client
      BY <1>32, RangeType
    <3>2. client' = DispatchEvents(MarkReplayRange(client, request.run, replay), replay.events)
      BY <1>32 DEF Reply
    <3>3. \A c \in Client, s \in Seq(Event) : DispatchEvents(c, s) \in Client
      BY DispatchType
    <3> QED BY <3>1, <3>2, <3>3 DEF TypeOK
  <2>5. replay' \in [events : Seq(Event), next : 0..(MaxEvents + 1)]
    BY <1>32, NoReplayType DEF Reply
  <2>6. initialized' \in BOOLEAN /\ refused' = FALSE /\ request' = NoRequest
        /\ mainPc' = "idle"
    BY <1>32 DEF Reply
  <2>11. ThreadTypes'
    BY <1>32, <2>2, <2>3, <2>4, <2>5, <2>6 DEF Reply, Client, ThreadTypes, TypeOK
  <2>12. LoopTypes'
    BY <1>32, <2>2, <2>3, <2>4, <2>5, <2>6 DEF Reply, Client, LoopTypes, TypeOK
  <2> QED BY <2>11, <2>12 DEF ThreadTypes, LoopTypes, TypeOK
<1>33. ASSUME WriteFails PROVE TypeOK'
  <2>1. canceled' \in BOOLEAN
    BY <1>33, Zenon DEF WriteFails, CancelActive
  <2>11. ThreadTypes'
    BY <1>33, <2>1 DEF WriteFails, handlerFrame, ThreadTypes, TypeOK
  <2>12. LoopTypes'
    BY <1>33, <2>1 DEF WriteFails, handlerFrame, LoopTypes, TypeOK
  <2> QED BY <2>11, <2>12 DEF ThreadTypes, LoopTypes, TypeOK
<1>34. ASSUME Return PROVE TypeOK'
  BY <1>34 DEF Return, handlerFrame, TypeOK
<1>35. ASSUME BreakPipe PROVE TypeOK'
  BY <1>35 DEF BreakPipe, TypeOK
<1>36. ASSUME UNCHANGED vars PROVE TypeOK'
  BY <1>36 DEF vars, TypeOK
<1> QED
  BY <1>1, <1>2, <1>3, <1>4, <1>5, <1>6, <1>7, <1>8, <1>9, <1>10, <1>11,
       <1>12, <1>13, <1>14, <1>15, <1>16, <1>17, <1>18, <1>19, <1>20, <1>21,
       <1>22, <1>23, <1>24, <1>25, <1>26, <1>27, <1>28, <1>29, <1>30, <1>31,
       <1>32, <1>33, <1>34, <1>35, <1>36
  DEF Next, ReaderStep, ForwarderStep, WorkerStep, MainStep, Receive, Terminated

(* What changes the log: an event is emitted, a run starts.                *)
LEMMA LogSteps ==
  [Next]_vars => \/ \E terminal \in BOOLEAN : Emit(terminal)
                 \/ StartRun
                 \/ UNCHANGED <<emitted, turn, seq>>
BY DEF Next, ReaderStep, ForwarderStep, WorkerStep, MainStep, Receive,
       Terminated, vars, ReadLine, ReadFails, ReadEof, Carry, Forward,
       ForwarderEnds, Emit, SendLive, Die, Skip, TakeLine, NextMessage,
       Refuse, Initialize, BeginRequest, BeginShutdown, IgnoreInput,
       BeginBatch, ExtendBatch, batchFrame, CloseBatch, WriteBatch,
       DropRun, RunIsOver, handlerFrame, DrainNothing, Join, StartRun,
       SpawnRun, Handle, RefuseTurn, runFrame, RefuseApproval, CancelRun,
       SteerRun, ReadLog, Resume, DeleteRun, ShutdownRun, Reply,
       WriteFails, CancelActive, Return, BreakPipe, readerVars,
       forwarderVars, workerVars, mainVars, serverVars, queues

(* The logs are complete.                                                  *)
LEMMA EmittedStep ==
  TypeOK /\ RunInv /\ EmittedInv /\ [Next]_vars => EmittedInv'
<1> SUFFICES ASSUME TypeOK, RunInv, EmittedInv, [Next]_vars PROVE EmittedInv'
  OBVIOUS
<1>1. CASE UNCHANGED <<emitted, turn, seq>>
  BY <1>1 DEF EmittedInv, LogOf
<1>2. ASSUME NEW terminal \in BOOLEAN, Emit(terminal) PROVE EmittedInv'
  <2> DEFINE e == sending'
  <2>1. /\ e \in Event /\ e.turn = turn /\ e.seq = seq + 1
        /\ turn \in 1..MaxTurns /\ turn > 0
    BY <1>2, Emitted
  <2>2. emitted' = Append(emitted, e) /\ turn' = turn /\ seq' = seq + 1
    BY <1>2 DEF Emit
  <2>3. emitted \in Seq(Event) /\ turn \in Nat /\ seq \in Nat
    BY StdioAssumption DEF TypeOK
  <2> HIDE DEF e
  <2>4. Complete(emitted')
    <3>1. e.seq = Len(Only(emitted, EventsFrom(e.turn, 1))) + 1
      BY <2>1 DEF EmittedInv, LogOf
    <3> QED BY <2>1, <2>2, <2>3, <3>1, CompleteAppend DEF EmittedInv
  <2>5. (\A i \in DOMAIN emitted : emitted[i].turn <= turn)'
    BY <2>1, <2>2, <2>3 DEF EmittedInv
  <2>6. \A run : Only(emitted', EventsFrom(run, 1)) = IF run = turn THEN Append(LogOf(run), e) ELSE LogOf(run)
    <3> TAKE run
    <3>1. /\ e.turn = run /\ 1 <= e.seq =>
               Only(Append(emitted, e), EventsFrom(run, 1))
                 = Append(Only(emitted, EventsFrom(run, 1)), e)
          /\ ~(e.turn = run /\ 1 <= e.seq) =>
               Only(Append(emitted, e), EventsFrom(run, 1))
                 = Only(emitted, EventsFrom(run, 1))
      BY <2>1, <2>3, LogAppend
    <3> QED BY <2>1, <2>2, <2>3, <3>1 DEF LogOf
  <2>7. Len(LogOf(turn)') = seq'
    <3>1. LogOf(turn) \in Seq(Event) /\ Len(LogOf(turn)) = seq
      BY <2>1, <2>3, OnlyEvents DEF EmittedInv, LogOf
    <3>2. LogOf(turn)' = Append(LogOf(turn), e)
      BY <2>2, <2>6 DEF LogOf
    <3> QED BY <2>2, <3>1, <3>2
  <2>8. (turn > 0 => Len(LogOf(turn)) = seq)' /\ (turn = 0 => seq = 0)'
    BY <2>1, <2>2, <2>3, <2>7 DEF LogOf
  <2>9. (\A run \in 1..MaxTurns : run > turn => LogOf(run) = <<>>)'
    BY <2>2, <2>3, <2>6 DEF EmittedInv, LogOf
  <2> QED BY <2>4, <2>5, <2>8, <2>9 DEF EmittedInv
<1>3. CASE StartRun
  <2>1. emitted' = emitted /\ turn' = turn + 1 /\ seq' = 0 /\ turn + 1 \in 1..MaxTurns
        /\ turn \in Nat
    BY <1>3, StdioAssumption DEF StartRun, SpawnRun, Handle, TypeOK
  <2>2. \A run : LogOf(run)' = LogOf(run)
    BY <2>1 DEF LogOf
  <2>3. Len(LogOf(turn + 1)) = 0
    BY <2>1 DEF EmittedInv
  <2>4. \A i \in DOMAIN emitted' : emitted'[i].turn <= turn'
    <3>1. \A i \in DOMAIN emitted : emitted[i].turn \in Nat
      BY EventFacts DEF TypeOK
    <3> QED BY <2>1, <3>1 DEF EmittedInv
  <2>5. (turn > 0 => Len(LogOf(turn)) = seq)' /\ (turn = 0 => seq = 0)'
    BY <2>1, <2>2, <2>3
  <2>6. \A run \in 1..MaxTurns : run > turn' => LogOf(run)' = <<>>
    BY <2>1, <2>2 DEF EmittedInv
  <2> QED BY <2>1, <2>4, <2>5, <2>6 DEF EmittedInv
<1> QED BY <1>1, <1>2, <1>3, LogSteps

-----------------------------------------------------------------------------
(* The stream of events, and the stream of lines.                          *)

(* The messages that carry an event, and those that carry a line.          *)
LEMMA MessageKinds ==
  ASSUME NEW m \in Message
  PROVE  /\ m \in [type : {"event"}, body : Event] <=> m.type = "event"
         /\ m \in [type : {"line"}, body : Request] <=> m.type = "line"
<1>1. CASE m \in [type : {"line"}, body : Request]
  BY <1>1
<1>2. CASE m \in [type : {"eof", "readError"}, body : {None}]
  BY <1>2
<1>3. CASE m \in [type : {"event"}, body : Event]
  BY <1>3
<1> QED BY <1>1, <1>2, <1>3 DEF Message

(* The events in a queue.                                                  *)
LEMMA EventsInAppend ==
  ASSUME NEW q \in Seq(Message), NEW m \in Message
  PROVE  /\ EventsIn(q) \in Seq(Event)
         /\ m.type = "event" => EventsIn(Append(q, m)) = Append(EventsIn(q), m.body)
         /\ m.type # "event" => EventsIn(Append(q, m)) = EventsIn(q)
<1> DEFINE S == [type : {"event"}, body : Event]
           k == Only(q, S)
           l == Only(Append(q, m), S)
<1>1. m \in S <=> m.type = "event"
  BY MessageKinds
<1>2. k \in Seq(S)
  BY OnlyIn
<1>3. l = IF m \in S THEN Append(k, m) ELSE k
  BY OnlyAppend
<1>4. EventsIn(q) = [i \in DOMAIN k |-> k[i].body]
      /\ EventsIn(Append(q, m)) = [i \in DOMAIN l |-> l[i].body]
  BY DEF EventsIn
<1>8. \A x \in S : x.body \in Event
  OBVIOUS
<1> HIDE DEF k, l, S
<1>5. EventsIn(q) \in Seq(Event)
  <2>1. \A i \in DOMAIN k : k[i].body \in Event
    BY <1>2, <1>8
  <2> QED BY <1>2, <1>4, <2>1, Mapped
<1>6. CASE m \in S
  <2>1. l = Append(k, m) /\ m.body \in Event
    BY <1>3, <1>6, <1>8
  <2> QED BY <1>1, <1>2, <1>4, <1>5, <1>6, <2>1
<1>7. CASE m \notin S
  BY <1>1, <1>3, <1>4, <1>5, <1>7
<1> QED BY <1>6, <1>7

(* The event at the head of a queue.                                       *)
LEMMA EventsInTail ==
  ASSUME NEW q \in Seq(Message), q # <<>>
  PROVE  /\ Head(q).type = "event" =>
              /\ Head(q).body \in Event
              /\ EventsIn(q) = <<Head(q).body>> \o EventsIn(Tail(q))
         /\ Head(q).type # "event" => EventsIn(q) = EventsIn(Tail(q))
<1> DEFINE S == [type : {"event"}, body : Event]
           m == Head(q)
           k == Only(q, S)
           l == Only(Tail(q), S)
<1>0. m \in Message /\ Tail(q) \in Seq(Message)
  OBVIOUS
<1>1. m \in S <=> m.type = "event"
  BY <1>0, MessageKinds
<1>2. l \in Seq(S)
  BY <1>0, OnlyIn
<1>3. k = IF m \in S THEN <<m>> \o l ELSE l
  BY OnlyTail
<1>4. EventsIn(q) = [i \in DOMAIN k |-> k[i].body]
      /\ EventsIn(Tail(q)) = [i \in DOMAIN l |-> l[i].body]
  BY DEF EventsIn
<1>8. \A x \in S : x.body \in Event
  OBVIOUS
<1> HIDE DEF k, l, m, S
<1>5. CASE m \in S
  <2>1. k = <<m>> \o l /\ m.body \in Event
    BY <1>3, <1>5, <1>8
  <2>2. EventsIn(Tail(q)) \in Seq(Event)
    <3>1. \A i \in DOMAIN l : l[i].body \in Event
      BY <1>2, <1>8
    <3> QED BY <1>2, <1>4, <3>1, Mapped
  <2>3. EventsIn(q) = <<m.body>> \o EventsIn(Tail(q))
    BY <1>2, <1>4, <1>5, <2>1, <2>2
  <2> QED BY <1>1, <1>5, <2>1, <2>3 DEF m
<1>6. CASE m \notin S
  BY <1>1, <1>3, <1>4, <1>6 DEF m
<1> QED BY <1>5, <1>6

(* The lines in a queue.                                                   *)
LEMMA LinesInAppend ==
  ASSUME NEW q \in Seq(Message), NEW m \in Message
  PROVE  /\ LinesIn(q) \in Seq(1..MaxLines)
         /\ m.type = "line" => LinesIn(Append(q, m)) = Append(LinesIn(q), m.body.id)
         /\ m.type # "line" => LinesIn(Append(q, m)) = LinesIn(q)
<1> DEFINE S == [type : {"line"}, body : Request]
           k == Only(q, S)
           l == Only(Append(q, m), S)
<1>1. m \in S <=> m.type = "line"
  BY MessageKinds
<1>2. k \in Seq(S)
  BY OnlyIn
<1>3. l = IF m \in S THEN Append(k, m) ELSE k
  BY OnlyAppend
<1>4. LinesIn(q) = [i \in DOMAIN k |-> k[i].body.id]
      /\ LinesIn(Append(q, m)) = [i \in DOMAIN l |-> l[i].body.id]
  BY DEF LinesIn
<1>8. \A x \in S : x.body.id \in 1..MaxLines
  BY DEF Request
<1> HIDE DEF k, l, S
<1>5. LinesIn(q) \in Seq(1..MaxLines)
  <2>1. \A i \in DOMAIN k : k[i].body.id \in 1..MaxLines
    BY <1>2, <1>8
  <2> QED BY <1>2, <1>4, <2>1, Mapped
<1>6. CASE m \in S
  <2>1. l = Append(k, m) /\ m.body.id \in 1..MaxLines
    BY <1>3, <1>6, <1>8
  <2> QED BY <1>1, <1>2, <1>4, <1>5, <1>6, <2>1
<1>7. CASE m \notin S
  BY <1>1, <1>3, <1>4, <1>5, <1>7
<1> QED BY <1>6, <1>7

(* The line at the head of a queue.                                        *)
LEMMA LinesInTail ==
  ASSUME NEW q \in Seq(Message), q # <<>>
  PROVE  /\ Head(q).type = "line" =>
              /\ Head(q).body.id \in 1..MaxLines
              /\ LinesIn(q) = <<Head(q).body.id>> \o LinesIn(Tail(q))
         /\ Head(q).type # "line" => LinesIn(q) = LinesIn(Tail(q))
<1> DEFINE S == [type : {"line"}, body : Request]
           m == Head(q)
           k == Only(q, S)
           l == Only(Tail(q), S)
<1>0. m \in Message /\ Tail(q) \in Seq(Message)
  OBVIOUS
<1>1. m \in S <=> m.type = "line"
  BY <1>0, MessageKinds
<1>2. l \in Seq(S)
  BY <1>0, OnlyIn
<1>3. k = IF m \in S THEN <<m>> \o l ELSE l
  BY OnlyTail
<1>4. LinesIn(q) = [i \in DOMAIN k |-> k[i].body.id]
      /\ LinesIn(Tail(q)) = [i \in DOMAIN l |-> l[i].body.id]
  BY DEF LinesIn
<1>8. \A x \in S : x.body.id \in 1..MaxLines
  BY DEF Request
<1> HIDE DEF k, l, m, S
<1>5. CASE m \in S
  <2>1. k = <<m>> \o l /\ m.body.id \in 1..MaxLines
    BY <1>3, <1>5, <1>8
  <2>2. LinesIn(Tail(q)) \in Seq(1..MaxLines)
    <3>1. \A i \in DOMAIN l : l[i].body.id \in 1..MaxLines
      BY <1>2, <1>8
    <3> QED BY <1>2, <1>4, <3>1, Mapped
  <2>3. LinesIn(q) = <<m.body.id>> \o LinesIn(Tail(q))
    BY <1>2, <1>4, <1>5, <2>1, <2>2
  <2> QED BY <1>1, <1>5, <2>1, <2>3 DEF m
<1>6. CASE m \notin S
  BY <1>1, <1>3, <1>4, <1>6 DEF m
<1> QED BY <1>5, <1>6

(* A message that is no event leaves the stream of events alone, whether   *)
(* it enters the loop queue                                                *)
LEMMA PassedStream ==
  ASSUME TypeOK, EventStream, NEW m \in Message, m.type # "event",
         loopQueue' = Append(loopQueue, m),
         UNCHANGED <<emitted, written, batch, carried, liveQueue, sending>>
  PROVE  EventStream'
<1>1. EventsIn(loopQueue') = EventsIn(loopQueue)
  <2>1. EventsIn(Append(loopQueue, m)) = EventsIn(loopQueue)
    BY EventsInAppend DEF TypeOK
  <2> QED BY <2>1
<1> QED BY <1>1 DEF EventStream

(* or leaves it.                                                           *)
LEMMA TakenStream ==
  ASSUME TypeOK, RequestInv, EventStream, NEW m, NextMessage(m),
         m.type # "event", batch' = batch
  PROVE  EventStream'
<1>1. EventsIn(loopQueue') = EventsIn(loopQueue)
  <2>1. CASE loopQueue' = loopQueue
    BY <2>1
  <2>2. CASE loopQueue # <<>> /\ m = Head(loopQueue) /\ loopQueue' = Tail(loopQueue)
    <3>1. EventsIn(loopQueue) = EventsIn(Tail(loopQueue))
      BY <2>2, EventsInTail DEF TypeOK
    <3> QED BY <2>2, <3>1
  <2> QED BY <2>1, <2>2 DEF NextMessage
<1> QED BY <1>1 DEF EventStream, NextMessage, workerVars, forwarderVars

(* Every event stays in its place of the stream.                           *)
LEMMA StreamStep ==
  TypeOK /\ RequestInv /\ RunInv /\ EventStream /\ [Next]_vars => EventStream'
<1> SUFFICES ASSUME TypeOK, RequestInv, RunInv, EventStream, [Next]_vars
             PROVE  EventStream'
  OBVIOUS
<1> DEFINE E == EventsIn(loopQueue)
           C == InHand(carried)
           S == InHand(sending)
           W == written \o batch
           P == W \o E
           Q == P \o C
<1>a. /\ \A a, b \in Seq(Event) : a \o b \in Seq(Event)
      /\ \A a \in Seq(Event) : a \o <<>> = a /\ <<>> \o a = a
      /\ \A a \in Seq(Event), e \in Event :
           Append(a, e) = a \o <<e>> /\ <<e>> \in Seq(Event)
      /\ \A a \in Seq(Event) : a # <<>> =>
           Head(a) \in Event /\ Tail(a) \in Seq(Event) /\ a = <<Head(a)>> \o Tail(a)
  BY ConcatFacts
<1>h. \A a, b, c \in Seq(Event) : (a \o b) \o c = a \o (b \o c)
  BY ConcatFacts
<1>b. \A q \in Seq(Message) : EventsIn(q) \in Seq(Event)
  <2>1. \A q \in Seq(Message), m \in Message : EventsIn(q) \in Seq(Event)
    BY EventsInAppend
  <2> QED BY <2>1, MessageIntro
<1>c. InHand(None) = <<>> /\ \A e \in Event : InHand(e) = <<e>>
  BY NoneAssumption DEF InHand
<1>d. /\ written \in Seq(Event) /\ batch \in Seq(Event) /\ E \in Seq(Event)
      /\ C \in Seq(Event) /\ liveQueue \in Seq(Event) /\ S \in Seq(Event)
      /\ loopQueue \in Seq(Message)
  <2>1. \A e \in Event \cup {None} : InHand(e) \in Seq(Event)
    BY DEF InHand
  <2> QED BY <1>b, <2>1 DEF TypeOK
<1>e. W \in Seq(Event) /\ P \in Seq(Event) /\ Q \in Seq(Event)
  <2> HIDE DEF E, C
  <2> QED BY <1>a, <1>d
<1>f. emitted = Q \o liveQueue \o S
  BY DEF EventStream
<1>g. emitted' = Q' \o liveQueue' \o S' => EventStream'
  BY DEF EventStream
<1> HIDE DEF E, C, S, W, P, Q
<1> USE DEF readerVars, forwarderVars, workerVars, mainVars, serverVars, queues
<1>1. ASSUME NEW line \in Lines, ReadLine(line) PROVE EventStream'
  <2>1. /\ [type |-> "line", body |-> line] \in Message
        /\ [type |-> "line", body |-> line].type # "event"
    BY <1>1, LineIsRequest, MessageIntro DEF ReadLine
  <2> QED BY <1>1, <2>1, PassedStream DEF ReadLine
<1>2. ASSUME ReadFails PROVE EventStream'
  <2>1. /\ [type |-> "readError", body |-> None] \in Message
        /\ [type |-> "readError", body |-> None].type # "event"
    BY <1>2, LineIsRequest, MessageIntro DEF ReadFails
  <2> QED BY <1>2, <2>1, PassedStream DEF ReadFails
<1>3. ASSUME ReadEof PROVE EventStream'
  <2>1. /\ [type |-> "eof", body |-> None] \in Message
        /\ [type |-> "eof", body |-> None].type # "event"
    BY <1>3, LineIsRequest, MessageIntro DEF ReadEof
  <2> QED BY <1>3, <2>1, PassedStream DEF ReadEof
<1>4. ASSUME Carry PROVE EventStream'
  <2>1. C = <<>> /\ C' \in Seq(Event) /\ liveQueue' \in Seq(Event)
        /\ liveQueue = C' \o liveQueue'
    BY <1>4, <1>a, <1>c, <1>d DEF Carry, C
  <2>2. emitted' = emitted /\ P' = P /\ S' = S
    BY <1>4 DEF Carry, E, P, S, W
  <2>3. Q = P
    BY <1>a, <1>e, <2>1 DEF Q
  <2>4. P \o liveQueue = (P \o C') \o liveQueue'
    BY <1>e, <1>h, <2>1, Zenon
  <2> QED BY <1>f, <1>g, <2>2, <2>3, <2>4 DEF Q
<1>5. ASSUME Forward PROVE EventStream'
  <2>1. carried \in Event /\ RunEvent(carried) \in Message
        /\ RunEvent(carried).type = "event" /\ RunEvent(carried).body = carried
    BY <1>5, MessageIntro DEF Forward, TypeOK, RunEvent
  <2>2. E' = E \o C /\ C' = <<>>
    <3>1. EventsIn(Append(loopQueue, RunEvent(carried))) = Append(E, carried)
      BY <1>d, <2>1, EventsInAppend DEF E
    <3>2. E' = Append(E, carried) /\ C' = InHand(None)
      BY <1>5, <3>1 DEF Forward, E, C
    <3>3. Append(E, carried) = E \o <<carried>> /\ C = <<carried>>
      BY <1>a, <1>c, <1>d, <2>1 DEF C
    <3> QED BY <1>c, <3>2, <3>3
  <2>3. emitted' = emitted /\ liveQueue' = liveQueue /\ S' = S /\ W' = W
    BY <1>5 DEF Forward, S, W
  <2>4. W \o (E \o C) = Q
    <3>1. (W \o E) \o C = W \o (E \o C)
      <4>1. W \in Seq(Event) /\ E \in Seq(Event) /\ C \in Seq(Event)
        BY <1>d, <1>e
      <4> QED BY <1>h, <4>1, Zenon
    <3> QED BY <3>1 DEF P, Q
  <2>5. Q' = Q
    <3>1. Q' = (W \o (E \o C)) \o <<>>
      BY <2>2, <2>3 DEF P, Q
    <3> QED BY <1>a, <1>e, <2>4, <3>1
  <2> QED BY <1>f, <1>g, <2>3, <2>5
<1>6. ASSUME NEW terminal \in BOOLEAN, Emit(terminal) PROVE EventStream'
  <2>1. S = <<>> /\ S' = <<sending'>>
        /\ emitted' = Append(emitted, sending') /\ sending' \in Event
    BY <1>6, <1>c, Emitted DEF Emit, RunInv, S
  <2>2. liveQueue' = liveQueue /\ Q' = Q
    BY <1>6 DEF Emit, E, C, W, P, Q
  <2>3. Q \o liveQueue \in Seq(Event)
    BY <1>a, <1>d, <1>e
  <2>4. emitted = Q \o liveQueue
    BY <1>a, <1>f, <2>1, <2>3
  <2> QED BY <1>a, <1>g, <2>1, <2>2, <2>3, <2>4
<1>7. ASSUME SendLive PROVE EventStream'
  <2>1. sending \in Event
    BY <1>7 DEF SendLive, RunInv, TypeOK
  <2>2. liveQueue' = liveQueue \o S /\ S' = <<>>
    <3>1. liveQueue' = Append(liveQueue, sending) /\ S = <<sending>>
      BY <1>7, <1>c, <2>1 DEF SendLive, S
    <3>2. Append(liveQueue, sending) = liveQueue \o <<sending>>
      BY <1>a, <1>d, <2>1
    <3>3. S' = <<>>
      BY <1>7, <1>c DEF SendLive, S
    <3> QED BY <3>1, <3>2, <3>3
  <2>3. emitted' = emitted /\ Q' = Q
    BY <1>7 DEF SendLive, E, C, W, P, Q
  <2>4. (Q \o liveQueue) \o S = Q \o (liveQueue \o S)
    <3>1. Q \in Seq(Event) /\ liveQueue \in Seq(Event) /\ S \in Seq(Event)
      BY <1>d, <1>e
    <3> QED BY <1>h, <3>1, Zenon
  <2>5. Q \o (liveQueue \o S) \in Seq(Event)
    BY <1>a, <1>d, <1>e
  <2>6. Q \o (liveQueue \o S) = Q \o (liveQueue \o S) \o <<>>
    BY <1>a, <2>5
  <2> QED BY <1>f, <1>g, <2>2, <2>3, <2>4, <2>6
<1>8. ASSUME NEW m \in ToSet(deferred \o loopQueue), Skip(m) PROVE EventStream'
  BY <1>8, TakenStream DEF Skip, TakeLine
<1>9. ASSUME NEW m \in ToSet(deferred \o loopQueue), Refuse(m) PROVE EventStream'
  BY <1>9, TakenStream DEF Refuse, TakeLine
<1>10. ASSUME NEW m \in ToSet(deferred \o loopQueue), Initialize(m) PROVE EventStream'
  BY <1>10, TakenStream DEF Initialize, TakeLine
<1>11. ASSUME NEW m \in ToSet(deferred \o loopQueue), BeginRequest(m) PROVE EventStream'
  BY <1>11, TakenStream DEF BeginRequest, TakeLine
<1>12. ASSUME NEW m \in ToSet(deferred \o loopQueue), BeginShutdown(m) PROVE EventStream'
  BY <1>12, TakenStream DEF BeginShutdown
<1>13. ASSUME NEW m \in ToSet(deferred \o loopQueue), IgnoreInput(m) PROVE EventStream'
  BY <1>13, TakenStream DEF IgnoreInput
<1>14. ASSUME NEW m \in ToSet(deferred \o loopQueue), BeginBatch(m) PROVE EventStream'
  <2>1. NextMessage(m) /\ m.type = "event" /\ batch' = <<m.body>>
    BY <1>14 DEF BeginBatch
  <2>2. batch = <<>>
    BY <2>1 DEF NextMessage, RequestInv
  <2>3. loopQueue # <<>> /\ m = Head(loopQueue) /\ loopQueue' = Tail(loopQueue)
    <3>1. ~ (deferred # <<>> /\ m = Head(deferred))
      BY <2>1 DEF RequestInv, TypeOK
    <3> QED BY <2>1, <3>1 DEF NextMessage
  <2>4. batch' \in Seq(Event) /\ E = batch' \o E'
    <3>1. /\ Head(loopQueue).body \in Event
          /\ EventsIn(loopQueue) = <<Head(loopQueue).body>> \o EventsIn(Tail(loopQueue))
      BY <1>d, <2>1, <2>3, EventsInTail
    <3> QED BY <2>1, <2>3, <3>1 DEF E
  <2>5. E' \in Seq(Event)
    <3>1. loopQueue' \in Seq(Message)
      BY <1>d, <2>3
    <3> QED BY <1>b, <3>1 DEF E
  <2>6. /\ emitted' = emitted /\ liveQueue' = liveQueue /\ written' = written
        /\ C' = C /\ S' = S
    BY <2>1 DEF NextMessage, C, S
  <2>7. P' = P
    <3>1. W = written
      BY <1>a, <1>d, <2>2 DEF W
    <3>2. P = written \o (batch' \o E')
      BY <2>4, <3>1 DEF P
    <3>3. P' = (written \o batch') \o E'
      BY <2>6 DEF P, W
    <3>4. (written \o batch') \o E' = written \o (batch' \o E')
      <4>1. written \in Seq(Event)
        BY <1>d
      <4> QED BY <1>h, <2>4, <2>5, <4>1, Zenon
    <3> QED BY <3>2, <3>3, <3>4
  <2> QED BY <1>f, <1>g, <2>6, <2>7 DEF Q
<1>15. ASSUME ExtendBatch PROVE EventStream'
  <2>1. loopQueue # <<>> /\ loopQueue' = Tail(loopQueue)
    BY <1>15 DEF ExtendBatch
  <2>2. E' \in Seq(Event)
    <3>1. loopQueue' \in Seq(Message)
      BY <1>d, <2>1
    <3> QED BY <1>b, <3>1 DEF E
  <2>3. /\ emitted' = emitted /\ liveQueue' = liveQueue /\ written' = written
        /\ C' = C /\ S' = S
    BY <1>15 DEF ExtendBatch, batchFrame, C, S
  <2>4. CASE Head(loopQueue).type = "event"
    <3> DEFINE b == <<Head(loopQueue).body>>
    <3>1. Head(loopQueue).body \in Event /\ E = b \o E'
      BY <1>d, <2>1, <2>4, EventsInTail DEF E
    <3>2. batch' = batch \o b /\ b \in Seq(Event)
      <4>1. batch' = Append(batch, Head(loopQueue).body)
        BY <1>15, <2>4 DEF ExtendBatch
      <4> QED BY <1>a, <1>d, <3>1, <4>1
    <3> HIDE DEF b
    <3>3. P = W \o (b \o E')
      BY <3>1 DEF P
    <3>4. P' = (written \o (batch \o b)) \o E'
      BY <2>3, <3>2 DEF P, W
    <3>5. written \o (batch \o b) = W \o b
      <4>1. (written \o batch) \o b = written \o (batch \o b)
        <5>1. written \in Seq(Event) /\ batch \in Seq(Event) /\ b \in Seq(Event)
          BY <1>d, <3>2
        <5> QED BY <1>h, <5>1, Zenon
      <4> QED BY <4>1 DEF W
    <3>6. (W \o b) \o E' = W \o (b \o E')
      BY <1>e, <1>h, <2>2, <3>2, ZenonT(30)
    <3>7. P' = P
      BY <3>3, <3>4, <3>5, <3>6
    <3> QED BY <1>f, <1>g, <2>3, <3>7 DEF Q
  <2>5. CASE Head(loopQueue).type # "event"
    <3>1. E' = E
      BY <1>d, <2>1, <2>5, EventsInTail DEF E
    <3>2. batch' = batch
      BY <1>15, <2>5 DEF ExtendBatch
    <3> QED BY <1>f, <1>g, <2>3, <3>1, <3>2 DEF P, Q, W
  <2> QED BY <2>4, <2>5
<1>16. ASSUME WriteBatch PROVE EventStream'
  <2>1. W' = W \o <<>>
    BY <1>16 DEF WriteBatch, W
  <2>2. emitted' = emitted /\ liveQueue' = liveQueue /\ E' = E /\ C' = C /\ S' = S
    BY <1>16 DEF WriteBatch, E, C, S
  <2>3. W' = W
    BY <1>a, <1>e, <2>1
  <2> QED BY <1>f, <1>g, <2>2, <2>3 DEF P, Q
<1>17. CASE
        \/ ForwarderEnds \/ Die \/ CloseBatch \/ DropRun \/ DrainNothing
        \/ Join \/ StartRun \/ RefuseTurn \/ RefuseApproval \/ CancelRun
        \/ SteerRun \/ ReadLog \/ Resume \/ DeleteRun \/ ShutdownRun
        \/ Reply \/ WriteFails \/ Return \/ BreakPipe \/ UNCHANGED vars
  <2>1. UNCHANGED <<emitted, written, batch, loopQueue, carried, liveQueue,
                    sending>>
    BY <1>17 DEF ForwarderEnds, Die, CloseBatch, batchFrame, DropRun, RunIsOver,
         handlerFrame, DrainNothing, Join, StartRun, SpawnRun, Handle,
         RefuseTurn, runFrame, RefuseApproval, CancelRun, SteerRun,
         ReadLog, Resume, DeleteRun, ShutdownRun, Reply, WriteFails,
         CancelActive, Return, BreakPipe, vars
  <2> QED BY <2>1 DEF EventStream
<1> QED
  BY <1>1, <1>2, <1>3, <1>4, <1>5, <1>6, <1>7, <1>8, <1>9, <1>10, <1>11,
     <1>12, <1>13, <1>14, <1>15, <1>16, <1>17
  DEF Next, ReaderStep, ForwarderStep, WorkerStep, MainStep, Receive, Terminated

(* What the request loop takes is the head of what is in store for it.     *)
LEMMA TakenLines ==
  ASSUME TypeOK, NEW m, NextMessage(m)
  PROVE  /\ m \in Message
         /\ (deferred \o loopQueue)' \in Seq(Message)
         /\ m.type = "line" =>
              /\ m.body \in Request /\ m.body.id \in 1..MaxLines
              /\ LinesIn(deferred \o loopQueue)
                   = <<m.body.id>> \o LinesIn(deferred \o loopQueue)'
         /\ m.type # "line" =>
              LinesIn(deferred \o loopQueue) = LinesIn(deferred \o loopQueue)'
<1> DEFINE I == deferred \o loopQueue
<1>1. deferred \in Seq(Message) /\ loopQueue \in Seq(Message)
  BY DEF TypeOK
<1>2. m \in Message /\ I \in Seq(Message) /\ I' \in Seq(Message)
  BY <1>1, Taken
<1>3. I # <<>> /\ Head(I) = m /\ Tail(I) = I'
  <2>1. CASE deferred # <<>> /\ m = Head(deferred)
             /\ deferred' = Tail(deferred) /\ loopQueue' = loopQueue
    <3>1. \A a, b \in Seq(Message) : a # <<>> =>
            /\ a \o b # <<>> /\ Head(a \o b) = Head(a)
            /\ Tail(a \o b) = Tail(a) \o b
      OBVIOUS
    <3> QED BY <1>1, <2>1, <3>1
  <2>2. CASE deferred = <<>> /\ loopQueue # <<>> /\ m = Head(loopQueue)
             /\ loopQueue' = Tail(loopQueue) /\ deferred' = deferred
    <3>1. \A a \in Seq(Message) : <<>> \o a = a
      BY ConcatEmptySeq
    <3>2. loopQueue' \in Seq(Message)
      BY Taken
    <3> QED BY <1>1, <2>2, <3>1, <3>2
  <2> QED BY <2>1, <2>2 DEF NextMessage
<1> HIDE DEF I
<1>4. /\ m.type = "line" =>
           m.body.id \in 1..MaxLines /\ LinesIn(I) = <<m.body.id>> \o LinesIn(Tail(I))
      /\ m.type # "line" => LinesIn(I) = LinesIn(Tail(I))
  BY <1>2, <1>3, LinesInTail
<1>5. m.type = "line" => m.body \in Request
  BY <1>2, MessageFacts
<1> QED BY <1>2, <1>3, <1>4, <1>5 DEF I

(* A message that enters the loop queue.                                   *)
LEMMA PassedLines ==
  ASSUME TypeOK, NEW m \in Message, loopQueue' = Append(loopQueue, m),
         deferred' = deferred
  PROVE  /\ m.type = "line" =>
              LinesIn(deferred \o loopQueue)'
                = Append(LinesIn(deferred \o loopQueue), m.body.id)
         /\ m.type # "line" =>
              LinesIn(deferred \o loopQueue)' = LinesIn(deferred \o loopQueue)
<1> DEFINE I == deferred \o loopQueue
<1>1. I \in Seq(Message)
  BY DEF TypeOK
<1>2. I' = Append(I, m)
  <2>1. \A a, b \in Seq(Message), x \in Message :
          a \o Append(b, x) = Append(a \o b, x)
    OBVIOUS
  <2>2. deferred \in Seq(Message) /\ loopQueue \in Seq(Message)
    BY DEF TypeOK
  <2> QED BY <2>1, <2>2
<1> HIDE DEF I
<1>3. /\ m.type = "line" => LinesIn(Append(I, m)) = Append(LinesIn(I), m.body.id)
      /\ m.type # "line" => LinesIn(Append(I, m)) = LinesIn(I)
  BY <1>1, LinesInAppend
<1> QED BY <1>2, <1>3 DEF I

(* A line that is taken up is in the hand of the request loop.             *)
LEMMA TakenUp ==
  ASSUME TypeOK, RequestInv, NEW m, NextMessage(m), m.type = "line", ~shutdown,
         answered' = answered, request' = m.body
  PROVE  answered' \o RequestInHand' \o LinesIn(deferred \o loopQueue)'
           = answered \o RequestInHand \o LinesIn(deferred \o loopQueue)
<1> DEFINE L == LinesIn(deferred \o loopQueue)
           Numbers == 1..MaxLines
<1>1. m.body \in Request /\ m.body.id \in Numbers /\ L = <<m.body.id>> \o L'
      /\ (deferred \o loopQueue)' \in Seq(Message)
  BY TakenLines
<1>2. L' \in Seq(Numbers)
  <2>1. \A q \in Seq(Message), x \in Message : LinesIn(q) \in Seq(1..MaxLines)
    BY LinesInAppend
  <2> QED BY <1>1, <2>1, MessageIntro
<1>3. RequestInHand = <<>> /\ RequestInHand' = <<m.body.id>>
  BY <1>1, RequestFacts DEF NextMessage, RequestInv, RequestInHand
<1>4. answered \in Seq(Numbers)
  BY DEF TypeOK
<1> HIDE DEF L, Numbers
<1>5. <<m.body.id>> \in Seq(Numbers) /\ answered \o <<>> = answered
  BY <1>1, <1>4
<1>6. (answered \o <<m.body.id>>) \o L' = answered \o (<<m.body.id>> \o L')
  BY <1>2, <1>4, <1>5, ConcatAssociative
<1> QED BY <1>1, <1>3, <1>5, <1>6 DEF L

(* The next line takes its number.                                         *)
LEMMA LineNumber ==
  ASSUME NEW line \in Lines
  PROVE  line.id = lines + 1
BY DEF Lines

(* Every line stays in its place of the stream.                            *)
LEMMA LineStep ==
  TypeOK /\ RequestInv /\ LineStream /\ [Next]_vars => LineStream'
<1> SUFFICES ASSUME TypeOK, RequestInv, LineStream, [Next]_vars PROVE LineStream'
  OBVIOUS
<1> DEFINE L == LinesIn(deferred \o loopQueue)
           R == RequestInHand
           Numbers == 1..MaxLines
<1>a. /\ \A a, b \in Seq(Numbers) : a \o b \in Seq(Numbers)
      /\ \A a \in Seq(Numbers) : a \o <<>> = a /\ <<>> \o a = a
      /\ \A a \in Seq(Numbers), e \in Numbers :
           Append(a, e) = a \o <<e>> /\ <<e>> \in Seq(Numbers)
  BY ConcatFacts
<1>b. \A a, b, c \in Seq(Numbers) : (a \o b) \o c = a \o (b \o c)
  BY ConcatFacts
<1>c. \A q \in Seq(Message) : LinesIn(q) \in Seq(Numbers)
  <2>1. \A q \in Seq(Message), m \in Message : LinesIn(q) \in Seq(1..MaxLines)
    BY LinesInAppend
  <2> QED BY <2>1, MessageIntro
<1>d. answered \in Seq(Numbers) /\ R \in Seq(Numbers) /\ L \in Seq(Numbers)
  <2>1. deferred \o loopQueue \in Seq(Message)
    BY DEF TypeOK
  <2>2. R \in Seq(Numbers)
    <3>1. CASE request \in {NoRequest, Shutdown}
      BY <3>1 DEF RequestInHand
    <3>2. CASE request \in Request
      <4>1. request.id \in Numbers /\ R = <<request.id>>
        BY <3>2, RequestFacts DEF RequestInHand, Request
      <4> HIDE DEF R, Numbers
      <4> QED BY <4>1
    <3> QED BY <3>1, <3>2 DEF TypeOK
  <2> QED BY <1>c, <2>1, <2>2 DEF TypeOK
<1>e. \A r \in Request : r \notin {NoRequest, Shutdown} /\ r.id \in Numbers
  BY RequestFacts DEF Request
<1>f. ~shutdown => answered \o R \o L = [i \in 1..lines |-> i]
  BY DEF LineStream
<1>g. (~shutdown' => answered' \o R' \o L' = [i \in 1..lines' |-> i]) => LineStream'
  BY DEF LineStream
<1>h. (~shutdown /\ ~shutdown' => answered' \o R' \o L' = answered \o R \o L)
       /\ lines' = lines /\ (shutdown => shutdown') => LineStream'
  BY <1>f, <1>g
<1> HIDE DEF L, R, Numbers
<1> USE DEF readerVars, forwarderVars, workerVars, mainVars, serverVars, queues
<1>1. ASSUME NEW line \in Lines, ReadLine(line) PROVE LineStream'
  <2> DEFINE m == [type |-> "line", body |-> line]
  <2>1. m \in Message /\ m.type = "line" /\ m.body.id = lines + 1
    BY <1>1, LineIsRequest, LineNumber, MessageIntro DEF ReadLine
  <2>2. loopQueue' = Append(loopQueue, m) /\ deferred' = deferred
    BY <1>1 DEF ReadLine
  <2>3. lines + 1 \in Numbers /\ lines \in Nat
    BY <1>1, StdioAssumption DEF ReadLine, TypeOK, Numbers
  <2> HIDE DEF m
  <2>4. L' = Append(L, lines + 1)
    BY <2>1, <2>2, PassedLines DEF L
  <2>5. answered' = answered /\ R' = R /\ shutdown' = shutdown /\ lines' = lines + 1
    BY <1>1 DEF ReadLine, R, RequestInHand
  <2>6. answered \o R \in Seq(Numbers)
    BY <1>a, <1>d
  <2>7. <<lines + 1>> \in Seq(Numbers) /\ L' = L \o <<lines + 1>>
    BY <1>a, <1>d, <2>3, <2>4
  <2>8. ((answered \o R) \o L) \o <<lines + 1>> = (answered \o R) \o (L \o <<lines + 1>>)
    <3>1. L \in Seq(Numbers)
      BY <1>d
    <3> QED BY <1>b, <2>6, <2>7, <3>1, Zenon
  <2>9. (answered \o R) \o L \in Seq(Numbers)
    BY <1>a, <1>d, <2>6
  <2>10. Append((answered \o R) \o L, lines + 1) = (answered \o R) \o L'
    BY <1>a, <2>3, <2>7, <2>8, <2>9
  <2> QED BY <1>f, <1>g, <2>3, <2>5, <2>10, NextNumber
<1>2. ASSUME ReadFails PROVE LineStream'
  <2>1. [type |-> "readError", body |-> None] \in Message /\ [type |-> "readError", body |-> None].type # "line"
    BY <1>2, MessageIntro DEF ReadFails
  <2>2. L' = L
    BY <1>2, <2>1, PassedLines DEF ReadFails, L
  <2> QED BY <1>2, <1>h, <2>2 DEF ReadFails, R, RequestInHand
<1>3. ASSUME ReadEof PROVE LineStream'
  <2>1. [type |-> "eof", body |-> None] \in Message /\ [type |-> "eof", body |-> None].type # "line"
    BY <1>3, MessageIntro DEF ReadEof
  <2>2. L' = L
    BY <1>3, <2>1, PassedLines DEF ReadEof, L
  <2> QED BY <1>3, <1>h, <2>2 DEF ReadEof, R, RequestInHand
<1>4. ASSUME Forward PROVE LineStream'
  <2>1. RunEvent(carried) \in Message /\ RunEvent(carried).type # "line"
    BY <1>4, MessageIntro DEF Forward, TypeOK, RunEvent
  <2>2. L' = L
    BY <1>4, <2>1, PassedLines DEF Forward, L
  <2> QED BY <1>4, <1>h, <2>2 DEF Forward, R, RequestInHand
<1>5. ASSUME NEW m \in ToSet(deferred \o loopQueue), Skip(m) PROVE LineStream'
  <2>1. NextMessage(m) /\ m.type = "line" /\ ~shutdown /\ shutdown' = shutdown
        /\ answered' = Append(answered, m.body.id) /\ request' = request
        /\ lines' = lines
    BY <1>5 DEF Skip, TakeLine, NextMessage
  <2>2. m.body.id \in Numbers /\ L = <<m.body.id>> \o L' /\ L' \in Seq(Numbers)
    BY <1>c, <2>1, TakenLines DEF L, Numbers
  <2>3. R = <<>> /\ R' = <<>>
    BY <2>1 DEF NextMessage, RequestInv, R, RequestInHand
  <2>4. answered \o R = answered /\ answered' \o R' = answered \o <<m.body.id>>
        /\ <<m.body.id>> \in Seq(Numbers)
    <3>1. answered \o R = answered
      BY <1>a, <1>d, <2>3
    <3>2. answered' = answered \o <<m.body.id>> /\ <<m.body.id>> \in Seq(Numbers)
      BY <1>a, <1>d, <2>1, <2>2
    <3>3. answered' \in Seq(Numbers)
      BY <1>a, <1>d, <3>2
    <3>4. answered' \o R' = answered'
      BY <1>a, <2>3, <3>3
    <3> QED BY <3>1, <3>2, <3>4
  <2>5. (answered \o <<m.body.id>>) \o L' = answered \o (<<m.body.id>> \o L')
    <3>1. answered \in Seq(Numbers)
      BY <1>d
    <3> QED BY <1>b, <2>2, <2>4, <3>1, Zenon
  <2> QED BY <1>h, <2>1, <2>2, <2>4, <2>5
<1>6. ASSUME NEW m \in ToSet(deferred \o loopQueue), Refuse(m) PROVE LineStream'
  <2>1. NextMessage(m) /\ m.type = "line" /\ ~shutdown /\ shutdown' = shutdown
        /\ answered' = answered /\ request' = m.body /\ lines' = lines
    BY <1>6 DEF Refuse, TakeLine, NextMessage
  <2> QED BY <1>h, <2>1, TakenUp DEF L, R
<1>7. ASSUME NEW m \in ToSet(deferred \o loopQueue), Initialize(m) PROVE LineStream'
  <2>1. NextMessage(m) /\ m.type = "line" /\ ~shutdown /\ shutdown' = shutdown
        /\ answered' = answered /\ request' = m.body /\ lines' = lines
    BY <1>7 DEF Initialize, TakeLine, NextMessage
  <2> QED BY <1>h, <2>1, TakenUp DEF L, R
<1>8. ASSUME NEW m \in ToSet(deferred \o loopQueue), BeginRequest(m) PROVE LineStream'
  <2>1. NextMessage(m) /\ m.type = "line" /\ ~shutdown /\ shutdown' = shutdown
        /\ answered' = answered /\ request' = m.body /\ lines' = lines
    BY <1>8 DEF BeginRequest, TakeLine, NextMessage
  <2> QED BY <1>h, <2>1, TakenUp DEF L, R
<1>9. ASSUME NEW m \in ToSet(deferred \o loopQueue), BeginShutdown(m) PROVE LineStream'
  BY <1>9, <1>g DEF BeginShutdown
<1>10. ASSUME NEW m \in ToSet(deferred \o loopQueue), IgnoreInput(m) PROVE LineStream'
  BY <1>10, <1>g DEF IgnoreInput
<1>11. ASSUME NEW m \in ToSet(deferred \o loopQueue), BeginBatch(m) PROVE LineStream'
  <2>1. L' = L
    BY <1>11, TakenLines DEF BeginBatch, L
  <2> QED BY <1>11, <1>h, <2>1 DEF BeginBatch, NextMessage, R, RequestInHand
<1>12. ASSUME ExtendBatch PROVE LineStream'
  <2>1. deferred = <<>> /\ loopQueue # <<>> /\ loopQueue' = Tail(loopQueue)
        /\ loopQueue \in Seq(Message) /\ loopQueue' \in Seq(Message)
    BY <1>12 DEF ExtendBatch, RequestInv, TypeOK
  <2>2. deferred \o loopQueue = loopQueue
    BY <2>1, ConcatEmptySeq
  <2>3. CASE Head(loopQueue).type = "event"
    <3>1. deferred' \o loopQueue' = loopQueue'
      BY <1>12, <2>1, <2>3, ConcatEmptySeq DEF ExtendBatch
    <3>2. LinesIn(loopQueue) = LinesIn(Tail(loopQueue))
      BY <2>1, <2>3, LinesInTail
    <3>3. L' = L
      BY <2>1, <2>2, <3>1, <3>2 DEF L
    <3> QED BY <1>12, <1>h, <3>3 DEF ExtendBatch, batchFrame, R, RequestInHand
  <2>4. CASE Head(loopQueue).type # "event"
    <3>1. deferred' = <<Head(loopQueue)>>
      BY <1>12, <2>1, <2>4 DEF ExtendBatch
    <3>2. deferred' \o loopQueue' = loopQueue
      BY <2>1, <3>1
    <3>3. L' = L
      BY <2>2, <3>2 DEF L
    <3> QED BY <1>12, <1>h, <3>3 DEF ExtendBatch, batchFrame, R, RequestInHand
  <2> QED BY <2>3, <2>4
<1>13. ASSUME Reply PROVE LineStream'
  <2>1. request \in Request /\ answered' = Append(answered, request.id)
        /\ request' = NoRequest
    BY <1>13 DEF Reply, RequestInv
  <2>2. request.id \in Numbers /\ R = <<request.id>> /\ R' = <<>>
    BY <1>e, <2>1 DEF R, RequestInHand
  <2>3. answered' \o R' = answered \o R
    <3>1. answered' = answered \o R /\ answered \o R \in Seq(Numbers)
      BY <1>a, <1>d, <2>1, <2>2
    <3> QED BY <1>a, <2>2, <3>1
  <2>4. L' = L /\ lines' = lines /\ shutdown' = shutdown
    BY <1>13 DEF Reply, L
  <2> QED BY <1>h, <2>3, <2>4
<1>14. CASE
        \/ Carry \/ ForwarderEnds
        \/ \E terminal \in BOOLEAN : Emit(terminal) \/ SendLive \/ Die
        \/ CloseBatch \/ WriteBatch \/ DropRun \/ DrainNothing \/ Join
        \/ StartRun \/ RefuseTurn \/ RefuseApproval \/ CancelRun
        \/ SteerRun \/ ReadLog \/ Resume \/ DeleteRun \/ ShutdownRun
        \/ WriteFails \/ Return \/ BreakPipe \/ UNCHANGED vars
  <2>1. UNCHANGED <<answered, request, deferred, loopQueue, lines, shutdown>>
    BY <1>14 DEF Carry, ForwarderEnds, Emit, SendLive, Die, CloseBatch, batchFrame,
         WriteBatch, DropRun, RunIsOver, handlerFrame, DrainNothing, Join,
         StartRun, SpawnRun, Handle, RefuseTurn, runFrame, RefuseApproval,
         CancelRun, SteerRun, ReadLog, Resume, DeleteRun, ShutdownRun,
         WriteFails, CancelActive, Return, BreakPipe, vars
  <2> QED BY <2>1, <1>h DEF L, R, RequestInHand
<1> QED
  BY <1>1, <1>2, <1>3, <1>4, <1>5, <1>6, <1>7, <1>8, <1>9, <1>10, <1>11,
     <1>12, <1>13, <1>14
  DEF Next, ReaderStep, ForwarderStep, WorkerStep, MainStep, Receive, Terminated

(* What was written and the batch in hand are the beginning of the stream. *)
LEMMA StreamParts ==
  ASSUME TypeOK, EventStream
  PROVE  \E rest \in Seq(Event) : emitted = written \o batch \o rest
<1> DEFINE E == EventsIn(loopQueue)
           C == InHand(carried)
           S == InHand(sending)
           W == written \o batch
<1>1. /\ E \in Seq(Event) /\ C \in Seq(Event) /\ liveQueue \in Seq(Event)
      /\ S \in Seq(Event) /\ W \in Seq(Event)
  <2>1. \A e \in Event \cup {None} : InHand(e) \in Seq(Event)
    BY DEF InHand
  <2>2. \A q \in Seq(Message), m \in Message : EventsIn(q) \in Seq(Event)
    BY EventsInAppend
  <2> QED BY <2>1, <2>2, MessageIntro DEF TypeOK
<1>2. emitted = W \o E \o C \o liveQueue \o S
  BY DEF EventStream
<1> HIDE DEF E, C, S, W
<1>3. \A a, b, c \in Seq(Event) : (a \o b) \o c = a \o (b \o c)
  BY ConcatFacts
<1> DEFINE R2 == E \o C
           R3 == R2 \o liveQueue
           R4 == R3 \o S
<1>4. R2 \in Seq(Event) /\ R3 \in Seq(Event) /\ R4 \in Seq(Event)
  BY <1>1
<1> HIDE DEF R2, R3, R4
<1>5. (W \o E) \o C = W \o R2
  BY <1>1, <1>3 DEF R2
<1>6. (W \o R2) \o liveQueue = W \o R3
  BY SMTT(60), <1>1, <1>3, <1>4 DEF R3
<1>7. (W \o R3) \o S = W \o R4
  BY SMTT(60), <1>1, <1>3, <1>4 DEF R4
<1> QED BY <1>2, <1>4, <1>5, <1>6, <1>7 DEF W

(* The events of a batch are of a run that was started.                    *)
LEMMA BatchTurns ==
  ASSUME TypeOK, EmittedInv, EventStream, NEW i \in DOMAIN batch
  PROVE  batch[i].turn \in 1..turn
<1>1. PICK rest \in Seq(Event) : emitted = written \o batch \o rest
  BY StreamParts
<1>2. written \in Seq(Event) /\ batch \in Seq(Event)
  BY DEF TypeOK
<1>3. Len(written) + i \in DOMAIN emitted /\ emitted[Len(written) + i] = batch[i]
  BY <1>1, <1>2, Middle
<1>4. batch[i].turn <= turn
  BY <1>3 DEF EmittedInv
<1>5. batch[i] \in Event
  BY <1>2
<1>6. batch[i].turn \in 1..MaxTurns
  BY <1>5, EventFacts
<1> QED BY SMTT(30), <1>4, <1>6, StdioAssumption DEF TypeOK

(* Runs are accepted before their events are written.                      *)
LEMMA AcceptStep ==
  TypeOK /\ RequestInv /\ RunInv /\ EmittedInv /\ EventStream /\ AcceptInv /\ [Next]_vars
    => AcceptInv'
<1> SUFFICES ASSUME TypeOK, RequestInv, RunInv, EmittedInv, EventStream, AcceptInv,
                    [Next]_vars
             PROVE  AcceptInv'
  OBVIOUS
<1> USE DEF readerVars, forwarderVars, workerVars, mainVars, serverVars, queues
<1>1. ASSUME NEW line \in Lines, ReadLine(line) PROVE AcceptInv'
  BY <1>1 DEF ReadLine, AcceptInv, ReplyBeforeEvents
<1>2. ASSUME ReadFails PROVE AcceptInv'
  BY <1>2 DEF ReadFails, AcceptInv, ReplyBeforeEvents
<1>3. ASSUME ReadEof PROVE AcceptInv'
  BY <1>3 DEF ReadEof, AcceptInv, ReplyBeforeEvents
<1>4. ASSUME Carry PROVE AcceptInv'
  BY <1>4 DEF Carry, AcceptInv, ReplyBeforeEvents
<1>5. ASSUME Forward PROVE AcceptInv'
  BY <1>5 DEF Forward, AcceptInv, ReplyBeforeEvents
<1>6. ASSUME ForwarderEnds PROVE AcceptInv'
  BY <1>6 DEF ForwarderEnds, AcceptInv, ReplyBeforeEvents
<1>7. ASSUME NEW terminal \in BOOLEAN, Emit(terminal) PROVE AcceptInv'
  BY <1>7 DEF Emit, AcceptInv, ReplyBeforeEvents
<1>8. ASSUME SendLive PROVE AcceptInv'
  BY <1>8 DEF SendLive, AcceptInv, ReplyBeforeEvents
<1>9. ASSUME Die PROVE AcceptInv'
  BY <1>9 DEF Die, AcceptInv, ReplyBeforeEvents
<1>10. ASSUME NEW m \in ToSet(deferred \o loopQueue), Skip(m) PROVE AcceptInv'
  BY <1>10 DEF Skip, TakeLine, NextMessage, AcceptInv, ReplyBeforeEvents
<1>11. ASSUME NEW m \in ToSet(deferred \o loopQueue), Refuse(m) PROVE AcceptInv'
  BY <1>11 DEF Refuse, TakeLine, NextMessage, AcceptInv, ReplyBeforeEvents
<1>12. ASSUME NEW m \in ToSet(deferred \o loopQueue), Initialize(m) PROVE AcceptInv'
  BY <1>12 DEF Initialize, TakeLine, NextMessage, AcceptInv, ReplyBeforeEvents
<1>13. ASSUME NEW m \in ToSet(deferred \o loopQueue), BeginRequest(m) PROVE AcceptInv'
  BY <1>13 DEF BeginRequest, TakeLine, NextMessage, AcceptInv, ReplyBeforeEvents
<1>14. ASSUME NEW m \in ToSet(deferred \o loopQueue), BeginShutdown(m) PROVE AcceptInv'
  BY <1>14 DEF BeginShutdown, NextMessage, AcceptInv, ReplyBeforeEvents
<1>15. ASSUME NEW m \in ToSet(deferred \o loopQueue), IgnoreInput(m) PROVE AcceptInv'
  BY <1>15 DEF IgnoreInput, NextMessage, AcceptInv, ReplyBeforeEvents
<1>16. ASSUME NEW m \in ToSet(deferred \o loopQueue), BeginBatch(m) PROVE AcceptInv'
  BY <1>16 DEF BeginBatch, NextMessage, AcceptInv, ReplyBeforeEvents
<1>17. ASSUME ExtendBatch PROVE AcceptInv'
  BY <1>17 DEF ExtendBatch, batchFrame, AcceptInv, ReplyBeforeEvents
<1>18. ASSUME CloseBatch PROVE AcceptInv'
  BY <1>18 DEF CloseBatch, batchFrame, AcceptInv, ReplyBeforeEvents
<1>19. ASSUME WriteBatch PROVE AcceptInv'
  <2>1. \A r \in 1..turn : r \in accepted
    BY <1>19 DEF WriteBatch, AcceptInv
  <2>2. \A i \in DOMAIN batch : batch[i].turn \in accepted
    BY <2>1, BatchTurns
  <2>3. \A i \in DOMAIN written' : written'[i].turn \in accepted
    <3>1. written' = written \o batch /\ written \in Seq(Event) /\ batch \in Seq(Event)
      BY <1>19 DEF WriteBatch, TypeOK
    <3>2. \A i \in DOMAIN written : written[i].turn \in accepted
      BY DEF AcceptInv, ReplyBeforeEvents
    <3>3. \A a, b \in Seq(Event) : \A i \in DOMAIN (a \o b) :
            \/ i \in DOMAIN a /\ (a \o b)[i] = a[i]
            \/ i - Len(a) \in DOMAIN b /\ (a \o b)[i] = b[i - Len(a)]
      OBVIOUS
    <3> QED BY <2>2, <3>1, <3>2, <3>3
  <2> QED BY <1>19, <2>1, <2>3 DEF WriteBatch, AcceptInv, ReplyBeforeEvents
<1>20. ASSUME DropRun PROVE AcceptInv'
  BY <1>20 DEF DropRun, RunIsOver, handlerFrame, AcceptInv, ReplyBeforeEvents
<1>21. ASSUME DrainNothing PROVE AcceptInv'
  BY <1>21 DEF DrainNothing, RunIsOver, handlerFrame, AcceptInv, ReplyBeforeEvents
<1>22. ASSUME Join PROVE AcceptInv'
  BY <1>22 DEF Join, handlerFrame, AcceptInv, ReplyBeforeEvents
<1>23. ASSUME StartRun PROVE AcceptInv'
  <2>1. \A r \in 1..turn : r \in accepted
    BY <1>23 DEF StartRun, Handle, AcceptInv
  <2>2. turn' = turn + 1 /\ turn \in Nat /\ accepted' = accepted /\ written' = written
        /\ mainPc' = "replying" /\ request'.method = "sendTurn"
    BY <1>23 DEF StartRun, SpawnRun, Handle, handlerFrame, TypeOK
  <2>3. ~refused'
    BY <1>23 DEF StartRun, Handle, RequestInv
  <2>4. \A r \in 1..turn' : r \in accepted \/ r = turn'
    BY <2>1, <2>2
  <2> QED BY <2>2, <2>3, <2>4 DEF AcceptInv, ReplyBeforeEvents
<1>24. ASSUME RefuseTurn PROVE AcceptInv'
  BY <1>24 DEF RefuseTurn, Handle, handlerFrame, runFrame, AcceptInv, ReplyBeforeEvents
<1>25. ASSUME RefuseApproval PROVE AcceptInv'
  BY <1>25 DEF RefuseApproval, Handle, handlerFrame, runFrame, AcceptInv, ReplyBeforeEvents
<1>26. ASSUME CancelRun PROVE AcceptInv'
  BY <1>26 DEF CancelRun, Handle, handlerFrame, AcceptInv, ReplyBeforeEvents
<1>27. ASSUME SteerRun PROVE AcceptInv'
  BY <1>27 DEF SteerRun, Handle, handlerFrame, runFrame, AcceptInv, ReplyBeforeEvents
<1>28. ASSUME ReadLog PROVE AcceptInv'
  BY <1>28 DEF ReadLog, Handle, handlerFrame, runFrame, AcceptInv, ReplyBeforeEvents
<1>29. ASSUME Resume PROVE AcceptInv'
  BY <1>29 DEF Resume, Handle, handlerFrame, AcceptInv, ReplyBeforeEvents
<1>30. ASSUME DeleteRun PROVE AcceptInv'
  BY <1>30 DEF DeleteRun, Handle, handlerFrame, AcceptInv, ReplyBeforeEvents
<1>31. ASSUME ShutdownRun PROVE AcceptInv'
  BY <1>31 DEF ShutdownRun, handlerFrame, AcceptInv, ReplyBeforeEvents
<1>32. ASSUME Reply PROVE AcceptInv'
  BY <1>32 DEF Reply, AcceptInv, ReplyBeforeEvents
<1>33. ASSUME WriteFails PROVE AcceptInv'
  BY <1>33 DEF WriteFails, CancelActive, handlerFrame, AcceptInv, ReplyBeforeEvents
<1>34. ASSUME Return PROVE AcceptInv'
  BY <1>34 DEF Return, handlerFrame, AcceptInv, ReplyBeforeEvents
<1>35. ASSUME BreakPipe PROVE AcceptInv'
  BY <1>35 DEF BreakPipe, AcceptInv, ReplyBeforeEvents
<1>36. ASSUME UNCHANGED vars PROVE AcceptInv'
  BY <1>36 DEF vars, AcceptInv, ReplyBeforeEvents
<1> QED
  BY <1>1, <1>2, <1>3, <1>4, <1>5, <1>6, <1>7, <1>8, <1>9, <1>10, <1>11,
       <1>12, <1>13, <1>14, <1>15, <1>16, <1>17, <1>18, <1>19, <1>20, <1>21,
       <1>22, <1>23, <1>24, <1>25, <1>26, <1>27, <1>28, <1>29, <1>30, <1>31,
       <1>32, <1>33, <1>34, <1>35, <1>36
  DEF Next, ReaderStep, ForwarderStep, WorkerStep, MainStep, Receive, Terminated

-----------------------------------------------------------------------------
(* The client and its replays.                                             *)

(* A live event is the next one of its run.                                *)
LEMMA NextOfRun ==
  ASSUME NEW p \in Seq(Event), NEW e \in Event, NEW rest \in Seq(Event),
         Complete(Append(p, e) \o rest)
  PROVE  e.seq = Len(Only(p, EventsFrom(e.turn, 1))) + 1
<1> DEFINE S == EventsFrom(e.turn, 1)
           q == Append(p, e)
<1>1. e.turn \in 1..MaxTurns /\ e.seq \in 1..MaxEvents /\ 1 \in 1..(MaxEvents + 1)
  BY EventFacts, StdioAssumption
<1>2. \A k \in DOMAIN Only(q \o rest, S) : Only(q \o rest, S)[k].seq = 1 + k - 1
  BY <1>1 DEF Complete
<1>3. q \in Seq(Event)
  OBVIOUS
<1>4. Only(q, S) = Append(Only(p, S), e)
  BY <1>1, LogAppend
<1> HIDE DEF S, q
<1>5. \A a, b \in Seq(Event) : Only(a \o b, S) = Only(a, S) \o Only(b, S)
  BY OnlyConcat
<1>6. Only(q \o rest, S) = Append(Only(p, S), e) \o Only(rest, S)
  BY <1>3, <1>4, <1>5
<1>7. Only(p, S) \in Seq(Event) /\ Only(rest, S) \in Seq(Event)
  BY OnlyEvents
<1>8. \A a, b \in Seq(Event) : Len(a) + 1 \in DOMAIN (Append(a, e) \o b)
        /\ (Append(a, e) \o b)[Len(a) + 1] = e
  OBVIOUS
<1>9. \A a \in Seq(Event) : Len(a) \in Nat
  OBVIOUS
<1> DEFINE n == Len(Only(p, S)) + 1
<1>10. n \in DOMAIN Only(q \o rest, S) /\ Only(q \o rest, S)[n] = e /\ n \in Nat
  BY <1>6, <1>7, <1>8, <1>9
<1> HIDE DEF n
<1>11. e.seq = n
  BY <1>2, <1>10
<1> QED BY <1>11 DEF n, S

(* What is seen with one more event.                                       *)
LEMMA SeenGrows ==
  ASSUME NEW c, NEW d, NEW e, d.shown = c.shown \cup {e}, NEW run
  PROVE  /\ e.turn = run => SeenBy(d, run) = SeenBy(c, run) \cup {e.seq}
         /\ e.turn # run => SeenBy(d, run) = SeenBy(c, run)
<1>1. CASE e.turn = run
  <2>1. {f \in d.shown : f.turn = run} = {f \in c.shown : f.turn = run} \cup {e}
    BY <1>1
  <2> QED BY <1>1, <2>1 DEF SeenBy
<1>2. CASE e.turn # run
  <2>1. {f \in d.shown : f.turn = run} = {f \in c.shown : f.turn = run}
    BY <1>2
  <2> QED BY <1>2, <2>1 DEF SeenBy
<1> QED BY <1>1, <1>2

(* A run stays seen without a gap.                                         *)
LEMMA SeenExtends ==
  ASSUME NEW k \in 0..MaxEvents, NEW s \in 1..MaxEvents, s <= k + 1
  PROVE  \E l \in 0..MaxEvents : k <= l /\ s <= l /\ (1..k) \cup {s} = 1..l
<1>0. MaxEvents \in Nat
  BY StdioAssumption
<1>1. CASE s = k + 1
  <2>1. (1..k) \cup {s} = 1..s
    BY <1>0, <1>1
  <2> QED BY <1>0, <1>1, <2>1
<1>2. CASE s <= k
  <2>1. (1..k) \cup {s} = 1..k
    BY <1>0, <1>2
  <2> QED BY <1>0, <1>2, <2>1
<1> QED BY <1>0, <1>1, <1>2

(* The client receives the next live event.                                *)
LEMMA MarkLive ==
  ASSUME NEW c \in Client, NEW p \in Seq(Event), NEW e \in Event,
         Follows(c, p), e.seq = Len(Only(p, EventsFrom(e.turn, 1))) + 1
  PROVE  Follows(MarkReplayEvent(c, e), Append(p, e))
<1> DEFINE d == MarkReplayEvent(c, e)
           q == Append(p, e)
           N(s, run) == Len(Only(s, EventsFrom(run, 1)))
<1>1. /\ d.shown = c.shown \cup {e}
      /\ d.acted = c.acted \/ d.acted = Append(c.acted, e)
      /\ c.acted \in Seq(Event)
  BY MarkFacts DEF Client
<1>2. e.seq \in 1..MaxEvents /\ e.turn \in 1..MaxTurns
  BY EventFacts
<1>3. \A run : /\ N(p, run) \in Nat
               /\ e.turn = run => N(q, run) = N(p, run) + 1
               /\ e.turn # run => N(q, run) = N(p, run)
  <2> TAKE run
  <2>1. Only(p, EventsFrom(run, 1)) \in Seq(Event)
    BY OnlyEvents
  <2>2. /\ e.turn = run /\ 1 <= e.seq =>
             Only(q, EventsFrom(run, 1)) = Append(Only(p, EventsFrom(run, 1)), e)
        /\ ~(e.turn = run /\ 1 <= e.seq) =>
             Only(q, EventsFrom(run, 1)) = Only(p, EventsFrom(run, 1))
    BY LogAppend
  <2> QED BY <1>2, <2>1, <2>2
<1>4. \A run \in 1..MaxTurns :
        /\ \E k \in 0..MaxEvents : N(p, run) <= k /\ SeenBy(c, run) = 1..k
        /\ \A i \in DOMAIN c.acted :
             c.acted[i].turn = run => c.acted[i].seq <= N(p, run)
  BY DEF Follows, FollowsRun
<1>5. InOrder(c)
  BY DEF Follows
<1>6. e.seq = N(p, e.turn) + 1
  OBVIOUS
<1>7. \A i \in DOMAIN c.acted : c.acted[i].seq \in Nat /\ c.acted[i].turn \in 1..MaxTurns
  <2>1. \A i \in DOMAIN c.acted : c.acted[i] \in Event
    BY <1>1
  <2> QED BY <2>1, EventFacts
<1>8. ASSUME NEW i \in DOMAIN d.acted
      PROVE  \/ i \in DOMAIN c.acted /\ d.acted[i] = c.acted[i]
             \/ i = Len(c.acted) + 1 /\ d.acted[i] = e
  BY SMTT(30), <1>1
<1>9. \A i \in DOMAIN c.acted : i < Len(c.acted) + 1 /\ i \in Nat
  BY <1>1
<1> HIDE DEF d, q, N
<1>k. ASSUME NEW run \in 1..MaxTurns
      PROVE  \E k \in 0..MaxEvents : N(q, run) <= k /\ SeenBy(d, run) = 1..k
  <2>1. PICK k \in 0..MaxEvents : N(p, run) <= k /\ SeenBy(c, run) = 1..k
    BY <1>4
  <2>2. CASE e.turn = run
    <3>1. SeenBy(d, run) = (1..k) \cup {e.seq}
      BY <1>1, <2>1, <2>2, SeenGrows
    <3>2. e.seq <= k + 1 /\ N(q, run) = e.seq
      BY <1>2, <1>3, <1>6, <2>1, <2>2
    <3>3. PICK l \in 0..MaxEvents : k <= l /\ e.seq <= l /\ (1..k) \cup {e.seq} = 1..l
      BY <1>2, <3>2, SeenExtends
    <3> QED BY <3>1, <3>2, <3>3
  <2>3. CASE e.turn # run
    <3>1. SeenBy(d, run) = SeenBy(c, run)
      BY <1>1, <2>3, SeenGrows
    <3> QED BY <1>3, <2>1, <2>3, <3>1
  <2> QED BY <2>2, <2>3
<1>l. ASSUME NEW run \in 1..MaxTurns, NEW i \in DOMAIN d.acted, d.acted[i].turn = run
      PROVE  d.acted[i].seq <= N(q, run)
  <2>1. CASE i \in DOMAIN c.acted /\ d.acted[i] = c.acted[i]
    <3>1. c.acted[i].seq <= N(p, run) /\ c.acted[i].seq \in Nat
      BY <1>4, <1>7, <1>l, <2>1
    <3>2. N(p, run) \in Nat /\ (N(q, run) = N(p, run) \/ N(q, run) = N(p, run) + 1)
      BY <1>3
    <3> QED BY <2>1, <3>1, <3>2
  <2>2. CASE d.acted[i] = e
    <3>1. N(q, run) = e.seq
      BY <1>3, <1>6, <1>l, <2>2
    <3> QED BY <1>2, <2>2, <3>1
  <2> QED BY <1>8, <2>1, <2>2
<1>m. InOrder(d)
  <2> SUFFICES ASSUME NEW i \in DOMAIN d.acted, NEW j \in DOMAIN d.acted, i < j,
                      d.acted[i].turn = d.acted[j].turn
               PROVE  d.acted[i].seq < d.acted[j].seq
    BY DEF InOrder
  <2>1. CASE j \in DOMAIN c.acted /\ d.acted[j] = c.acted[j]
    <3>1. i \in DOMAIN c.acted /\ d.acted[i] = c.acted[i]
      BY <1>1, <1>8, <1>9, <2>1
    <3> QED BY <1>5, <2>1, <3>1 DEF InOrder
  <2>2. CASE j = Len(c.acted) + 1 /\ d.acted[j] = e
    <3>1. i \in DOMAIN c.acted /\ d.acted[i] = c.acted[i]
      BY <1>1, <1>8, <2>2
    <3>2. c.acted[i].seq <= N(p, e.turn) /\ c.acted[i].seq \in Nat
      BY <1>2, <1>4, <1>7, <2>2, <3>1
    <3>3. N(p, e.turn) \in Nat
      BY <1>3
    <3> QED BY <1>6, <2>2, <3>1, <3>2, <3>3
  <2> QED BY <1>8, <2>1, <2>2
<1> QED BY <1>k, <1>l, <1>m DEF Follows, FollowsRun, d, q, N

(* The client receives an event of a replay: one below the bound, that     *)
(* follows an event it has seen.                                           *)
LEMMA MarkReplay ==
  ASSUME NEW c \in Client, NEW p \in Seq(Event), NEW e \in Event,
         Follows(c, p), c.bounds[e.turn] > e.seq,
         e.seq - 1 \in SeenBy(c, e.turn) \cup {0}
  PROVE  /\ Follows(MarkReplayEvent(c, e), p)
         /\ MarkReplayEvent(c, e).bounds = c.bounds
         /\ e.seq \in SeenBy(MarkReplayEvent(c, e), e.turn)
<1> DEFINE d == MarkReplayEvent(c, e)
<1>1. d.shown = c.shown \cup {e} /\ d.acted = c.acted /\ d.bounds = c.bounds
  BY MarkFacts
<1>2. e.seq \in 1..MaxEvents /\ e.turn \in 1..MaxTurns
  BY EventFacts
<1> HIDE DEF d
<1>3. e.seq \in SeenBy(d, e.turn)
  BY <1>1, SeenGrows
<1>4. ASSUME NEW run \in 1..MaxTurns PROVE FollowsRun(d, p, run)
  <2>1. FollowsRun(c, p, run)
    BY DEF Follows
  <2>2. PICK k \in 0..MaxEvents :
          Len(Only(p, EventsFrom(run, 1))) <= k /\ SeenBy(c, run) = 1..k
    BY <2>1 DEF FollowsRun
  <2>3. \E l \in 0..MaxEvents :
          Len(Only(p, EventsFrom(run, 1))) <= l /\ SeenBy(d, run) = 1..l
    <3>1. CASE e.turn = run
      <4>1. SeenBy(d, run) = (1..k) \cup {e.seq}
        BY <1>1, <2>2, <3>1, SeenGrows
      <4>2. e.seq <= k + 1
        BY <1>2, <2>2, <3>1, StdioAssumption
      <4>3. PICK l \in 0..MaxEvents : k <= l /\ (1..k) \cup {e.seq} = 1..l
        BY <1>2, <4>2, SeenExtends
      <4>4. Only(p, EventsFrom(run, 1)) \in Seq(Event)
        BY OnlyEvents
      <4>5. Len(Only(p, EventsFrom(run, 1))) \in Nat
        BY <4>4
      <4>6. Len(Only(p, EventsFrom(run, 1))) <= l
        BY <2>2, <4>3, <4>5, StdioAssumption
      <4> QED BY <4>1, <4>3, <4>6
    <3>2. CASE e.turn # run
      <4>1. SeenBy(d, run) = SeenBy(c, run)
        BY <1>1, <3>2, SeenGrows
      <4> QED BY <2>2, <4>1
    <3> QED BY <3>1, <3>2
  <2> QED BY <1>1, <2>1, <2>3 DEF FollowsRun
<1>5. InOrder(d)
  BY <1>1 DEF Follows, InOrder
<1> QED BY <1>1, <1>3, <1>4, <1>5 DEF Follows, d

(* A batch reaches the client.                                             *)
LEMMA DispatchLive ==
  ASSUME TypeOK, EmittedInv, EventStream, Follows(client, written)
  PROVE  /\ Follows(DispatchEvents(client, batch), written \o batch)
         /\ client.shown \subseteq DispatchEvents(client, batch).shown
<1> DEFINE P(n) == written \o SubSeq(batch, 1, n)
           T == [n \in Nat |-> {d \in Client : /\ Follows(d, P(n))
                                               /\ client.shown \subseteq d.shown}]
<1>1. written \in Seq(Event) /\ batch \in Seq(Event) /\ client \in Client
      /\ Len(batch) \in Nat
  BY DEF TypeOK, Client
<1>2. P(0) = written /\ P(Len(batch)) = written \o batch
  <2>1. SubSeq(batch, 1, 0) = <<>> /\ SubSeq(batch, 1, Len(batch)) = batch
    BY <1>1
  <2> QED BY <1>1, <2>1
<1>3. ASSUME NEW n \in 0..(Len(batch) - 1)
      PROVE  /\ P(n) \in Seq(Event) /\ batch[n + 1] \in Event /\ n \in Nat /\ n + 1 \in Nat
             /\ P(n + 1) = Append(P(n), batch[n + 1])
             /\ \E rest \in Seq(Event) : emitted = P(n + 1) \o rest
  <2>1. /\ SubSeq(batch, 1, n) \in Seq(Event) /\ SubSeq(batch, 1, n + 1) \in Seq(Event)
        /\ SubSeq(batch, n + 2, Len(batch)) \in Seq(Event)
        /\ batch[n + 1] \in Event /\ n \in Nat /\ n + 1 \in Nat
    BY <1>1
  <2>2. SubSeq(batch, 1, n + 1) = Append(SubSeq(batch, 1, n), batch[n + 1])
    BY <1>1
  <2>3. batch = SubSeq(batch, 1, n + 1) \o SubSeq(batch, n + 2, Len(batch))
    <3>1. /\ 1 \in 1..(Len(batch) + 1) /\ n + 1 \in 0..Len(batch)
          /\ Len(batch) \in (n + 1)..Len(batch) /\ (n + 1) + 1 = n + 2 /\ 1 - 1 = 0
      BY <1>1
    <3>2. SubSeq(batch, 1, Len(batch))
            = SubSeq(batch, 1, n + 1) \o SubSeq(batch, (n + 1) + 1, Len(batch))
      BY <1>1, <3>1, ConcatAdjacentSubSeq
    <3> QED BY <1>1, <3>1, <3>2, SubSeqFull
  <2>4. PICK rest \in Seq(Event) : emitted = written \o batch \o rest
    BY StreamParts
  <2> DEFINE a == SubSeq(batch, 1, n + 1)
             b == SubSeq(batch, n + 2, Len(batch))
  <2>5. \A x, y, z \in Seq(Event) : (x \o y) \o z = x \o (y \o z)
    BY ConcatFacts
  <2>6. written \o SubSeq(batch, 1, n + 1) = Append(written \o SubSeq(batch, 1, n), batch[n + 1])
    <3>1. \A x, y \in Seq(Event), e \in Event : x \o Append(y, e) = Append(x \o y, e)
      OBVIOUS
    <3> QED BY <1>1, <2>1, <2>2, <3>1
  <2>7. a \in Seq(Event) /\ b \in Seq(Event) /\ batch = a \o b
    BY <2>1, <2>3
  <2> HIDE DEF a, b
  <2>8. (written \o a) \o b = written \o batch
    BY SMTT(30), <1>1, <2>5, <2>7
  <2>9. written \o a \in Seq(Event) /\ b \o rest \in Seq(Event)
    BY <1>1, <2>7
  <2>10. ((written \o a) \o b) \o rest = (written \o a) \o (b \o rest)
    BY SMTT(30), <2>5, <2>7, <2>9
  <2>11. emitted = (written \o a) \o (b \o rest)
    BY <2>4, <2>8, <2>10
  <2>12. \E r \in Seq(Event) : emitted = (written \o a) \o r
    BY <2>9, <2>11
  <2>13. \E r \in Seq(Event) : emitted = P(n + 1) \o r
    BY <2>12 DEF a
  <2>14. P(n) \in Seq(Event) /\ P(n + 1) = Append(P(n), batch[n + 1])
    BY <1>1, <2>1, <2>6
  <2> QED BY <2>1, <2>13, <2>14
<1> HIDE DEF P
<1>4. \A n \in Nat : T[n] = {d \in Client : Follows(d, P(n)) /\ client.shown \subseteq d.shown}
  OBVIOUS
<1> HIDE DEF T
<1>5. client \in T[0]
  BY <1>1, <1>2, <1>4
<1>6. \A n \in 0..(Len(batch) - 1) : \A d \in T[n] :
        MarkReplayEvent(d, batch[n + 1]) \in T[n + 1]
  <2> TAKE n \in 0..(Len(batch) - 1)
  <2> DEFINE e == batch[n + 1]
  <2>1. /\ P(n) \in Seq(Event) /\ e \in Event /\ n \in Nat /\ n + 1 \in Nat
        /\ P(n + 1) = Append(P(n), e)
    BY <1>3
  <2>2. PICK rest \in Seq(Event) : emitted = P(n + 1) \o rest
    BY <1>3
  <2> HIDE DEF e
  <2>3. e.seq = Len(Only(P(n), EventsFrom(e.turn, 1))) + 1
    <3>1. Complete(Append(P(n), e) \o rest)
      BY <2>1, <2>2 DEF EmittedInv
    <3> QED BY <2>1, <3>1, NextOfRun
  <2>4. ASSUME NEW d \in Client, Follows(d, P(n)), client.shown \subseteq d.shown
        PROVE  /\ MarkReplayEvent(d, e) \in Client
               /\ Follows(MarkReplayEvent(d, e), P(n + 1))
               /\ client.shown \subseteq MarkReplayEvent(d, e).shown
    <3>1. Follows(MarkReplayEvent(d, e), Append(P(n), e))
      BY <2>1, <2>3, <2>4, MarkLive
    <3>2. MarkReplayEvent(d, e) \in Client /\ MarkReplayEvent(d, e).shown = d.shown \cup {e}
      BY <2>1, MarkFacts
    <3> QED BY <2>1, <2>4, <3>1, <3>2
  <2> QED BY <1>4, <2>1, <2>4 DEF e
<1>7. DispatchEvents(client, batch) \in T[Len(batch)]
  BY <1>1, <1>5, <1>6, DispatchInduction
<1> QED BY <1>1, <1>2, <1>4, <1>7

(* A response and the replay behind it reach the client.                   *)
LEMMA DispatchReplay ==
  ASSUME TypeOK, RequestInv, ClientInv, mainPc = "replying"
  PROVE  LET c == DispatchEvents(MarkReplayRange(client, request.run, replay),
                                 replay.events)
         IN  Follows(c, written) /\ client.shown \subseteq c.shown
<1>1. replay.events \in Seq(Event) /\ client \in Client /\ written \in Seq(Event)
      /\ request \in Request /\ Follows(client, written)
  BY DEF TypeOK, Client, RequestInv, ClientInv
<1>2. CASE replay.events = <<>>
  <2> DEFINE T == [n \in Nat |-> {client}]
  <2>1. MarkReplayRange(client, request.run, replay) = client
    BY <1>2 DEF MarkReplayRange
  <2>2. T[0] = {client} /\ Len(<<>>) = 0 /\ <<>> \in Seq(Event)
    OBVIOUS
  <2> HIDE DEF T
  <2>3. \A n \in 0..(Len(<<>>) - 1) : \A d \in T[n] :
          MarkReplayEvent(d, <<>>[n + 1]) \in T[n + 1]
    BY <2>2
  <2>4. DispatchEvents(client, <<>>) \in T[Len(<<>>)]
    BY <2>2, <2>3, DispatchInduction
  <2>5. DispatchEvents(client, <<>>) = client
    BY <2>2, <2>4
  <2> QED BY <1>1, <1>2, <2>1, <2>5
<1>3. CASE replay.events # <<>>
  <2> DEFINE run  == request.run
             from == request.from
             c    == MarkReplayRange(client, run, replay)
             T    == [n \in Nat |->
                        {d \in Client :
                           /\ Follows(d, written) /\ client.shown \subseteq d.shown
                           /\ d.bounds[run] = replay.next
                           /\ from + n - 1 \in SeenBy(d, run) \cup {0}}]
  <2>1. /\ run \in 1..MaxTurns /\ from > 0 /\ from \in Nat
        /\ from - 1 \in SeenBy(client, run) \cup {0}
    <3>1. replay # NoReplay
      BY <1>3 DEF NoReplay
    <3>2. request.method = "resume"
      BY <3>1 DEF RequestInv
    <3> QED BY <1>1, <3>2, StdioAssumption DEF ClientInv, Reachable, Request
  <2>2. c \in Client
    BY RangeType
  <2>3. c.shown = client.shown /\ c.acted = client.acted /\ c.bounds[run] = replay.next
    <3>1. c = [client EXCEPT !.bounds[run] = replay.next]
      BY <1>3 DEF MarkReplayRange
    <3> QED BY <1>1, <2>1, <3>1 DEF Client
  <2> HIDE DEF c
  <2>4. \A r : SeenBy(c, r) = SeenBy(client, r)
    BY <2>3 DEF SeenBy
  <2>5. Follows(c, written)
    BY <1>1, <2>3, <2>4 DEF Follows, FollowsRun, InOrder
  <2>6. \A n \in Nat : T[n] = {d \in Client :
                           /\ Follows(d, written) /\ client.shown \subseteq d.shown
                           /\ d.bounds[run] = replay.next
                           /\ from + n - 1 \in SeenBy(d, run) \cup {0}}
    OBVIOUS
  <2> HIDE DEF T, run, from
  <2>7. c \in T[0]
    <3>1. from + 0 - 1 = from - 1
      BY <2>1
    <3> QED BY <2>1, <2>2, <2>3, <2>4, <2>5, <2>6, <3>1
  <2>8. \A n \in 0..(Len(replay.events) - 1) : \A d \in T[n] :
          MarkReplayEvent(d, replay.events[n + 1]) \in T[n + 1]
    <3> TAKE n \in 0..(Len(replay.events) - 1)
    <3> TAKE d \in T[n]
    <3> DEFINE e == replay.events[n + 1]
               f == MarkReplayEvent(d, e)
    <3>1. n \in Nat /\ n + 1 \in Nat /\ n + 1 \in DOMAIN replay.events /\ e \in Event
      BY <1>1
    <3>2. e.turn = run /\ e.seq = from + (n + 1) - 1 /\ e.seq < replay.next
      BY <3>1 DEF ClientInv, ReplayInv, run, from
    <3>3. e.seq - 1 = from + n - 1 /\ e.seq = from + n
      BY <2>1, <3>1, <3>2
    <3>4. /\ d \in Client /\ Follows(d, written) /\ client.shown \subseteq d.shown
          /\ d.bounds[run] = replay.next /\ from + n - 1 \in SeenBy(d, run) \cup {0}
      BY <2>6, <3>1
    <3> HIDE DEF e
    <3>5. d.bounds[e.turn] > e.seq /\ e.seq - 1 \in SeenBy(d, e.turn) \cup {0}
      <4>1. replay.next \in Nat /\ e.seq \in Nat
        BY SMTT(30), <3>1, EventFacts DEF TypeOK
      <4> QED BY <3>2, <3>3, <3>4, <4>1
    <3>6. Follows(f, written) /\ f.bounds = d.bounds /\ e.seq \in SeenBy(f, e.turn)
      BY <1>1, <3>1, <3>4, <3>5, MarkReplay
    <3>7. f \in Client /\ f.shown = d.shown \cup {e}
      BY <3>1, <3>4, MarkFacts
    <3> HIDE DEF f
    <3>8. f \in T[n + 1]
      BY <2>6, <3>1, <3>2, <3>4, <3>6, <3>7
    <3> QED BY <3>8 DEF f, e
  <2>9. DispatchEvents(c, replay.events) \in T[Len(replay.events)]
    BY <1>1, <2>7, <2>8, DispatchInduction
  <2>10. Len(replay.events) \in Nat
    BY <1>1
  <2>11. /\ Follows(DispatchEvents(c, replay.events), written)
         /\ client.shown \subseteq DispatchEvents(c, replay.events).shown
    BY <2>6, <2>9, <2>10
  <2> QED BY <2>11 DEF c, run
<1> QED BY <1>2, <1>3

(* What a client may ask for stays so.                                     *)
LEMMA ReachableGrows ==
  ASSUME NEW c, NEW d, c.shown \subseteq d.shown
  PROVE  /\ \A line : Reachable(c, line) => Reachable(d, line)
         /\ \A queue : ReachableIn(c, queue) => ReachableIn(d, queue)
<1>1. \A run : SeenBy(c, run) \subseteq SeenBy(d, run)
  BY DEF SeenBy
<1>2. \A line : Reachable(c, line) => Reachable(d, line)
  BY <1>1 DEF Reachable
<1> QED BY <1>2 DEF ReachableIn

(* A line that the client may send enters a queue                          *)
LEMMA ReachableAppend ==
  ASSUME NEW c, NEW q \in Seq(Message), ReachableIn(c, q), NEW m \in Message,
         m.type = "line" => Reachable(c, m.body)
  PROVE  ReachableIn(c, Append(q, m))
<1>1. \A i \in DOMAIN Append(q, m) :
        \/ i \in DOMAIN q /\ Append(q, m)[i] = q[i]
        \/ Append(q, m)[i] = m
  OBVIOUS
<1> QED BY <1>1 DEF ReachableIn

(* and leaves it.                                                          *)
LEMMA ReachableTail ==
  ASSUME NEW c, NEW q \in Seq(Message), ReachableIn(c, q), q # <<>>
  PROVE  /\ ReachableIn(c, Tail(q))
         /\ Head(q).type = "line" => Reachable(c, Head(q).body)
<1>1. \A i \in DOMAIN Tail(q) : i + 1 \in DOMAIN q /\ Tail(q)[i] = q[i + 1]
  OBVIOUS
<1>2. 1 \in DOMAIN q /\ Head(q) = q[1]
  OBVIOUS
<1> QED BY <1>1, <1>2 DEF ReachableIn

(* The request loop takes a line the client could send.                    *)
LEMMA TakenReachable ==
  ASSUME TypeOK, ClientInv, NEW m, NextMessage(m)
  PROVE  /\ ReachableIn(client, deferred') /\ ReachableIn(client, loopQueue')
         /\ m.type = "line" => Reachable(client, m.body)
<1>1. deferred \in Seq(Message) /\ loopQueue \in Seq(Message)
      /\ ReachableIn(client, deferred) /\ ReachableIn(client, loopQueue)
  BY DEF TypeOK, ClientInv
<1>2. CASE deferred # <<>> /\ m = Head(deferred)
           /\ deferred' = Tail(deferred) /\ loopQueue' = loopQueue
  BY <1>1, <1>2, ReachableTail
<1>3. CASE loopQueue # <<>> /\ m = Head(loopQueue)
           /\ loopQueue' = Tail(loopQueue) /\ deferred' = deferred
  BY <1>1, <1>3, ReachableTail
<1> QED BY <1>2, <1>3 DEF NextMessage

(* It resumes a run from its beginning or from the first event it has not  *)
(* seen.                                                                   *)
LEMMA LineReachable ==
  ASSUME TypeOK, ClientInv, NEW line \in Lines
  PROVE  Reachable(client, line)
<1>1. \A run : Seen(run) = SeenBy(client, run)
  BY DEF Seen, SeenBy
<1>2. \A run \in 1..MaxTurns :
        /\ Cardinality(Seen(run)) \in Nat
        /\ Cardinality(Seen(run)) \in Seen(run) \cup {0}
  <2> TAKE run \in 1..MaxTurns
  <2>1. PICK k \in 0..MaxEvents : SeenBy(client, run) = 1..k
    BY DEF ClientInv, Follows, FollowsRun
  <2>2. k \in Nat
    BY StdioAssumption
  <2>3. Cardinality(1..k) = k
    BY <2>2, FS_Interval
  <2> QED BY <1>1, <2>1, <2>2, <2>3
<1> SUFFICES ASSUME line.method = "resume"
             PROVE  /\ line.run \in 1..MaxTurns
                    /\ line.from > 0
                    /\ line.from - 1 \in SeenBy(client, line.run) \cup {0}
  BY DEF Reachable
<1> DEFINE L(method, run, from) ==
             [id |-> lines + 1, method |-> method, run |-> run, from |-> from]
<1>3. \/ \E method \in Methods \ {"resume", "deleteRun"} : line = L(method, 0, 0)
      \/ \E run \in 1..MaxTurns : line = L("deleteRun", run, 0)
      \/ \E run \in 1..MaxTurns : \E from \in {1, Cardinality(Seen(run)) + 1} :
            line = L("resume", run, from)
  BY ZenonT(30) DEF Lines
<1>4. \E run \in 1..MaxTurns : \E from \in {1, Cardinality(Seen(run)) + 1} :
        line = L("resume", run, from)
  BY <1>3
<1>5. PICK run \in 1..MaxTurns : \E from \in {1, Cardinality(Seen(run)) + 1} :
        line = L("resume", run, from)
  BY <1>4
<1>6. PICK from \in {1, Cardinality(Seen(run)) + 1} : line = L("resume", run, from)
  BY <1>5
<1>7. line.run = run /\ line.from = from
  BY <1>6
<1>8. Cardinality(Seen(run)) \in Nat /\ Cardinality(Seen(run)) \in Seen(run) \cup {0}
  BY <1>2
<1>9. from > 0 /\ from - 1 \in Seen(run) \cup {0}
  <2>1. CASE from = 1
    BY <2>1
  <2>2. CASE from = Cardinality(Seen(run)) + 1
    BY <1>8, <2>2
  <2> QED BY <2>1, <2>2
<1> QED BY <1>1, <1>5, <1>7, <1>9

(* The log answers a request to resume.                                    *)
LEMMA ResumeReplays ==
  ASSUME TypeOK, EmittedInv, ClientInv, RequestInv, Resume
  PROVE  ReplayInv'
<1>1. request' = request /\ request.method = "resume" /\ mainPc = "acting"
  BY DEF Resume, Handle, handlerFrame
<1>2. CASE request.run \notin stored
  <2>1. replay' = NoReplay
    BY <1>2 DEF Resume
  <2> QED BY <2>1 DEF NoReplay, ReplayInv
<1>3. CASE request.run \in stored
  <2> DEFINE run  == request.run
             from == request.from
             log  == Only(emitted, EventsFrom(run, 1))
             part == Only(emitted, EventsFrom(run, from))
  <2>1. request \in Request
    BY <1>1, RequestFacts DEF TypeOK
  <2>2. run \in 1..MaxTurns /\ from \in 1..(MaxEvents + 1)
    <3>1. from \in 0..(MaxEvents + 1) /\ from > 0 /\ run \in 1..MaxTurns
      BY <1>1, <2>1 DEF ClientInv, Reachable, Request
    <3> QED BY <3>1, StdioAssumption
  <2>3. /\ from <= Len(log) => Len(part) = Len(log) - from + 1
        /\ from > Len(log) => Len(part) = 0
        /\ \A k \in DOMAIN part : part[k].seq = from + k - 1
    BY <2>2 DEF EmittedInv, Complete
  <2>4. log \in Seq(Event) /\ part \in Seq(Event) /\ part \in Seq(EventsFrom(run, from))
    BY OnlyIn DEF TypeOK
  <2>5. replay'.events = part /\ replay'.next = Len(log) + 1
    <3>1. replay' = [events |-> part, next |-> Len(log) + 1]
      BY <1>3 DEF Resume, LogOf
    <3> QED BY <3>1
  <2>6. \A e \in EventsFrom(run, from) : e.turn = run
    BY DEF EventsFrom
  <2> HIDE DEF log, part
  <2>7. Len(log) \in Nat /\ Len(part) \in Nat /\ DOMAIN part = 1..Len(part)
        /\ \A k \in DOMAIN part : part[k].turn = run
    BY <2>4, <2>6
  <2>8. ASSUME NEW k \in DOMAIN part
        PROVE  part[k].turn = run /\ part[k].seq = from + k - 1 /\ part[k].seq < Len(log) + 1
    BY <2>2, <2>3, <2>7, StdioAssumption
  <2> QED BY <1>1, <2>5, <2>8 DEF ReplayInv
<1> QED BY <1>2, <1>3

(* The client keeps up with its runs.                                      *)
LEMMA ClientStep ==
  TypeOK /\ RequestInv /\ RunInv /\ EmittedInv /\ EventStream /\ ClientInv /\ [Next]_vars
    => ClientInv'
<1> SUFFICES ASSUME TypeOK, RequestInv, RunInv, EmittedInv, EventStream, ClientInv,
                    [Next]_vars
             PROVE  ClientInv'
  OBVIOUS
<1>a. /\ Follows(client, written) /\ Reachable(client, request)
      /\ ReachableIn(client, deferred) /\ ReachableIn(client, loopQueue)
      /\ ReplayInv
  BY DEF ClientInv
<1>b. mainPc = "idle" => replay.events = <<>>
  BY DEF RequestInv, NoReplay
<1>c. replay' = replay /\ replay.events = <<>> => ReplayInv'
  BY DEF ReplayInv
<1>d. replay' = replay /\ request' = request => ReplayInv'
  BY <1>a DEF ReplayInv
<1>e. /\ Follows(client', written') /\ Reachable(client', request')
      /\ ReachableIn(client', deferred') /\ ReachableIn(client', loopQueue')
      /\ ReplayInv'
      => ClientInv'
  BY DEF ClientInv
<1>f. UNCHANGED <<client, written>> => Follows(client', written')
  BY <1>a
<1> USE DEF readerVars, forwarderVars, workerVars, mainVars, serverVars, queues
<1>1. ASSUME NEW line \in Lines, ReadLine(line) PROVE ClientInv'
  <2> DEFINE m == [type |-> "line", body |-> line]
  <2>1. m \in Message
    BY <1>1, LineIsRequest, MessageIntro DEF ReadLine
  <2>2. loopQueue' = Append(loopQueue, m)
    BY <1>1 DEF ReadLine
  <2>3. /\ client' = client /\ written' = written /\ request' = request
        /\ deferred' = deferred /\ replay' = replay
    BY <1>1 DEF ReadLine
  <2>4. m.type = "line" => Reachable(client, m.body)
    BY LineReachable
  <2> HIDE DEF m
  <2>5. ReachableIn(client, loopQueue')
    BY <1>a, <2>1, <2>2, <2>4, ReachableAppend DEF TypeOK
  <2> QED BY <1>a, <1>d, <1>e, <1>f, <2>3, <2>5
<1>2. ASSUME ReadFails PROVE ClientInv'
  <2> DEFINE m == [type |-> "readError", body |-> None]
  <2>1. m \in Message
    BY <1>2, MessageIntro DEF ReadFails
  <2>2. loopQueue' = Append(loopQueue, m)
    BY <1>2 DEF ReadFails
  <2>3. /\ client' = client /\ written' = written /\ request' = request
        /\ deferred' = deferred /\ replay' = replay
    BY <1>2 DEF ReadFails
  <2>4. m.type # "line"
    OBVIOUS
  <2> HIDE DEF m
  <2>5. ReachableIn(client, loopQueue')
    BY <1>a, <2>1, <2>2, <2>4, ReachableAppend DEF TypeOK
  <2> QED BY <1>a, <1>d, <1>e, <1>f, <2>3, <2>5
<1>3. ASSUME ReadEof PROVE ClientInv'
  <2> DEFINE m == [type |-> "eof", body |-> None]
  <2>1. m \in Message
    BY <1>3, MessageIntro DEF ReadEof
  <2>2. loopQueue' = Append(loopQueue, m)
    BY <1>3 DEF ReadEof
  <2>3. /\ client' = client /\ written' = written /\ request' = request
        /\ deferred' = deferred /\ replay' = replay
    BY <1>3 DEF ReadEof
  <2>4. m.type # "line"
    OBVIOUS
  <2> HIDE DEF m
  <2>5. ReachableIn(client, loopQueue')
    BY <1>a, <2>1, <2>2, <2>4, ReachableAppend DEF TypeOK
  <2> QED BY <1>a, <1>d, <1>e, <1>f, <2>3, <2>5
<1>4. ASSUME Forward PROVE ClientInv'
  <2> DEFINE m == RunEvent(carried)
  <2>1. m \in Message
    BY <1>4, MessageIntro DEF Forward, TypeOK
  <2>2. loopQueue' = Append(loopQueue, m)
    BY <1>4 DEF Forward
  <2>3. /\ client' = client /\ written' = written /\ request' = request
        /\ deferred' = deferred /\ replay' = replay
    BY <1>4 DEF Forward
  <2>4. m.type # "line"
    BY DEF RunEvent
  <2> HIDE DEF m
  <2>5. ReachableIn(client, loopQueue')
    BY <1>a, <2>1, <2>2, <2>4, ReachableAppend DEF TypeOK
  <2> QED BY <1>a, <1>d, <1>e, <1>f, <2>3, <2>5
<1>5. ASSUME NEW m \in ToSet(deferred \o loopQueue), Skip(m) PROVE ClientInv'
  <2>1. NextMessage(m) /\ request' = request
    BY <1>5 DEF Skip, TakeLine
  <2>2. /\ client' = client /\ written' = written /\ replay' = replay
        /\ mainPc = "idle"
    BY <2>1 DEF NextMessage
  <2>3. /\ ReachableIn(client, deferred') /\ ReachableIn(client, loopQueue')
        /\ m.type = "line" => Reachable(client, m.body)
    BY <2>1, TakenReachable
  <2>4. Reachable(client, request')
    BY <1>a, <2>1, <2>3
  <2> QED BY <1>b, <1>c, <1>e, <1>f, <2>2, <2>3, <2>4
<1>6. ASSUME NEW m \in ToSet(deferred \o loopQueue), Refuse(m) PROVE ClientInv'
  <2>1. NextMessage(m) /\ request' = m.body /\ m.type = "line"
    BY <1>6 DEF Refuse, TakeLine
  <2>2. /\ client' = client /\ written' = written /\ replay' = replay
        /\ mainPc = "idle"
    BY <2>1 DEF NextMessage
  <2>3. /\ ReachableIn(client, deferred') /\ ReachableIn(client, loopQueue')
        /\ m.type = "line" => Reachable(client, m.body)
    BY <2>1, TakenReachable
  <2>4. Reachable(client, request')
    BY <1>a, <2>1, <2>3
  <2> QED BY <1>b, <1>c, <1>e, <1>f, <2>2, <2>3, <2>4
<1>7. ASSUME NEW m \in ToSet(deferred \o loopQueue), Initialize(m) PROVE ClientInv'
  <2>1. NextMessage(m) /\ request' = m.body /\ m.type = "line"
    BY <1>7 DEF Initialize, TakeLine
  <2>2. /\ client' = client /\ written' = written /\ replay' = replay
        /\ mainPc = "idle"
    BY <2>1 DEF NextMessage
  <2>3. /\ ReachableIn(client, deferred') /\ ReachableIn(client, loopQueue')
        /\ m.type = "line" => Reachable(client, m.body)
    BY <2>1, TakenReachable
  <2>4. Reachable(client, request')
    BY <1>a, <2>1, <2>3
  <2> QED BY <1>b, <1>c, <1>e, <1>f, <2>2, <2>3, <2>4
<1>8. ASSUME NEW m \in ToSet(deferred \o loopQueue), BeginRequest(m) PROVE ClientInv'
  <2>1. NextMessage(m) /\ request' = m.body /\ m.type = "line"
    BY <1>8 DEF BeginRequest, TakeLine
  <2>2. /\ client' = client /\ written' = written /\ replay' = replay
        /\ mainPc = "idle"
    BY <2>1 DEF NextMessage
  <2>3. /\ ReachableIn(client, deferred') /\ ReachableIn(client, loopQueue')
        /\ m.type = "line" => Reachable(client, m.body)
    BY <2>1, TakenReachable
  <2>4. Reachable(client, request')
    BY <1>a, <2>1, <2>3
  <2> QED BY <1>b, <1>c, <1>e, <1>f, <2>2, <2>3, <2>4
<1>9. ASSUME NEW m \in ToSet(deferred \o loopQueue), BeginShutdown(m) PROVE ClientInv'
  <2>1. NextMessage(m) /\ request' = Shutdown
    BY <1>9 DEF BeginShutdown
  <2>2. /\ client' = client /\ written' = written /\ replay' = replay
        /\ mainPc = "idle"
    BY <2>1 DEF NextMessage
  <2>3. /\ ReachableIn(client, deferred') /\ ReachableIn(client, loopQueue')
        /\ m.type = "line" => Reachable(client, m.body)
    BY <2>1, TakenReachable
  <2>4. Reachable(client, request')
    BY <1>a, <2>1, <2>3, RequestFacts DEF Reachable
  <2> QED BY <1>b, <1>c, <1>e, <1>f, <2>2, <2>3, <2>4
<1>10. ASSUME NEW m \in ToSet(deferred \o loopQueue), IgnoreInput(m) PROVE ClientInv'
  <2>1. NextMessage(m) /\ request' = request
    BY <1>10 DEF IgnoreInput
  <2>2. /\ client' = client /\ written' = written /\ replay' = replay
        /\ mainPc = "idle"
    BY <2>1 DEF NextMessage
  <2>3. /\ ReachableIn(client, deferred') /\ ReachableIn(client, loopQueue')
        /\ m.type = "line" => Reachable(client, m.body)
    BY <2>1, TakenReachable
  <2>4. Reachable(client, request')
    BY <1>a, <2>1, <2>3
  <2> QED BY <1>b, <1>c, <1>e, <1>f, <2>2, <2>3, <2>4
<1>11. ASSUME NEW m \in ToSet(deferred \o loopQueue), BeginBatch(m) PROVE ClientInv'
  <2>1. NextMessage(m) /\ request' = request
    BY <1>11 DEF BeginBatch
  <2>2. /\ client' = client /\ written' = written /\ replay' = replay
        /\ mainPc = "idle"
    BY <2>1 DEF NextMessage
  <2>3. /\ ReachableIn(client, deferred') /\ ReachableIn(client, loopQueue')
        /\ m.type = "line" => Reachable(client, m.body)
    BY <2>1, TakenReachable
  <2>4. Reachable(client, request')
    BY <1>a, <2>1, <2>3
  <2> QED BY <1>b, <1>c, <1>e, <1>f, <2>2, <2>3, <2>4
<1>12. ASSUME ExtendBatch PROVE ClientInv'
  <2>1. loopQueue # <<>> /\ loopQueue' = Tail(loopQueue) /\ loopQueue \in Seq(Message)
    BY <1>12 DEF ExtendBatch, TypeOK
  <2>2. /\ client' = client /\ written' = written /\ replay' = replay
        /\ request' = request
    BY <1>12 DEF ExtendBatch, batchFrame
  <2>3. /\ ReachableIn(client, loopQueue')
        /\ Head(loopQueue).type = "line" => Reachable(client, Head(loopQueue).body)
    BY <1>a, <2>1, ReachableTail
  <2>4. ReachableIn(client, deferred')
    <3>1. CASE deferred' = deferred
      BY <1>a, <3>1
    <3>2. CASE deferred' = Append(deferred, Head(loopQueue))
      BY SMTT(30), <1>a, <2>1, <2>3, <3>2, ReachableAppend DEF TypeOK
    <3> QED BY <1>12, <3>1, <3>2 DEF ExtendBatch
  <2> QED BY <1>a, <1>d, <1>e, <1>f, <2>2, <2>3, <2>4
<1>13. ASSUME WriteBatch PROVE ClientInv'
  <2>1. /\ client' = DispatchEvents(client, batch) /\ written' = written \o batch
        /\ request' = request /\ deferred' = deferred /\ loopQueue' = loopQueue
        /\ replay' = replay
    BY <1>13 DEF WriteBatch
  <2>2. Follows(client', written') /\ client.shown \subseteq client'.shown
    BY <1>a, <2>1, DispatchLive
  <2> QED BY <1>a, <1>d, <1>e, <2>1, <2>2, ReachableGrows
<1>14. ASSUME Resume PROVE ClientInv'
  <2>1. /\ client' = client /\ written' = written /\ request' = request
        /\ deferred' = deferred /\ loopQueue' = loopQueue
    BY <1>14 DEF Resume, Handle, handlerFrame
  <2> QED BY <1>14, <1>a, <1>e, <1>f, <2>1, ResumeReplays
<1>15. ASSUME Reply PROVE ClientInv'
  <2>1. /\ client' = DispatchEvents(MarkReplayRange(client, request.run, replay),
                                    replay.events)
        /\ mainPc = "replying" /\ written' = written /\ request' = NoRequest
        /\ deferred' = deferred /\ loopQueue' = loopQueue /\ replay' = NoReplay
    BY <1>15 DEF Reply
  <2>2. Follows(client', written') /\ client.shown \subseteq client'.shown
    BY <2>1, DispatchReplay
  <2>3. Reachable(client', request')
    BY <2>1, RequestFacts DEF Reachable
  <2>4. ReplayInv'
    BY <2>1 DEF ReplayInv, NoReplay
  <2> QED BY <1>a, <1>e, <2>1, <2>2, <2>3, <2>4, ReachableGrows
<1>16. CASE
        \/ Carry \/ ForwarderEnds
        \/ \E terminal \in BOOLEAN : Emit(terminal) \/ SendLive \/ Die
        \/ CloseBatch \/ DropRun \/ DrainNothing \/ Join \/ StartRun
        \/ RefuseTurn \/ RefuseApproval \/ CancelRun \/ SteerRun
        \/ ReadLog \/ DeleteRun \/ ShutdownRun \/ WriteFails \/ Return
        \/ BreakPipe \/ UNCHANGED vars
  <2>1. UNCHANGED <<client, written, request, deferred, loopQueue, replay>>
    BY <1>16 DEF Carry, ForwarderEnds, Emit, SendLive, Die, CloseBatch, batchFrame,
         DropRun, RunIsOver, handlerFrame, DrainNothing, Join, StartRun,
         SpawnRun, Handle, RefuseTurn, runFrame, RefuseApproval, CancelRun,
         SteerRun, ReadLog, DeleteRun, ShutdownRun, WriteFails,
         CancelActive, Return, BreakPipe, vars
  <2> QED BY <2>1, <1>a, <1>d, <1>e, <1>f
<1> QED
  BY <1>1, <1>2, <1>3, <1>4, <1>5, <1>6, <1>7, <1>8, <1>9, <1>10, <1>11,
     <1>12, <1>13, <1>14, <1>15, <1>16
  DEF Next, ReaderStep, ForwarderStep, WorkerStep, MainStep, Receive, Terminated

-----------------------------------------------------------------------------
(* The inductive invariant, and what it implies.                           *)

IInv ==
  /\ TypeOK /\ RequestInv /\ RunInv /\ EmittedInv
  /\ EventStream /\ LineStream /\ AcceptInv /\ ClientInv

(* Nothing has been emitted, read, sent or seen.                           *)
LEMMA InitInv == Init => IInv
<1> SUFFICES ASSUME Init PROVE IInv
  OBVIOUS
<1>0. /\ MaxTurns \in Nat /\ MaxEvents \in Nat /\ MaxLines \in Nat
      /\ MaxErrors \in Nat /\ LoopBound \in Nat /\ LiveBound \in Nat
      /\ BatchMax \in Nat
  BY StdioAssumption
<1>1. \A S : Only(<<>>, S) = <<>>
  BY OnlyEmpty
<1>2. TypeOK
  <2>1. NoReplay \in [events : Seq(Event), next : 0..(MaxEvents + 1)]
    BY NoReplayType
  <2>2. client \in Client
    BY <1>0 DEF Init, Client
  <2>3. \A A : <<>> \in Seq(A) /\ Len(<<>>) = 0
    OBVIOUS
  <2>4. ThreadTypes
    BY <1>0, <2>3 DEF Init, ThreadTypes
  <2>5. LoopTypes
    <3>1. /\ died = FALSE /\ canceled = FALSE /\ mainPc = "idle"
          /\ request = NoRequest /\ deferred = <<>> /\ batch = <<>>
          /\ active = FALSE /\ attached = TRUE /\ shutdown = FALSE
          /\ failed = FALSE /\ broken = FALSE /\ emitted = <<>>
          /\ written = <<>> /\ answered = <<>> /\ accepted = {}
      BY DEF Init
    <3>2. /\ initialized \in BOOLEAN /\ stored = {} /\ refused = FALSE
          /\ replay = NoReplay
      BY DEF Init
    <3>3. deferred \in Seq(Message) /\ Len(deferred) <= 1
          /\ batch \in Seq(Event) /\ Len(batch) <= BatchMax
      BY <1>0, <2>3, <3>1
    <3>4. emitted \in Seq(Event) /\ written \in Seq(Event)
          /\ answered \in Seq(1..MaxLines)
      BY <2>3, <3>1
    <3>5. accepted \subseteq 1..MaxTurns /\ stored \subseteq 1..MaxTurns
      BY <3>1, <3>2
    <3> QED BY <2>1, <2>2, <3>1, <3>2, <3>3, <3>4, <3>5 DEF LoopTypes, Client
  <2> QED BY <2>4, <2>5 DEF ThreadTypes, LoopTypes, TypeOK
<1>3. RequestInv
  BY RequestFacts DEF Init, RequestInv
<1>4. RunInv
  BY DEF Init, RunInv
<1>5. EmittedInv
  <2>1. \A run : LogOf(run) = <<>>
    BY <1>1 DEF Init, LogOf
  <2>2. Complete(<<>>)
    <3>1. \A S : Len(Only(<<>>, S)) = 0 /\ DOMAIN Only(<<>>, S) = {}
      BY <1>1
    <3> QED BY <1>0, <3>1 DEF Complete
  <2> QED BY <2>1, <2>2 DEF Init, EmittedInv
<1>6. EventsIn(<<>>) = <<>> /\ LinesIn(<<>>) = <<>>
  BY <1>1 DEF EventsIn, LinesIn
<1>7. EventStream
  BY <1>6 DEF Init, EventStream, InHand
<1>8. LineStream
  <2>1. deferred \o loopQueue = <<>> /\ RequestInHand = <<>> /\ answered = <<>>
    BY DEF Init, RequestInHand
  <2>2. [i \in 1..0 |-> i] = <<>>
    OBVIOUS
  <2> QED BY <1>6, <2>1, <2>2 DEF Init, LineStream
<1>9. AcceptInv
  BY DEF Init, AcceptInv, ReplyBeforeEvents
<1>10. ClientInv
  <2>1. Follows(client, written)
    <3>1. \A run \in 1..MaxTurns : FollowsRun(client, written, run)
      <4> TAKE run \in 1..MaxTurns
      <4>1. Len(Only(written, EventsFrom(run, 1))) = 0
        BY <1>1 DEF Init
      <4>2. SeenBy(client, run) = 1..0 /\ 0 \in 0..MaxEvents
        BY <1>0 DEF Init, SeenBy
      <4>3. DOMAIN client.acted = {}
        BY DEF Init
      <4> QED BY <4>1, <4>2, <4>3 DEF FollowsRun
    <3>2. InOrder(client)
      BY DEF Init, InOrder
    <3> QED BY <3>1, <3>2 DEF Follows
  <2>2. Reachable(client, request)
    BY RequestFacts DEF Init, Reachable
  <2> QED BY <2>1, <2>2 DEF Init, ClientInv, ReachableIn, ReplayInv, NoReplay
<1> QED BY <1>2, <1>3, <1>4, <1>5, <1>7, <1>8, <1>9, <1>10 DEF IInv

(* No step leaves the invariant.                                           *)
LEMMA StepInv == IInv /\ [Next]_vars => IInv'
BY TypeStep, RequestStep, RunStep, EmittedStep, StreamStep, LineStep, AcceptStep,
   ClientStep DEF IInv

(* It holds throughout.                                                    *)
LEMMA Invariance == Spec => []IInv
BY InitInv, StepInv, PTL DEF Spec

(* TypeOK: the queues keep their bounds, and every variable its type.      *)
THEOREM TypeCorrect == Spec => []TypeOK
<1>1. IInv => TypeOK
  BY DEF IInv
<1> QED BY <1>1, Invariance, PTL

(* NothingLostOrReordered: what the reader, the forwarder and the request  *)
(* loop pass on arrives whole and in order, however they interleave and    *)
(* whatever the bounds of the queues and the size of a batch.              *)
THEOREM NothingIsLostOrReordered == Spec => []NothingLostOrReordered
<1>1. IInv => NothingLostOrReordered
  BY DEF IInv, EventStream, LineStream, NothingLostOrReordered
<1> QED BY <1>1, Invariance, PTL

(* ReplyBeforeEvents: no event of a run reaches the client before the      *)
(* answer to the agent.sendTurn that started it.                           *)
THEOREM RepliesComeFirst == Spec => []ReplyBeforeEvents
<1>1. IInv => ReplyBeforeEvents
  BY DEF IInv, AcceptInv
<1> QED BY <1>1, Invariance, PTL

(* ReplayKeepsTheStream: whatever a client resumes, and whenever, it has   *)
(* seen the events of a run without a gap and takes each for a live one at *)
(* most once, in order.                                                    *)
THEOREM ReplayIsSafe == Spec => []ReplayKeepsTheStream
<1>1. IInv => ReplayKeepsTheStream
  <2> SUFFICES ASSUME ClientInv PROVE ReplayKeepsTheStream
    BY DEF IInv
  <2>1. \A run \in 1..MaxTurns : Seen(run) = 1..Cardinality(Seen(run))
    <3> TAKE run \in 1..MaxTurns
    <3>1. PICK k \in 0..MaxEvents : SeenBy(client, run) = 1..k
      BY DEF ClientInv, Follows, FollowsRun
    <3>2. Seen(run) = 1..k
      BY <3>1 DEF Seen, SeenBy
    <3>3. k \in Nat
      BY StdioAssumption
    <3>4. Cardinality(1..k) = k
      BY <3>3, FS_Interval
    <3> QED BY <3>2, <3>4
  <2>2. InOrder(client)
    BY DEF ClientInv, Follows
  <2> QED BY <2>1, <2>2 DEF ReplayKeepsTheStream, InOrder
<1> QED BY <1>1, Invariance, PTL

(* LogOutlivesWorker: a worker that is not gone has its log in the store.  *)
THEOREM LogsOutliveWorkers == Spec => []LogOutlivesWorker
<1>1. IInv => LogOutlivesWorker
  BY DEF IInv, RunInv, LogOutlivesWorker
<1> QED BY <1>1, Invariance, PTL

(* NoOrphanRun: when the loop has given up, the run is over or canceled.   *)
THEOREM NoRunIsOrphaned == Spec => []NoOrphanRun
<1>1. IInv => NoOrphanRun
  BY DEF IInv, RunInv, NoOrphanRun
<1> QED BY <1>1, Invariance, PTL
=============================================================================
