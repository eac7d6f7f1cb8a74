--------------------------- MODULE ProviderStream ---------------------------
(***************************************************************************)
(* One streamed answer of the provider, from the HTTP request to the       *)
(* response the turn loop works with: send_json_with_retries,              *)
(* SseEventParser and ChatToolCallAccumulator                              *)
(* (crates/agent-core/src/provider/deepseek_api.rs), the stream of the CLI *)
(* around them (deepseek_chat_stream_to_turn_provider_stream of            *)
(* crates/cli/src/lib.rs) and its reader (collect_provider_response of     *)
(* turn_loop.rs).                                                          *)
(*                                                                         *)
(* An answer is a sequence of blocks; a choice of a chunk may carry text,  *)
(* reasoning, pieces of tool calls and the reason why the answer ends.  On *)
(* the wire a payload is cut in two, and an event is the number of its     *)
(* block.                                                                  *)
(***************************************************************************)
EXTENDS Naturals, Sequences, SequencesExt, FiniteSetsExt, Functions, TLC, Cancellation, Projection

CONSTANTS
  Answers,     \* what the provider may answer (external)
  LineEnds,    \* ends of a line and of a block: pairs of sequences of Cr and Lf
  MaxSends,    \* http_send_attempts
  NoValue, Malformed

(* The ends of a line. *)
Lf == <<"lf", 0>>
Cr == <<"cr", 0>>

ASSUME StreamAssumption ==
  /\ Answers # {} /\ LineEnds # {}
  /\ LineEnds \subseteq {<<Lf>>, <<Cr, Lf>>} \X {<<Lf>>, <<Cr, Lf>>}
  /\ \A a \in Answers :
       /\ a \in Seq(Range(a))
       /\ \A i \in DOMAIN a :
            /\ a[i].kind \in {"chunk", "comment", "invalid", "done"} /\ a[i].lines \in {1, 2}
            /\ a[i].choices \in Seq(Range(a[i].choices))
            /\ a[i].kind # "chunk" => a[i].choices = <<>>
            /\ a[i].kind = "done" => i = Len(a) /\ a[i].lines = 1
            /\ \A choice \in Range(a[i].choices) :
                 /\ choice.calls \in Seq(Range(choice.calls))
                 /\ \A piece \in Range(choice.calls) :
                      /\ piece.index \in Nat /\ piece.arguments \in Seq(Range(piece.arguments))
                      /\ Malformed \notin {piece.id, piece.kind, piece.name}
  /\ Malformed \notin Nat \cup {NoValue} /\ Malformed \notin Seq(Nat)

VARIABLES
  answer, ends,       \* what the provider sends
  arrived,            \* symbols of it that arrived
  buffer,             \* SseEventParser.buffer
  pending,            \* events of the last piece that were not yet asked for
  sends,              \* requests made
  response,           \* what was collected
  streamPc,
  outcome,
  refused             \* history: the provider refused the request

wireVars   == <<answer, ends>>
streamVars == <<wireVars, arrived, buffer, pending, sends, response, streamPc, outcome, refused>>
-----------------------------------------------------------------------------
(* The wire. *)

Colon == <<"colon", 0>>
Data  == <<"data", 0>>

Half(n) == <<<<"first", n>>, <<"second", n>>>>

(* Block n; a payload may stand on two data lines. *)
Rendered(n) ==
  IF answer[n].kind = "comment" THEN <<Colon>> \o ends[1] \o ends[2]
  ELSE IF answer[n].lines = 1 THEN <<Data>> \o Half(n) \o ends[1] \o ends[2]
  ELSE <<Data, Half(n)[1]>> \o ends[1] \o <<Data, Half(n)[2]>> \o ends[1] \o ends[2]

Wire(n) == FlattenSeq([m \in 1..n |-> Rendered(m)])
-----------------------------------------------------------------------------
(* SseEventParser. *)

(* Mutant: no mixed line ends. *)
SeparatorsAlike == {<<Lf, Lf>>, <<Cr, Lf, Cr, Lf>>}

Separators == {<<Lf, Lf>>, <<Lf, Cr, Lf>>, <<Cr, Lf, Cr, Lf>>}

(* find_sse_event_boundary: the first place at which a separator starts. *)
Boundaries(bytes) ==
  {b \in (DOMAIN bytes) \X Separators :
     /\ b[1] + Len(b[2]) - 1 <= Len(bytes)
     /\ SubSeq(bytes, b[1], b[1] + Len(b[2]) - 1) = b[2]}

FirstBoundary(bytes) ==
  CHOOSE b \in Boundaries(bytes) : \A c \in Boundaries(bytes) : b[1] <= c[1]

(* Lines, without their ends; a last line without one keeps its Cr. *)
Read(s, symbol) ==
  IF symbol # Lf THEN [s EXCEPT !.line = Append(s.line, symbol)]
  ELSE [lines |-> Append(s.lines, IF s.line # <<>> /\ Last(s.line) = Cr
                                  THEN Front(s.line) ELSE s.line),
        line |-> <<>>]

Lines(block) ==
  LET read[n \in 0..Len(block)] ==
        IF n = 0 THEN [lines |-> <<>>, line |-> <<>>] ELSE Read(read[n - 1], block[n])
      all == read[Len(block)]
  IN  IF all.line = <<>> THEN all.lines ELSE Append(all.lines, all.line)

(* What the data lines carry: one text, with line feeds between them. *)
Joined(lines) ==
  LET text[n \in 0..Len(lines)] ==
        IF n = 0 THEN <<>>
        ELSE IF text[n - 1] = <<>> THEN Tail(lines[n])
        ELSE text[n - 1] \o <<Lf>> \o Tail(lines[n])
  IN  text[Len(lines)]

(* parse_stream_event_block: 0 stands for no event.  White space around a  *)
(* JSON payload does not matter, but [DONE] is compared.                   *)
ParseBlock(block) ==
  LET lines == Only(Lines(block), {line \in Range(Lines(block)) : line # <<>> /\ Head(line) = Data})
      data  == Joined(lines)
      json  == Only(data, Range(data) \ {Cr, Lf})
      n     == json[1][2]
  IN  IF lines = <<>> THEN 0
      ELSE IF json = <<>> \/ json # Half(n) THEN Malformed
      ELSE IF answer[n].kind = "done" /\ data = json THEN n
      ELSE IF answer[n].kind = "chunk" THEN n
      ELSE Malformed

IsDone(n) == answer[n].kind = "done"

(* One round of push_bytes: s holds the bytes left and the events found.   *)
(* An event that cannot be read takes those before it along.               *)
Extract(s) ==
  IF s.events = Malformed \/ Boundaries(s.bytes) = {}
     \/ (s.events # <<>> /\ IsDone(Last(s.events)))
  THEN s
  ELSE LET b     == FirstBoundary(s.bytes)
           event == ParseBlock(SubSeq(s.bytes, 1, b[1] - 1))
       IN  [bytes  |-> SubSeq(s.bytes, b[1] + Len(b[2]), Len(s.bytes)),
            events |-> CASE event = Malformed -> Malformed
                         [] event = 0         -> s.events
                         [] OTHER             -> Append(s.events, event)]

(* No more rounds than bytes. *)
ExtractAll(bytes) ==
  LET after[n \in 0..Len(bytes)] ==
        IF n = 0 THEN [bytes |-> bytes, events |-> <<>>] ELSE Extract(after[n - 1])
  IN  after[Len(bytes)]

(* Mutant: what is left of the last piece is forgotten. *)
PushBytesAnew(piece) == ExtractAll(piece)

PushBytes(piece) == ExtractAll(buffer \o piece)

(* SseEventParser::finish. *)
IsIncomplete(bytes) == \E i \in DOMAIN bytes : bytes[i] \notin {Cr, Lf}
-----------------------------------------------------------------------------
(* ChatToolCallAccumulator. *)

(* A value that is sent again must be the same. *)
Merged(old, new) ==
  IF new = NoValue THEN old
  ELSE IF new = "" \/ old \notin {NoValue, new} THEN Malformed
  ELSE new

NoEntry == [id |-> NoValue, kind |-> NoValue, name |-> NoValue, arguments |-> <<>>]

EntryOf(calls, index) == IF index \in DOMAIN calls THEN calls[index] ELSE NoEntry

(* Mutant: the arguments of a call are those that came last. *)
ExtendedByLast(entry, delta) ==
  [id        |-> Merged(entry.id, delta.id),
   kind      |-> Merged(entry.kind, delta.kind),
   name      |-> Merged(entry.name, delta.name),
   arguments |-> delta.arguments]

Extended(entry, delta) ==
  [id        |-> Merged(entry.id, delta.id),
   kind      |-> Merged(entry.kind, delta.kind),
   name      |-> Merged(entry.name, delta.name),
   arguments |-> entry.arguments \o delta.arguments]

AppendDelta(calls, delta) ==
  [index \in DOMAIN calls \cup {delta.index} |->
     IF index = delta.index THEN Extended(EntryOf(calls, index), delta) ELSE calls[index]]

(* append_delta has failed: the answer is not read any further. *)
IsBroken(calls) ==
  \E index \in DOMAIN calls :
    Malformed \in {calls[index].id, calls[index].kind, calls[index].name}

AppendDeltas(calls, deltas) ==
  LET after[n \in 0..Len(deltas)] ==
        IF n = 0 THEN calls ELSE AppendDelta(after[n - 1], deltas[n])
  IN  after[Len(deltas)]

(* ChatToolCallAccumulator::finish: in the order of their numbers. *)
Ascending(numbers) == Only([k \in 1..(Max(numbers \cup {0}) + 1) |-> k - 1], numbers)

IsFinished(calls) ==
  \A index \in DOMAIN calls :
    NoValue \notin {calls[index].id, calls[index].kind, calls[index].name}

FinishCalls(calls) ==
  [k \in DOMAIN Ascending(DOMAIN calls) |-> calls[Ascending(DOMAIN calls)[k]]]
-----------------------------------------------------------------------------
(* The stream of the CLI. *)

Text(value) == IF value = NoValue THEN <<>> ELSE <<value>>

TakeChoice(r, choice) ==
  IF IsBroken(r.calls) THEN r
  ELSE [content   |-> r.content \o Text(choice.content),
        reasoning |-> r.reasoning \o Text(choice.reasoning),
        calls     |-> AppendDeltas(r.calls, choice.calls),
        finish    |-> IF choice.finish = NoValue THEN r.finish ELSE choice.finish]

TakeChoices(r, choices) ==
  LET taken[n \in 0..Len(choices)] ==
        IF n = 0 THEN r ELSE TakeChoice(taken[n - 1], choices[n])
  IN  taken[Len(choices)]

NoResponse == [content |-> <<>>, reasoning |-> <<>>, calls |-> <<>>, finish |-> NoValue]

FinishReason(finish, calls) ==
  IF finish = "insufficient_system_resource" THEN "error"
  ELSE IF finish # NoValue THEN finish
  ELSE IF calls = <<>> THEN "stop"
  ELSE "tool_calls"
-----------------------------------------------------------------------------
(* What the provider will answer shows only when it is asked. *)
StreamInit ==
  /\ answer = (CHOOSE a \in Answers : TRUE) /\ ends = CHOOSE e \in LineEnds : TRUE
  /\ arrived = 0 /\ buffer = <<>> /\ pending = <<>> /\ sends = 1
  /\ response = NoResponse /\ refused = FALSE
  /\ streamPc = "waiting" /\ outcome = "none"

(* An error of the provider, unless the token explains it                  *)
(* (provider_error_or_canceled).                                           *)
Fails(how) ==
  streamPc' = "ended" /\ outcome' = IF canceled THEN "canceled" ELSE how
-----------------------------------------------------------------------------
(* send_json_with_retries. *)

BeginSend ==
  /\ streamPc = "waiting"
  /\ IF canceled THEN Fails("canceled") ELSE streamPc' = "sending" /\ UNCHANGED outcome
  /\ answer' \in Answers /\ ends' \in LineEnds
  /\ UNCHANGED <<arrived, buffer, pending, sends, response, refused, canceled>>

SendSucceeds ==
  /\ streamPc = "sending"
  /\ IF canceled THEN Fails("canceled") ELSE streamPc' = "open" /\ UNCHANGED outcome
  /\ UNCHANGED <<wireVars, arrived, buffer, pending, sends, response, refused, canceled>>

(* A timeout, or no connection. *)
SendBreaks ==
  /\ streamPc = "sending"
  /\ IF sends < MaxSends THEN sends' = sends + 1 /\ UNCHANGED <<streamPc, outcome>>
                         ELSE Fails("transient") /\ UNCHANGED sends
  /\ UNCHANGED <<wireVars, arrived, buffer, pending, response, refused, canceled>>

(* A status that is no success, or a request that cannot be made. *)
SendIsRefused ==
  /\ streamPc = "sending"
  /\ Fails("fatal") /\ refused' = TRUE
  /\ UNCHANGED <<wireVars, arrived, buffer, pending, sends, response, canceled>>
-----------------------------------------------------------------------------
(* decode_chat_completion_stream: bytes are asked for when no event is     *)
(* left.                                                                   *)

Awaits == streamPc = "open" /\ pending = <<>>

Receive(n) ==
  /\ Awaits /\ arrived + n <= Len(Wire(Len(answer)))
  /\ LET pushed == PushBytes(SubSeq(Wire(Len(answer)), arrived + 1, arrived + n))
     IN  IF pushed.events = Malformed
         THEN Fails("fatal") /\ UNCHANGED <<buffer, pending>>
         ELSE /\ buffer' = pushed.bytes /\ pending' = pushed.events
              /\ UNCHANGED <<streamPc, outcome>>
  /\ arrived' = arrived + n
  /\ UNCHANGED <<wireVars, sends, response, refused, canceled>>

(* The connection is closed as if the answer were over. *)
Close ==
  /\ Awaits
  /\ IF IsIncomplete(buffer) THEN Fails("transient")
                             ELSE streamPc' = "ending" /\ UNCHANGED outcome
  /\ UNCHANGED <<wireVars, arrived, buffer, pending, sends, response, refused, canceled>>

Break ==
  /\ Awaits
  /\ Fails("transient")
  /\ UNCHANGED <<wireVars, arrived, buffer, pending, sends, response, refused, canceled>>

(* The next event, from the parser to the turn loop: the token is looked   *)
(* at before and after.                                                    *)
TakeEvent ==
  /\ streamPc = "open" /\ pending # <<>>
  /\ LET event == answer[Head(pending)]
         taken == TakeChoices(response, event.choices)
     IN  IF canceled THEN Fails("canceled") /\ UNCHANGED response
         ELSE IF event.kind = "done"
         THEN streamPc' = "ending" /\ UNCHANGED <<outcome, response>>
         ELSE IF IsBroken(taken.calls) THEN Fails("fatal") /\ response' = taken
         ELSE response' = taken /\ UNCHANGED <<streamPc, outcome>>
  /\ pending' = Tail(pending)
  /\ UNCHANGED <<wireVars, arrived, buffer, sends, refused, canceled>>

(* TurnProviderEvent::Completed. *)
Complete ==
  /\ streamPc = "ending"
  /\ LET calls == FinishCalls(response.calls)
     IN  IF canceled \/ ~IsFinished(response.calls)
         THEN Fails("fatal") /\ UNCHANGED response
         ELSE /\ streamPc' = "ended" /\ outcome' = "completed"
              /\ response' = [response EXCEPT !.calls = calls,
                                !.finish = FinishReason(response.finish, calls)]
  /\ UNCHANGED <<wireVars, arrived, buffer, pending, sends, refused, canceled>>

(* Mutant: the wait for bytes has no limit. *)
IdleTimeoutOfSend ==
  /\ streamPc = "sending"
  /\ streamPc' = "ended" /\ outcome' = "idle"
  /\ UNCHANGED <<wireVars, arrived, buffer, pending, sends, response, refused, canceled>>

(* provider_idle_timeout, around the request and every event.  The token   *)
(* is not looked at.                                                       *)
IdleTimeout ==
  /\ streamPc = "sending" \/ Awaits
  /\ streamPc' = "ended" /\ outcome' = "idle"
  /\ UNCHANGED <<wireVars, arrived, buffer, pending, sends, response, refused, canceled>>

Network ==
  \/ SendSucceeds \/ SendBreaks \/ SendIsRefused \/ Close \/ Break
  \/ \E n \in 1..Len(Wire(Len(answer))) : Receive(n)

ReadStream == TakeEvent \/ Complete \/ IdleTimeout
-----------------------------------------------------------------------------
(* What the blocks up to n say, as the adapter's documentation has it:     *)
(* pieces of a call have its number; id, type and name are sent at least   *)
(* once and never change.                                                  *)

ChoicesOf(n) == FlattenSeq([m \in 1..n |-> answer[m].choices])

PiecesOf(n)    == FlattenSeq([i \in DOMAIN ChoicesOf(n) |-> ChoicesOf(n)[i].calls])
CallNumbers(n) == {piece.index : piece \in Range(PiecesOf(n))}
Pieces(n, number) ==
  Only(PiecesOf(n), {piece \in Range(PiecesOf(n)) : piece.index = number})

Said(n, number, field) ==
  {piece[field] : piece \in Range(Pieces(n, number))} \ {NoValue}

IsWellFormed(n) ==
  /\ \A m \in 1..n : answer[m].kind # "invalid"
  /\ \A number \in CallNumbers(n), field \in {"id", "kind", "name"} :
       \E said \in Said(n, number, field) \ {""} : Said(n, number, field) = {said}

Texts(n)    == FlattenSeq([i \in DOMAIN ChoicesOf(n) |-> Text(ChoicesOf(n)[i].content)])
Thoughts(n) == FlattenSeq([i \in DOMAIN ChoicesOf(n) |-> Text(ChoicesOf(n)[i].reasoning)])

Meaning(n) ==
  LET The(set)  == CHOOSE x \in set : TRUE
      Call(number) ==
        [id   |-> The(Said(n, number, "id")), kind |-> The(Said(n, number, "kind")),
         name |-> The(Said(n, number, "name")),
         arguments |-> FlattenSeq([i \in DOMAIN Pieces(n, number) |->
                                     Pieces(n, number)[i].arguments])]
      order == Ascending(CallNumbers(n))
  IN  [content |-> Texts(n), reasoning |-> Thoughts(n),
       calls |-> [k \in DOMAIN order |-> Call(order[k])]]
-----------------------------------------------------------------------------
(* Properties. *)

(* However the network cuts the answer into pieces, what is shown is the   *)
(* text of its first blocks: nothing is lost, repeated or reordered        *)
(* (push_bytes, assistant.delta).                                          *)
FramingIsInvisible == IsPrefix(response.content, Texts(Len(answer)))

(* An answer counts as complete only if it is well-formed, and then it is  *)
(* what the blocks up to [DONE] say, or, when the connection was closed    *)
(* between two blocks, those before the end                                *)
(* (deepseek_chat_stream_to_turn_provider_stream).                         *)
CompletedIsTheAnswer ==
  outcome = "completed" =>
    \E n \in 0..Len(answer) :
      /\ (n > 0 /\ IsDone(n)) \/ arrived = Len(Wire(n))
      /\ IsWellFormed(n)
      /\ [f \in {"content", "reasoning", "calls"} |-> response[f]] = Meaning(n)

(* A well-formed answer is never an error of the provider, unless the      *)
(* connection is closed between the pieces of a call, and one that arrived *)
(* up to [DONE] is not asked for again, whatever the network does          *)
(* (is_transient_transport_error).                                         *)
FailuresHaveCauses ==
  /\ outcome = "fatal" =>
       \/ refused \/ ~IsWellFormed(Len(answer))
       \/ \E n \in 1..Len(answer) - 1 : arrived = Len(Wire(n)) /\ ~IsWellFormed(n)
  /\ outcome = "transient" =>
       ~\E n \in DOMAIN answer : IsDone(n) /\ arrived >= Len(Wire(n))
=============================================================================
