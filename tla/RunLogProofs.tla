---------------------------- MODULE RunLogProofs ----------------------------
(***************************************************************************)
(* For any runs, events and crashes: an event that the client was shown    *)
(* stays in events.jsonl under its seq until its run is deleted; a text of *)
(* summary.json that one writer wrote tells the history of a prefix of the *)
(* events, and what a listing returns is no older than the request and, if *)
(* it is not a blend of several texts, true.                               *)
(*                                                                         *)
(* The worker counts seqs in memory.  What has to be shown is that its     *)
(* count and the lines on disk stay in step: no thread may touch the log   *)
(* of the active run, and a line that continues another, unfinished one    *)
(* must not be a line that was delivered.  For the summaries, that logs    *)
(* which can still be read only grow, so that what was a history of their  *)
(* settled lines stays one, wherever a thread keeps it meanwhile.          *)
(***************************************************************************)
EXTENDS RunLog, SequenceFacts

Exists(r) == events[r] # NoFile

(* The active run has a log, and the worker an event in hand from its      *)
(* first byte to its delivery.                                             *)
ActiveInv ==
  workerPc # "none" =>
    /\ log \in Log /\ Exists(log.run)
    /\ workerPc # "ready" => appending \in Kinds
    /\ workerPc \in {"event", "newline"} =>
         log.next <= MaxEvents /\ events[log.run].ended = FALSE
    /\ workerPc \in {"summary", "reading", "rebuild", "truncate", "fill"} => log.next > 1

(* Once a log was opened at the end of a line, its lines are those the     *)
(* worker has counted.                                                     *)
CountInv ==
  workerPc # "none" /\ log.sound = TRUE =>
    LET file == events[log.run] IN
    /\ workerPc \in {"event", "newline"} => Len(file.lines) = log.next
    /\ workerPc \notin {"event", "newline"} =>
         Len(file.lines) = log.next - 1 /\ file.ended = TRUE
    /\ workerPc = "event" => intact = TRUE
    /\ workerPc = "newline" => file.lines[log.next] = appending
    /\ workerPc \in {"summary", "reading", "rebuild", "truncate", "fill"} =>
         file.lines[log.next - 1] = appending

(* A run is created or deleted while it is not active. *)
MainInv ==
  /\ mainPc \in {"creating", "createSummary", "createFill"} =>
       target \in Runs /\ workerPc = "none"
  /\ mainPc = "creating" => events[target] = NoFile
  /\ mainPc \in {"createSummary", "createFill"} =>
       events[target] = [lines |-> <<>>, ended |-> TRUE]
  /\ mainPc = "deleting" =>
       target \in Runs /\ (workerPc # "none" => log.run # target)

(* What was delivered is on disk, and its line is over. *)
Durable(r, d) ==
  /\ Exists(r) /\ d.seq <= Len(events[r].lines)
  /\ events[r].lines[d.seq] = d.kind
  /\ d.seq = Len(events[r].lines) => events[r].ended = TRUE

DurableInv ==
  \A r \in Runs : \A d \in delivered[r] : d.sound = TRUE => Durable(r, d)

(* The inductive invariant. *)
IInv == TypeOK /\ ActiveInv /\ CountInv /\ MainInv /\ DurableInv
-----------------------------------------------------------------------------
(* The stores are empty at first.                                          *)
LEMMA InitIInv == Init => IInv
<1> SUFFICES ASSUME Init PROVE IInv
  OBVIOUS
<1>1. TypeOK
  <2>1. crashes \in 0..MaxCrashes /\ atStart \in [Runs -> 0..MaxEvents]
    BY LogAssumption DEF Init
  <2>2. delivered \in [Runs -> SUBSET Delivery]
    BY DEF Init
  <2>3. events \in [Runs -> {NoFile} \cup EventsFile] /\ \A r \in Runs : events[r] = NoFile
    BY DEF Init
  <2> QED
    BY <2>1, <2>2, <2>3 DEF Init, TypeOK, WorkerPc, MainPc
<1>2. ActiveInv /\ CountInv /\ MainInv /\ DurableInv
  BY DEF Init, ActiveInv, CountInv, MainInv, DurableInv
<1> QED
  BY <1>1, <1>2 DEF IInv

(* Steps that touch neither logs nor the worker.                           *)
LEMMA OtherSteps ==
  ASSUME IInv, UNCHANGED <<events, workerPc, log, appending, intact, delivered>>
  PROVE  ActiveInv' /\ CountInv' /\ DurableInv'
BY DEF IInv, ActiveInv, CountInv, DurableInv, Durable, Exists

(* A log, if there is one.                                                 *)
LEMMA FileType ==
  ASSUME IInv, NEW r \in Runs, Exists(r)
  PROVE  /\ events[r] \in EventsFile
         /\ events[r].lines \in Seq({Torn} \cup Kinds)
         /\ Len(events[r].lines) \in Nat
         /\ events[r].ended \in BOOLEAN
BY DEF IInv, TypeOK, Exists, EventsFile

(* Listings, and what else the request loop does to summaries. *)
Reads ==
  \/ BeginList \/ EndList \/ ListSummary \/ ListRead \/ ListCheck \/ ListRebuild
  \/ ListTruncate \/ ListFill \/ DeleteSummary \/ DeleteDir \/ DeleteFails
  \/ CreateSummary
  \/ \E r \in Runs : CreateRun(r) \/ ListRun(r) \/ BeginDelete(r)

(* The listings and the rest of Reads keep the invariant.                  *)
LEMMA ReadsIInv == IInv /\ Reads => IInv'
<1> SUFFICES ASSUME IInv, Reads PROVE IInv'
  OBVIOUS
<1>1. UNCHANGED <<events, workerPc, log, appending, intact, delivered>>
  BY DEF Reads, BeginList, EndList, ListRun, ListSummary, ListRead, ListCheck, ListRebuild,
     ListTruncate, ListFill, DeleteSummary, DeleteDir, DeleteFails, CreateSummary,
     CreateRun, BeginDelete, mainFrame, listFrame
<1>2. MainInv'
  <2>1. CASE BeginList \/ EndList \/ ListSummary \/ ListRead \/ ListCheck
             \/ ListRebuild \/ ListTruncate \/ ListFill \/ \E r \in Runs : ListRun(r)
    <3>1. mainPc' \in {"idle", "list", "listSummary", "listRead", "listCheck", "listRebuild",
                       "listTruncate", "listFill"}
      BY <2>1 DEF BeginList, EndList, ListRun, ListSummary, ListRead, ListCheck, ListRebuild,
         ListTruncate, ListFill, ListFails, Return
    <3> QED
      BY <3>1 DEF MainInv
  <2>2. CASE \/ DeleteSummary \/ DeleteDir \/ DeleteFails \/ CreateSummary
             \/ \E r \in Runs : CreateRun(r) \/ BeginDelete(r)
    BY <1>1, <2>2 DEF IInv, MainInv, DeleteSummary, DeleteDir, DeleteFails,
       CreateSummary, CreateRun, BeginDelete, mainVars
  <2> QED
    BY <2>1, <2>2 DEF Reads
<1>3. TypeOK'
  <2>1. /\ crashes' = crashes /\ dirs' \subseteq Runs
        /\ mainPc' \in MainPc /\ target' \in {None} \cup Runs /\ todo' \subseteq Runs
    <3> USE DEF IInv, TypeOK, MainPc, mainFrame, listFrame, mainVars
    <3>1. CASE BeginList \/ EndList \/ \E r \in Runs : ListRun(r)
      BY <3>1 DEF BeginList, EndList, ListRun
    <3>2. CASE ListSummary \/ ListRead \/ ListCheck \/ ListRebuild
      BY <3>2 DEF ListSummary, ListRead, ListCheck, ListRebuild, ListFails, Return
    <3>3. CASE ListTruncate \/ ListFill
      BY <3>3 DEF ListTruncate, ListFill, Return
    <3>4. CASE DeleteSummary \/ DeleteDir \/ DeleteFails \/ CreateSummary
      BY <3>4 DEF DeleteSummary, DeleteDir, DeleteFails, CreateSummary
    <3>5. CASE \E r \in Runs : CreateRun(r) \/ BeginDelete(r)
      BY <3>5 DEF CreateRun, BeginDelete
    <3> QED
      BY <3>1, <3>2, <3>3, <3>4, <3>5 DEF Reads
  <2>3. atStart' \in [Runs -> 0..MaxEvents]
    <3>1. CASE BeginList
      <4>1. \A r \in Runs : Length(r) \in 0..MaxEvents
        <5>1. \A r \in Runs : Exists(r) =>
                /\ Len(events[r].lines) \in Nat
                /\ Len(events[r].lines) <= MaxEvents
          BY FileType DEF IInv, TypeOK, Exists
        <5>2. \A n \in Nat : n <= MaxEvents => n \in 0..MaxEvents
          BY LogAssumption
        <5>3. 0 \in 0..MaxEvents
          BY LogAssumption
        <5> QED
          BY <5>1, <5>2, <5>3 DEF Length, Exists
      <4>2. workerPc \in {"event", "newline"} => log.next - 1 \in 0..MaxEvents
        <5>1. workerPc \in {"event", "newline"} => log.next \in 1..MaxEvents + 1
          BY DEF IInv, ActiveInv, Log
        <5> QED
          BY <5>1, LogAssumption
      <4> QED
        BY <3>1, <4>1, <4>2 DEF BeginList
    <3>2. CASE ~BeginList
      BY <3>2 DEF IInv, TypeOK, Reads, EndList, ListRun, ListSummary, ListRead,
         ListCheck, ListRebuild, ListTruncate, ListFill, DeleteSummary, DeleteDir,
         DeleteFails, CreateSummary, CreateRun, BeginDelete, listFrame, listVars
    <3> QED
      BY <3>1, <3>2
  <2> QED
    BY <1>1, <2>1, <2>3 DEF IInv, TypeOK
<1> QED
  BY <1>1, <1>2, <1>3, OtherSteps DEF IInv
-----------------------------------------------------------------------------
(* The steps of the worker.  The lines of its file.                        *)
LEMMA LinesType ==
  ASSUME NEW lines \in Seq({Torn} \cup Kinds), NEW k \in {Torn} \cup Kinds
  PROVE  /\ Append(lines, k) \in Seq({Torn} \cup Kinds)
         /\ Len(Append(lines, k)) = Len(lines) + 1
         /\ \A i \in 1..Len(lines) : Append(lines, k)[i] = lines[i]
OBVIOUS

(* The file with another last line.                                        *)
LEMMA WithLastType ==
  ASSUME NEW file \in EventsFile, NEW k \in {Torn} \cup Kinds
  PROVE  /\ WithLast(file, k) \in EventsFile
         /\ WithLast(file, k).ended = file.ended
         /\ Len(WithLast(file, k).lines) = Len(file.lines)
         /\ \A i \in 1..Len(file.lines) - 1 : WithLast(file, k).lines[i] = file.lines[i]
         /\ Len(file.lines) > 0 => WithLast(file, k).lines[Len(file.lines)] = k
<1> DEFINE lines == file.lines
           last  == [lines EXCEPT ![Len(lines)] = k]
<1>1. lines \in Seq({Torn} \cup Kinds) /\ file.ended \in BOOLEAN
  BY DEF EventsFile
<1>2. /\ last \in Seq({Torn} \cup Kinds) /\ Len(last) = Len(lines)
      /\ \A i \in 1..Len(lines) - 1 : last[i] = lines[i]
      /\ Len(lines) > 0 => last[Len(lines)] = k
  <2>1. CASE Len(lines) > 0
    BY <1>1, <2>1, ExceptSeq
  <2>2. CASE Len(lines) = 0
    <3>1. lines = << >>
      BY <1>1, <2>2
    <3>2. last = lines
      BY <3>1
    <3> HIDE DEF last, lines
    <3> QED
      BY <1>1, <2>2, <3>2
  <2> QED
    BY <1>1, <2>1, <2>2
<1>3. WithLast(file, k) = [lines |-> last, ended |-> file.ended]
  BY DEF WithLast, EventsFile
<1> HIDE DEF last, lines
<1> QED
  BY <1>1, <1>2, <1>3 DEF EventsFile, lines

(* The file with the first bytes of one more line.                         *)
LEMMA BeginFile ==
  ASSUME NEW old \in EventsFile,
         NEW new, new = IF old.ended
                        THEN [lines |-> Append(old.lines, Torn), ended |-> FALSE]
                        ELSE WithLast(old, Torn)
  PROVE  /\ new \in EventsFile /\ new.ended = FALSE
         /\ old.ended = TRUE =>
              /\ Len(new.lines) = Len(old.lines) + 1
              /\ \A i \in 1..Len(old.lines) : new.lines[i] = old.lines[i]
         /\ old.ended = FALSE => Len(new.lines) = Len(old.lines)
         /\ \A i \in 1..Len(old.lines) - 1 : new.lines[i] = old.lines[i]
         /\ Len(new.lines) > 0 => new.lines[Len(new.lines)] = Torn
<1>1. old.lines \in Seq({Torn} \cup Kinds) /\ Len(old.lines) \in Nat /\ old.ended \in BOOLEAN
  BY DEF EventsFile
<1>2. CASE old.ended = TRUE
  <2> DEFINE more == Append(old.lines, Torn)
  <2>1. /\ more \in Seq({Torn} \cup Kinds) /\ Len(more) = Len(old.lines) + 1
        /\ \A i \in 1..Len(old.lines) : more[i] = old.lines[i]
    BY <1>1, LinesType
  <2>2. more[Len(old.lines) + 1] = Torn
    BY <1>1
  <2>3. new = [lines |-> more, ended |-> FALSE]
    BY <1>2
  <2> HIDE DEF more
  <2>4. [lines |-> more, ended |-> FALSE] \in EventsFile
    BY <2>1 DEF EventsFile
  <2>5. new.lines = more /\ new.ended = FALSE
    BY <2>3
  <2>6. new \in EventsFile
    BY <2>3, <2>4, Zenon
  <2> QED
    BY <1>1, <1>2, <2>1, <2>2, <2>5, <2>6
<1>3. CASE old.ended = FALSE
  <2>1. new = WithLast(old, Torn)
    BY <1>3
  <2>2. /\ new \in EventsFile /\ new.ended = FALSE /\ Len(new.lines) = Len(old.lines)
        /\ \A i \in 1..Len(old.lines) - 1 : new.lines[i] = old.lines[i]
        /\ Len(old.lines) > 0 => new.lines[Len(old.lines)] = Torn
    BY <1>3, <2>1, WithLastType
  <2> QED
    BY <1>3, <2>2
<1> QED
  BY <1>1, <1>2, <1>3

(* What changes when the worker writes to its file.                        *)
LEMMA LineWrites ==
  ASSUME IInv, workerPc # "none", NEW file \in EventsFile,
         Len(file.lines) <= MaxEvents,
         events' = [events EXCEPT ![log.run] = file],
         UNCHANGED <<workerFrame, delivered>>,
         workerPc' \in {"event", "newline", "summary"},
         log' \in Log, log'.run = log.run,
         appending' \in Kinds, intact' \in BOOLEAN,
         \A d \in delivered[log.run] :
           d.sound = TRUE /\ Durable(log.run, d) =>
             /\ d.seq <= Len(file.lines) /\ file.lines[d.seq] = d.kind
             /\ d.seq = Len(file.lines) => file.ended = TRUE
  PROVE  /\ TypeOK' /\ MainInv' /\ DurableInv'
         /\ log.run \in Runs /\ events'[log.run] = file /\ file # NoFile
<1>1. log.run \in Runs /\ log.run \in DOMAIN events
      /\ mainPc \notin {"creating", "createSummary", "createFill"}
      /\ (mainPc = "deleting" => log.run # target)
  BY DEF IInv, TypeOK, ActiveInv, MainInv, Log
<1>2. events'[log.run] = file /\ file # NoFile
      /\ \A r \in Runs : r # log.run => events'[r] = events[r]
  BY <1>1, LogAssumption DEF IInv, TypeOK
<1>3. TypeOK'
  <2>1. events' \in [Runs -> {NoFile} \cup EventsFile]
    BY <1>1 DEF IInv, TypeOK
  <2>2. \A r \in Runs : events'[r] # NoFile => Len(events'[r].lines) <= MaxEvents
    BY <1>2 DEF IInv, TypeOK
  <2> QED
    BY <2>1, <2>2 DEF IInv, TypeOK, WorkerPc, workerFrame, mainVars, listVars
<1>4. MainInv'
  BY <1>1 DEF IInv, MainInv, workerFrame, mainVars
<1>5. DurableInv'
  <2> SUFFICES ASSUME NEW r \in Runs, NEW d \in delivered[r], d.sound = TRUE
               PROVE  Durable(r, d)'
    BY DEF DurableInv
  <2>1. Durable(r, d)
    BY DEF IInv, DurableInv
  <2>2. CASE r = log.run
    BY <1>2, <2>1, <2>2 DEF Durable, Exists
  <2>3. CASE r # log.run
    BY <1>2, <2>1, <2>3 DEF Durable, Exists
  <2> QED
    BY <2>2, <2>3
<1> QED
  BY <1>1, <1>2, <1>3, <1>4, <1>5
-----------------------------------------------------------------------------
(* The facts the steps of the active worker start from.                    *)
LEMMA Active ==
  ASSUME IInv, workerPc # "none"
  PROVE  /\ log \in Log /\ log.run \in Runs /\ log.next \in 1..MaxEvents + 1
         /\ Exists(log.run) /\ events[log.run] \in EventsFile
         /\ events[log.run].lines \in Seq({Torn} \cup Kinds)
         /\ Len(events[log.run].lines) \in Nat
         /\ Len(events[log.run].lines) <= MaxEvents
         /\ Length(log.run) = Len(events[log.run].lines)
         /\ \A d \in delivered[log.run] : d.seq \in 1..MaxEvents
         /\ \A d \in delivered[log.run] : d.sound = TRUE => Durable(log.run, d)
<1>1. log \in Log /\ log.run \in Runs /\ log.next \in 1..MaxEvents + 1 /\ Exists(log.run)
  BY DEF IInv, ActiveInv, Log
<1>2. \A d \in delivered[log.run] : d.seq \in 1..MaxEvents
  BY <1>1 DEF IInv, TypeOK, Delivery
<1> QED
  BY <1>1, <1>2, FileType DEF IInv, TypeOK, DurableInv, Exists, Length

(* The first bytes of a line.                                              *)
LEMMA BeginEventIInv == ASSUME IInv, NEW k \in Kinds, BeginEvent(k) PROVE IInv'
<1> DEFINE old  == events[log.run]
           file == IF old.ended
                   THEN [lines |-> Append(old.lines, Torn), ended |-> FALSE]
                   ELSE WithLast(old, Torn)
<1>1. workerPc = "ready" /\ workerPc' = "event" /\ log.next <= MaxEvents
      /\ Length(log.run) < MaxEvents /\ appending' = k
      /\ log' = [log EXCEPT !.fresh = FALSE]
      /\ UNCHANGED <<workerFrame, delivered>>
      /\ events' = [events EXCEPT ![log.run] = file] /\ intact' = old.ended
  BY DEF BeginEvent
<1>2. /\ old \in EventsFile /\ old.lines \in Seq({Torn} \cup Kinds)
      /\ Len(old.lines) \in Nat /\ old.ended \in BOOLEAN /\ Len(old.lines) < MaxEvents
  BY <1>1, Active, FileType
<1>3. /\ file \in EventsFile /\ Len(file.lines) <= MaxEvents /\ file.ended = FALSE
      /\ old.ended = TRUE => Len(file.lines) = Len(old.lines) + 1
      /\ old.ended = FALSE => Len(file.lines) = Len(old.lines)
      /\ \A i \in 1..Len(old.lines) - 1 : file.lines[i] = old.lines[i]
      /\ old.ended = TRUE =>
           \A i \in 1..Len(old.lines) : file.lines[i] = old.lines[i]
  <2>1. file = IF old.ended
               THEN [lines |-> Append(old.lines, Torn), ended |-> FALSE]
               ELSE WithLast(old, Torn)
    OBVIOUS
  <2> HIDE DEF file, old
  <2>2. /\ file \in EventsFile /\ file.ended = FALSE
        /\ old.ended = TRUE =>
             /\ Len(file.lines) = Len(old.lines) + 1
             /\ \A i \in 1..Len(old.lines) : file.lines[i] = old.lines[i]
        /\ old.ended = FALSE => Len(file.lines) = Len(old.lines)
        /\ \A i \in 1..Len(old.lines) - 1 : file.lines[i] = old.lines[i]
    BY <1>2, <2>1, BeginFile
  <2>3. Len(file.lines) <= MaxEvents
    BY <1>2, <2>2, LogAssumption
  <2> QED
    BY <2>2, <2>3
<1> HIDE DEF file
<1>4. log' \in Log /\ log'.run = log.run /\ log'.next = log.next /\ log'.sound = log.sound
  BY <1>1, Active DEF Log
<1>5. \A d \in delivered[log.run] :
        d.sound = TRUE /\ Durable(log.run, d) =>
          /\ d.seq <= Len(file.lines) /\ file.lines[d.seq] = d.kind
          /\ d.seq = Len(file.lines) => file.ended = TRUE
  <2> SUFFICES ASSUME NEW d \in delivered[log.run], Durable(log.run, d)
               PROVE  /\ d.seq <= Len(file.lines) /\ file.lines[d.seq] = d.kind
                      /\ d.seq # Len(file.lines)
    OBVIOUS
  <2>1. d.seq \in 1..Len(old.lines) /\ old.lines[d.seq] = d.kind
        /\ (d.seq = Len(old.lines) => old.ended = TRUE)
    BY <1>1, <1>2, Active DEF Durable
  <2> HIDE DEF old
  <2> QED
    BY <1>2, <1>3, <2>1
<1>6. TypeOK' /\ MainInv' /\ DurableInv' /\ events'[log.run] = file /\ file # NoFile
  BY <1>1, <1>2, <1>3, <1>4, <1>5, LineWrites
<1>7. ActiveInv'
  BY <1>1, <1>3, <1>4, <1>6 DEF ActiveInv, Exists
<1>8. CountInv'
  <2> SUFFICES ASSUME log.sound = TRUE
               PROVE  Len(file.lines) = log.next /\ intact' = TRUE
    BY <1>1, <1>4, <1>6 DEF CountInv
  <2>1. Len(old.lines) = log.next - 1 /\ old.ended = TRUE
    BY <1>1 DEF IInv, CountInv
  <2> QED
    BY <1>1, <1>3, <2>1, Active
<1> QED
  BY <1>6, <1>7, <1>8 DEF IInv

(* The rest of the line.                                                   *)
LEMMA FinishEventIInv == IInv /\ FinishEvent => IInv'
<1> SUFFICES ASSUME IInv, FinishEvent PROVE IInv'
  OBVIOUS
<1> DEFINE old  == events[log.run]
           file == IF intact THEN WithLast(old, appending) ELSE old
<1>1. workerPc = "event" /\ workerPc' = "newline"
      /\ UNCHANGED <<workerFrame, delivered, log, appending, intact>>
      /\ appending \in Kinds /\ log.next <= MaxEvents /\ old.ended = FALSE
  BY DEF FinishEvent, IInv, ActiveInv
<1>2. old \in EventsFile /\ Len(old.lines) \in Nat /\ Len(old.lines) <= MaxEvents
  BY <1>1, Active
<1>3. events' = [events EXCEPT ![log.run] = file]
  <2>1. CASE intact
    BY <2>1 DEF FinishEvent
  <2>2. CASE ~intact
    <3>1. events' = events
      BY <2>2 DEF FinishEvent
    <3>2. events = [events EXCEPT ![log.run] = events[log.run]]
      BY DEF IInv, TypeOK
    <3> QED
      BY <2>2, <3>1, <3>2
  <2> QED
    BY <2>1, <2>2
<1>4. /\ file \in EventsFile /\ Len(file.lines) = Len(old.lines) /\ file.ended = FALSE
      /\ \A i \in 1..Len(old.lines) - 1 : file.lines[i] = old.lines[i]
      /\ intact = TRUE /\ Len(old.lines) > 0 => file.lines[Len(old.lines)] = appending
  <2>1. CASE intact
    <3>1. file = WithLast(old, appending)
      BY <2>1
    <3> HIDE DEF file
    <3> QED
      BY <1>1, <1>2, <3>1, WithLastType
  <2>2. CASE ~intact
    BY <1>1, <1>2, <2>2
  <2> QED
    BY <2>1, <2>2
<1> HIDE DEF file
<1>5. \A d \in delivered[log.run] :
        d.sound = TRUE /\ Durable(log.run, d) =>
          /\ d.seq <= Len(file.lines) /\ file.lines[d.seq] = d.kind
          /\ d.seq = Len(file.lines) => file.ended = TRUE
  <2> SUFFICES ASSUME NEW d \in delivered[log.run], Durable(log.run, d)
               PROVE  /\ d.seq <= Len(file.lines) /\ file.lines[d.seq] = d.kind
                      /\ d.seq # Len(file.lines)
    OBVIOUS
  <2>1. d.seq \in 1..Len(old.lines) /\ old.lines[d.seq] = d.kind
        /\ d.seq # Len(old.lines)
    BY <1>1, <1>2, Active DEF Durable
  <2> HIDE DEF old
  <2> QED
    BY <1>2, <1>4, <2>1
<1>6. TypeOK' /\ MainInv' /\ DurableInv' /\ events'[log.run] = file /\ file # NoFile
  <2>1. log \in Log /\ intact \in BOOLEAN
    BY <1>1, Active DEF IInv, TypeOK
  <2> QED
    BY <1>1, <1>2, <1>3, <1>4, <1>5, <2>1, LineWrites
<1>7. ActiveInv'
  BY <1>1, <1>4, <1>6, Active DEF ActiveInv, Exists
<1>8. CountInv'
  <2> SUFFICES ASSUME log.sound = TRUE
               PROVE  Len(file.lines) = log.next /\ file.lines[log.next] = appending
    BY <1>1, <1>6 DEF CountInv
  <2>1. Len(old.lines) = log.next /\ intact = TRUE
    BY <1>1 DEF IInv, CountInv
  <2>2. log.next > 0
    BY <1>1, Active
  <2> QED
    BY <1>4, <2>1, <2>2
<1> QED
  BY <1>6, <1>7, <1>8 DEF IInv

(* The newline, and the next seq.                                          *)
LEMMA EndLineIInv == IInv /\ EndLine => IInv'
<1> SUFFICES ASSUME IInv, EndLine PROVE IInv'
  OBVIOUS
<1> DEFINE old  == events[log.run]
           file == [old EXCEPT !.ended = TRUE]
<1>1. workerPc = "newline" /\ workerPc' = "summary"
      /\ UNCHANGED <<workerFrame, delivered, appending, intact>>
      /\ appending \in Kinds /\ log.next <= MaxEvents
      /\ log' = [log EXCEPT !.next = log.next + 1]
      /\ events' = [events EXCEPT ![log.run] = file]
  BY DEF EndLine, IInv, ActiveInv
<1>2. old \in EventsFile /\ Len(old.lines) \in Nat /\ Len(old.lines) <= MaxEvents
  BY <1>1, Active
<1>3. file \in EventsFile /\ file.lines = old.lines /\ file.ended = TRUE
  BY <1>2 DEF EventsFile
<1> HIDE DEF file
<1>4. log' \in Log /\ log'.run = log.run /\ log'.next = log.next + 1
      /\ log'.sound = log.sound /\ log.next \in Nat \ {0}
  <2>1. log.next + 1 \in 1..MaxEvents + 1 /\ log.next \in Nat \ {0} /\ log \in Log
    BY <1>1, Active, LogAssumption
  <2> QED
    BY <1>1, <2>1 DEF Log
<1>5. TypeOK' /\ MainInv' /\ DurableInv' /\ events'[log.run] = file /\ file # NoFile
  <2>1. intact \in BOOLEAN
    BY DEF IInv, TypeOK
  <2> QED
    BY <1>1, <1>2, <1>3, <1>4, <2>1, LineWrites DEF Durable
<1>6. ActiveInv'
  BY <1>1, <1>4, <1>5 DEF ActiveInv, Exists
<1>7. CountInv'
  <2> SUFFICES ASSUME log.sound = TRUE
               PROVE  Len(file.lines) = log.next /\ file.lines[log.next] = appending
    <3>1. log'.next - 1 = log.next
      BY <1>4
    <3>2. workerPc' = "summary" /\ appending' = appending /\ log'.sound = log.sound
          /\ events'[log'.run] = file /\ file.ended = TRUE
      BY <1>1, <1>3, <1>4, <1>5
    <3> QED
      BY <3>1, <3>2 DEF CountInv
  <2> QED
    BY <1>1, <1>3 DEF IInv, CountInv
<1> QED
  BY <1>5, <1>6, <1>7 DEF IInv

(* update_summary and write_summary: the log stays as it is.               *)
LEMMA SummaryIInv ==
  ASSUME IInv, OpenSummary \/ ReadSummary \/ Rebuild \/ TruncateSummary
  PROVE  IInv'
<1>1. /\ workerPc \in {"summary", "reading", "rebuild", "truncate"}
      /\ workerPc' \in {"reading", "rebuild", "truncate", "fill"}
      /\ UNCHANGED <<events, log, appending, intact, delivered, workerFrame>>
  BY DEF OpenSummary, ReadSummary, Rebuild, TruncateSummary
<1>3. TypeOK'
  BY <1>1 DEF IInv, TypeOK, WorkerPc, workerFrame, mainVars, listVars
<1>4. MainInv'
  BY <1>1 DEF IInv, MainInv, workerFrame, mainVars
<1>5. ActiveInv' /\ CountInv'
  BY <1>1 DEF IInv, ActiveInv, CountInv, Exists
<1>6. DurableInv'
  BY <1>1 DEF IInv, DurableInv, Durable, Exists
<1> QED
  BY <1>3, <1>4, <1>5, <1>6 DEF IInv

(* The end of an append: the event is delivered.                           *)
LEMMA FillSummaryIInv == IInv /\ FillSummary => IInv'
<1> SUFFICES ASSUME IInv, FillSummary PROVE IInv'
  OBVIOUS
<1> DEFINE new == [seq |-> log.next - 1, kind |-> appending, sound |-> log.sound]
<1>1. /\ workerPc = "fill" /\ appending \in Kinds /\ appending' = None
      /\ UNCHANGED <<events, intact, workerFrame>>
      /\ delivered' = [delivered EXCEPT ![log.run] = @ \cup {new}]
      /\ \/ workerPc' = "none" /\ log' = None
         \/ workerPc' = "ready" /\ log' = log
  BY DEF FillSummary, IInv, ActiveInv
<1>2. log \in Log /\ log.run \in Runs /\ log.next - 1 \in 1..MaxEvents
  <2>1. log.next \in 1..MaxEvents + 1 /\ log.next > 1 /\ log \in Log /\ log.run \in Runs
    BY <1>1, Active DEF IInv, ActiveInv
  <2> QED
    BY <2>1, LogAssumption
<1>3. new \in Delivery
  BY <1>1, <1>2 DEF Delivery, Log
<1>4. TypeOK'
  <2>1. delivered' \in [Runs -> SUBSET Delivery]
    <3> HIDE DEF new
    <3> QED
      BY <1>1, <1>2, <1>3 DEF IInv, TypeOK
  <2> QED
    BY <1>1, <2>1 DEF IInv, TypeOK, WorkerPc, workerFrame, mainVars, listVars
<1>5. MainInv'
  BY <1>1 DEF IInv, MainInv, workerFrame, mainVars
<1>6. ActiveInv' /\ CountInv'
  BY <1>1 DEF IInv, ActiveInv, CountInv, Exists
<1>7. DurableInv'
  <2> SUFFICES ASSUME NEW r \in Runs, NEW d \in delivered'[r], d.sound = TRUE
               PROVE  Durable(r, d)
    BY <1>1 DEF DurableInv, Durable, Exists
  <2>1. CASE d \in delivered[r]
    BY <2>1 DEF IInv, DurableInv
  <2>2. CASE d \notin delivered[r]
    <3>1. r = log.run /\ d = new
      BY <1>1, <2>2 DEF IInv, TypeOK
    <3>2. d.seq = log.next - 1 /\ d.kind = appending /\ log.sound = TRUE
      BY <3>1
    <3> HIDE DEF new
    <3>3. /\ Len(events[log.run].lines) = log.next - 1
          /\ events[log.run].ended = TRUE
          /\ events[log.run].lines[log.next - 1] = appending
      BY <1>1, <3>2 DEF IInv, CountInv
    <3>4. Exists(log.run)
      BY <1>1, Active
    <3> QED
      BY <1>2, <3>1, <3>2, <3>3, <3>4 DEF Durable
  <2> QED
    BY <2>1, <2>2
<1> QED
  BY <1>4, <1>5, <1>6, <1>7 DEF IInv

(* A worker or a process that is gone leaves its file as it is.            *)
LEMMA GoneIInv == IInv /\ (WorkerFails \/ Crash) => IInv'
<1> SUFFICES ASSUME IInv, WorkerFails \/ Crash PROVE IInv'
  OBVIOUS
<1>1. /\ workerPc' = "none" /\ log' = None /\ appending' = None
      /\ UNCHANGED <<events, delivered, dirs, atStart>>
      /\ intact' \in BOOLEAN
  BY DEF WorkerFails, Crash, WorkerGone, workerFrame, listVars, IInv, TypeOK
<1>2. TypeOK'
  <2>1. crashes' \in 0..MaxCrashes
    BY LogAssumption DEF WorkerFails, Crash, workerFrame, IInv, TypeOK
  <2>2. mainPc' \in MainPc /\ target' \in {None} \cup Runs /\ todo' \subseteq Runs
    BY DEF WorkerFails, Crash, workerFrame, mainVars, IInv, TypeOK, MainPc
  <2> QED
    BY <1>1, <2>1, <2>2 DEF IInv, TypeOK, WorkerPc
<1>3. ActiveInv' /\ CountInv'
  BY <1>1 DEF ActiveInv, CountInv
<1>4. MainInv'
  BY <1>1 DEF WorkerFails, Crash, workerFrame, mainVars, IInv, MainInv
<1>5. DurableInv'
  BY <1>1 DEF IInv, DurableInv, Durable, Exists
<1> QED
  BY <1>2, <1>3, <1>4, <1>5 DEF IInv
-----------------------------------------------------------------------------
(* The steps of the request loop that touch logs.                          *)
LEMMA OpenRunIInv == ASSUME IInv, NEW r \in Runs, OpenRun(r) PROVE IInv'
<1>1. /\ mainPc = "idle" /\ workerPc' = "ready" /\ Exists(r)
      /\ UNCHANGED <<mainFrame, dirs, events, mainVars, listVars, delivered>>
      /\ log' = [run |-> r, next |-> Length(r) + 1, fresh |-> TRUE,
                 sound |-> events[r].ended]
  BY DEF OpenRun, Exists
<1>2. /\ Length(r) = Len(events[r].lines) /\ Len(events[r].lines) \in 0..MaxEvents
      /\ events[r].ended \in BOOLEAN
  <2>1. /\ Len(events[r].lines) \in Nat /\ Len(events[r].lines) <= MaxEvents
        /\ Length(r) = Len(events[r].lines) /\ events[r].ended \in BOOLEAN
    BY <1>1, FileType DEF Length, IInv, TypeOK, Exists
  <2> QED
    BY <2>1, LogAssumption
<1>3. log' \in Log /\ log'.run = r /\ log'.next = Length(r) + 1
      /\ (log'.sound = TRUE => events[r].ended = TRUE)
  <2>1. Length(r) + 1 \in 1..MaxEvents + 1
    BY <1>2, LogAssumption
  <2> QED
    BY <1>1, <1>2, <2>1 DEF Log
<1>4. TypeOK'
  BY <1>1, <1>3 DEF IInv, TypeOK, WorkerPc, mainFrame, mainVars, listVars
<1>5. ActiveInv'
  BY <1>1, <1>3 DEF ActiveInv, Exists
<1>6. CountInv'
  BY <1>1, <1>2, <1>3 DEF CountInv
<1>7. MainInv'
  BY <1>1 DEF IInv, MainInv, mainVars
<1>8. DurableInv'
  BY <1>1 DEF IInv, DurableInv, Durable, Exists
<1> QED
  BY <1>4, <1>5, <1>6, <1>7, <1>8 DEF IInv

(* create_run makes an empty log.                                          *)
LEMMA CreateEventsIInv == IInv /\ CreateEvents => IInv'
<1> SUFFICES ASSUME IInv, CreateEvents PROVE IInv'
  OBVIOUS
<1> DEFINE empty == [lines |-> <<>>, ended |-> TRUE]
<1>1. /\ mainPc = "creating" /\ mainPc' = "createSummary" /\ target \in Runs
      /\ workerPc = "none" /\ events[target] = NoFile
      /\ UNCHANGED <<mainFrame, dirs, workerPc, log, target, todo, listVars, delivered>>
      /\ events' = [events EXCEPT ![target] = empty]
  BY DEF CreateEvents, IInv, MainInv
<1>2. empty \in EventsFile /\ Len(empty.lines) = 0
  BY DEF EventsFile
<1>3. events' \in [Runs -> {NoFile} \cup EventsFile] /\ events'[target] = empty
      /\ \A r \in Runs : r # target => events'[r] = events[r]
  <2> HIDE DEF empty
  <2> QED
    BY <1>1, <1>2 DEF IInv, TypeOK
<1>4. TypeOK'
  <2>1. \A r \in Runs : events'[r] # NoFile => Len(events'[r].lines) <= MaxEvents
    <3> HIDE DEF empty
    <3> QED
      BY <1>2, <1>3, LogAssumption DEF IInv, TypeOK
  <2> QED
    BY <1>1, <1>3, <2>1 DEF IInv, TypeOK, MainPc, mainFrame, listVars
<1>5. ActiveInv' /\ CountInv' /\ MainInv'
  BY <1>1, <1>3 DEF ActiveInv, CountInv, MainInv
<1>6. DurableInv'
  BY <1>1, <1>3 DEF IInv, DurableInv, Durable, Exists
<1> QED
  BY <1>4, <1>5, <1>6 DEF IInv

(* create_run ends, and the worker is ready.                               *)
LEMMA CreateFillIInv == IInv /\ CreateFill => IInv'
<1> SUFFICES ASSUME IInv, CreateFill PROVE IInv'
  OBVIOUS
<1>1. /\ mainPc = "createFill" /\ mainPc' = "idle" /\ workerPc' = "ready"
      /\ target \in Runs /\ target' = None
      /\ events[target] = [lines |-> <<>>, ended |-> TRUE]
      /\ UNCHANGED <<mainFrame, dirs, events, todo, listVars, delivered>>
      /\ log' = [run |-> target, next |-> 1, fresh |-> TRUE, sound |-> TRUE]
  BY DEF CreateFill, IInv, MainInv
<1>2. log' \in Log /\ log'.run = target /\ log'.next = 1
  BY <1>1, LogAssumption DEF Log
<1>3. Exists(target) /\ Len(events[target].lines) = 0 /\ events[target].ended = TRUE
  <2>1. events[target] \in EventsFile
    BY <1>1 DEF EventsFile
  <2>2. events[target] # NoFile
    BY <2>1, LogAssumption
  <2>3. events[target].lines = <<>> /\ events[target].ended = TRUE
    BY <1>1
  <2> QED
    BY <2>2, <2>3 DEF Exists
<1>4. TypeOK'
  BY <1>1, <1>2 DEF IInv, TypeOK, WorkerPc, MainPc, mainFrame, listVars
<1>5. ActiveInv' /\ CountInv' /\ MainInv'
  BY <1>1, <1>2, <1>3 DEF ActiveInv, CountInv, MainInv, Exists
<1>6. DurableInv'
  BY <1>1 DEF IInv, DurableInv, Durable, Exists
<1> QED
  BY <1>4, <1>5, <1>6 DEF IInv

(* delete_run removes a log, never the one of the active run.              *)
LEMMA DeleteEventsIInv == IInv /\ DeleteEvents => IInv'
<1> SUFFICES ASSUME IInv, DeleteEvents PROVE IInv'
  OBVIOUS
<1>1. /\ mainPc = "deleting" /\ target \in Runs /\ (workerPc # "none" => log.run # target)
      /\ UNCHANGED <<mainFrame, dirs, workerPc, log, mainVars, listVars>>
      /\ events' = [events EXCEPT ![target] = NoFile]
      /\ delivered' = [delivered EXCEPT ![target] = {}]
  BY DEF DeleteEvents, IInv, MainInv
<1>2. /\ events'[target] = NoFile /\ delivered'[target] = {}
      /\ \A r \in Runs : r # target =>
           events'[r] = events[r] /\ delivered'[r] = delivered[r]
  BY <1>1 DEF IInv, TypeOK
<1>3. TypeOK'
  <2>1. events' \in [Runs -> {NoFile} \cup EventsFile]
        /\ delivered' \in [Runs -> SUBSET Delivery]
    BY <1>1 DEF IInv, TypeOK
  <2>2. \A r \in Runs : events'[r] # NoFile => Len(events'[r].lines) <= MaxEvents
    BY <1>2 DEF IInv, TypeOK
  <2> QED
    BY <1>1, <2>1, <2>2 DEF IInv, TypeOK, mainFrame, mainVars, listVars
<1>4. ActiveInv' /\ CountInv'
  <2>1. workerPc # "none" => events'[log.run] = events[log.run]
    BY <1>1, <1>2, Active
  <2> QED
    BY <1>1, <2>1 DEF IInv, ActiveInv, CountInv, Exists, mainFrame
<1>5. MainInv'
  BY <1>1 DEF IInv, MainInv, mainVars
<1>6. DurableInv'
  BY <1>2 DEF IInv, DurableInv, Durable, Exists
<1> QED
  BY <1>3, <1>4, <1>5, <1>6 DEF IInv
-----------------------------------------------------------------------------
(* No step at all.                                                         *)
LEMMA StutterIInv == IInv /\ UNCHANGED vars => IInv'
<1> SUFFICES ASSUME IInv, UNCHANGED vars PROVE IInv'
  OBVIOUS
<1>1. ActiveInv' /\ CountInv' /\ DurableInv'
  BY OtherSteps DEF vars, storeVars, workerVars
<1>2. TypeOK' /\ MainInv'
  BY DEF IInv, TypeOK, MainInv, vars, storeVars, workerVars, mainVars, listVars
<1> QED
  BY <1>1, <1>2 DEF IInv

(* The invariant is inductive.                                             *)
LEMMA StepIInv == IInv /\ [Next]_vars => IInv'
<1>1. ASSUME IInv, WorkerStep PROVE IInv'
  BY <1>1, BeginEventIInv, FinishEventIInv, EndLineIInv, SummaryIInv, FillSummaryIInv,
     GoneIInv DEF WorkerStep
<1>2. ASSUME IInv, MainStep PROVE IInv'
  BY <1>2, OpenRunIInv, CreateEventsIInv, CreateFillIInv, DeleteEventsIInv, ReadsIInv
     DEF MainStep, Reads
<1> QED
  BY <1>1, <1>2, GoneIInv, StutterIInv DEF Next

(* The inductive invariant holds in every reachable state, for any runs    *)
(* (RunLog::append, RunLogStore).                                          *)
THEOREM Invariance == Spec => []IInv
<1> QED
  BY InitIInv, StepIInv, PTL DEF Spec

(* Type correctness of the files, the worker and the request loop          *)
(* (RunLog, RunLogStore).                                                  *)
THEOREM TypeCorrect == Spec => []TypeOK
<1>1. IInv => TypeOK
  BY DEF IInv
<1> QED
  BY <1>1, Invariance, PTL

(* An event that was delivered stays on disk under its seq, through        *)
(* crashes, failed appends, later turns, listings and deletions of other   *)
(* runs (RunLog::append, open_run, create_run, delete_run).                *)
THEOREM DeliveredEventsAreDurable == Spec => []DeliveredIsDurable
<1>1. IInv => DeliveredIsDurable
  <2> SUFFICES ASSUME IInv, NEW r \in Runs, NEW d \in delivered[r], d.sound
               PROVE  OnDisk(r, d)
    BY DEF DeliveredIsDurable
  <2>1. d \in Delivery /\ d.sound = TRUE
    BY DEF IInv, TypeOK, Delivery
  <2> QED
    BY <2>1 DEF IInv, DurableInv, Durable, OnDisk, Length, Exists
<1> QED
  BY <1>1, Invariance, PTL
-----------------------------------------------------------------------------
(* The last mark among the first n lines.                                  *)
LEMMA LastMark ==
  ASSUME NEW n \in Nat, NEW S \in SUBSET (1..n), S # {}
  PROVE  \E i \in S : \A j \in S : j <= i
<1> DEFINE T == {n - i : i \in S}
<1>1. T \in SUBSET Nat /\ T # {}
  <2>1. \A i \in S : n - i \in Nat
    OBVIOUS
  <2> QED
    BY <2>1
<1>2. PICK x \in T : \A y \in T : ~ (y < x)
  BY <1>1, Smallest
<1>3. PICK i \in S : x = n - i
  OBVIOUS
<1>4. ASSUME NEW j \in S PROVE j <= i
  <2>1. n - j \in T /\ ~ (n - j < n - i)
    BY <1>2, <1>3
  <2>2. i \in 1..n /\ j \in 1..n
    OBVIOUS
  <2> HIDE DEF T
  <2> QED
    BY <2>1, <2>2
<1> QED
  BY <1>4

(* The first n lines decide what StatusAt says of them.                    *)
LEMMA StatusPrefix ==
  ASSUME NEW n \in Nat, NEW a, NEW b, \A i \in 1..n : a[i] = b[i]
  PROVE  StatusAt(a, n) = StatusAt(b, n)
<1> DEFINE Latest(S) == CHOOSE i \in S : \A j \in S : j <= i
           marks   == {i \in 1..n : a[i] # "other"}
           others  == {i \in 1..n : b[i] # "other"}
<1>1. marks = others
  OBVIOUS
<1>2. marks # {} => Latest(marks) \in marks
  <2>1. marks \in SUBSET (1..n)
    OBVIOUS
  <2> HIDE DEF marks
  <2>2. marks # {} => \E i \in marks : \A j \in marks : j <= i
    BY <2>1, LastMark
  <2> QED
    BY <2>2
<1>3. marks # {} => a[Latest(marks)] = b[Latest(marks)]
  BY <1>2
<1>4. StatusAt(a, n) =
        IF marks = {} \/ a[Latest(marks)] = "run.started" THEN "running" ELSE a[Latest(marks)]
  BY DEF StatusAt
<1>5. StatusAt(b, n) =
        IF others = {} \/ b[Latest(others)] = "run.started" THEN "running" ELSE b[Latest(others)]
  BY DEF StatusAt
<1> HIDE DEF Latest, marks, others
<1> QED
  BY <1>1, <1>3, <1>4, <1>5

(* RunSummary::apply_event, one more event at a time, says what StatusAt   *)
(* says of them all.                                                       *)
LEMMA StatusNext ==
  ASSUME NEW n \in Nat, NEW lines, lines[n + 1] \in Kinds
  PROVE  StatusAt(lines, n + 1) = StatusAfter(StatusAt(lines, n), lines[n + 1])
<1> DEFINE Latest(S) == CHOOSE i \in S : \A j \in S : j <= i
           marks == {i \in 1..n : lines[i] # "other"}
           more  == {i \in 1..n + 1 : lines[i] # "other"}
           kind  == lines[n + 1]
<1>1. StatusAt(lines, n) =
        IF marks = {} \/ lines[Latest(marks)] = "run.started" THEN "running"
        ELSE lines[Latest(marks)]
  BY DEF StatusAt
<1>2. StatusAt(lines, n + 1) =
        IF more = {} \/ lines[Latest(more)] = "run.started" THEN "running"
        ELSE lines[Latest(more)]
  BY DEF StatusAt
<1>3. CASE kind = "other"
  <2>1. more = marks
    <3>1. \A i \in 1..n + 1 : i \in 1..n \/ i = n + 1
      OBVIOUS
    <3>2. \A i \in 1..n : i \in 1..n + 1
      OBVIOUS
    <3> QED
      BY <1>3, <3>1, <3>2
  <2>2. "other" \notin Terminals
    BY LogAssumption
  <2> HIDE DEF marks, more, Latest
  <2>3. StatusAt(lines, n + 1) = StatusAt(lines, n)
    BY <1>1, <1>2, <2>1
  <2> QED
    BY <1>3, <2>2, <2>3 DEF StatusAfter
<1>4. CASE kind # "other"
  <2>1. n + 1 \in more /\ \A j \in more : j <= n + 1
    BY <1>4
  <2>2. Latest(more) = n + 1
    <3>1. \A i \in more : i \in Nat
      OBVIOUS
    <3> HIDE DEF more
    <3>2. Latest(more) \in more /\ \A j \in more : j <= Latest(more)
      BY <2>1
    <3> HIDE DEF Latest
    <3> QED
      BY <2>1, <3>1, <3>2
  <2>3. more # {}
    BY <2>1
  <2> HIDE DEF more, marks, Latest
  <2>4. StatusAt(lines, n + 1) = IF kind = "run.started" THEN "running" ELSE kind
    BY <1>2, <2>2, <2>3
  <2>5. kind = "run.started" \/ kind \in Terminals
    BY <1>4 DEF Kinds
  <2> QED
    BY <2>4, <2>5 DEF StatusAfter
<1> QED
  BY <1>3, <1>4

(* What s says of a run is its history up to one of the first n lines.     *)
HistoryOf(s, lines, n) ==
  s.count \in 0..n /\ s = SummaryAt(lines, s.count)

(* A history stays one when lines are added.                               *)
LEMMA HistoryStays ==
  ASSUME NEW n \in Nat, NEW m \in Nat, n <= m, NEW a, NEW b,
         \A i \in 1..n : a[i] = b[i], NEW s, HistoryOf(s, a, n)
  PROVE  HistoryOf(s, b, m)
<1>1. s.count \in 0..n /\ s.count \in Nat /\ s = SummaryAt(a, s.count)
  BY DEF HistoryOf
<1>2. s.count \in 0..m /\ \A i \in 1..s.count : a[i] = b[i]
  BY <1>1
<1>3. StatusAt(a, s.count) = StatusAt(b, s.count)
  BY <1>1, <1>2, StatusPrefix
<1>4. SummaryAt(a, s.count) = SummaryAt(b, s.count)
  BY <1>3 DEF SummaryAt
<1> QED
  BY <1>1, <1>2, <1>4 DEF HistoryOf

(* The history of all lines is one.                                        *)
LEMMA WholeHistory ==
  ASSUME NEW n \in Nat, NEW lines
  PROVE  HistoryOf(SummaryAt(lines, n), lines, n) /\ SummaryAt(lines, n).count = n
BY DEF HistoryOf, SummaryAt

(* update_summary: a history of all lines but the last, and the last.      *)
LEMMA HistoryGrows ==
  ASSUME NEW n \in Nat, NEW lines, lines[n + 1] \in Kinds,
         NEW s, HistoryOf(s, lines, n), s.count = n
  PROVE  HistoryOf(Applied(s, lines[n + 1], n + 1), lines, n + 1)
<1>1. s = [last |-> n, count |-> n, status |-> StatusAt(lines, n), mixed |-> FALSE]
  BY DEF HistoryOf, SummaryAt
<1>2. s.status = StatusAt(lines, n) /\ s.mixed = FALSE
  BY <1>1
<1>3. Applied(s, lines[n + 1], n + 1) = SummaryAt(lines, n + 1)
  BY <1>2, StatusNext DEF Applied, SummaryAt
<1> QED
  BY <1>3, WholeHistory

(* What s says is history, if it is not a blend of two texts.              *)
Honest(s, lines, n) == ~s.mixed => HistoryOf(s, lines, n)

(* read_summary: what is read in honest texts is honest, and stays what it *)
(* is when an event is applied to it.                                      *)
LEMMA ReadingIsHonest ==
  ASSUME NEW lines, NEW n, NEW texts,
         \A t \in texts \ {Torn} : Honest(t, lines, n),
         NEW s \in Readings(texts), s # Torn
  PROVE  /\ Honest(s, lines, n)
         /\ \A k, seq : Applied(s, k, seq).mixed = s.mixed
<1>1. PICK a, b, c \in texts \ {Torn} :
        s = [last |-> a.last, count |-> b.count, status |-> c.status,
             mixed |-> a.mixed \/ a # b \/ b # c]
  BY DEF Readings, Blend
<1>2. ASSUME ~s.mixed PROVE HistoryOf(s, lines, n)
  <2>1. ~a.mixed /\ a = b /\ b = c
    BY <1>1, <1>2
  <2>2. HistoryOf(a, lines, n)
    BY <2>1 DEF Honest
  <2>3. a = [last |-> a.count, count |-> a.count, status |-> StatusAt(lines, a.count),
             mixed |-> FALSE]
    BY <2>2 DEF HistoryOf, SummaryAt
  <2>4. s = a
    <3>1. a.mixed = FALSE
      BY <2>3
    <3>2. (a.mixed \/ a # b \/ b # c) = FALSE
      BY <2>1, <3>1
    <3>3. s = [last |-> a.last, count |-> a.count, status |-> a.status, mixed |-> FALSE]
      BY <1>1, <2>1, <3>2, Zenon
    <3>4. a.last = a.count /\ a.status = StatusAt(lines, a.count)
      BY <2>3
    <3> QED
      BY <2>3, <3>3, <3>4, Zenon
  <2> QED
    BY <2>2, <2>4
<1>3. \A k, seq : Applied(s, k, seq).mixed = s.mixed
  BY <1>1 DEF Applied
<1> QED
  BY <1>2, <1>3 DEF Honest
-----------------------------------------------------------------------------
(* The lines of a log that no step will change any more: all of them, but  *)
(* for one the worker is writing.                                          *)
Writing(r) == workerPc = "event" /\ log.run = r
Settled(r) == IF Writing(r) THEN Length(r) - 1 ELSE Length(r)

(* A log that can be read, as soon as the line being written is complete.  *)
Whole(r) ==
  /\ Exists(r) /\ (Writing(r) => intact = TRUE)
  /\ \A i \in 1..Settled(r) : events[r].lines[i] # Torn

(* A line without its newline is there, and one being written is torn.     *)
LineInv ==
  /\ \A r \in Runs : Exists(r) /\ events[r].ended = FALSE => Len(events[r].lines) > 0
  /\ workerPc = "event" =>
       /\ Len(events[log.run].lines) > 0
       /\ events[log.run].lines[Len(events[log.run].lines)] = Torn

(* Whole logs only grow.                                                   *)
Grows(r) ==
  (Whole(r))' =>
    /\ Whole(r) /\ (Settled(r))' \in Nat /\ Settled(r) <= (Settled(r))'
    /\ \A i \in 1..Settled(r) : events'[r].lines[i] = events[r].lines[i]

(* The settled lines of a log are among its lines.                         *)
LEMMA SettledType ==
  ASSUME IInv, LineInv, NEW r \in Runs
  PROVE  /\ Length(r) \in Nat /\ Settled(r) \in Nat /\ Settled(r) <= Length(r)
         /\ Exists(r) => Length(r) = Len(events[r].lines)
         /\ workerPc \in WorkerPc /\ intact \in BOOLEAN
<1>1. Exists(r) => Len(events[r].lines) \in Nat
  BY FileType
<1>2. Length(r) \in Nat /\ (Exists(r) => Length(r) = Len(events[r].lines))
  BY <1>1 DEF Length, Exists
<1>3. Writing(r) => Length(r) > 0
  BY <1>2, Active DEF Writing, LineInv
<1> QED
  BY <1>2, <1>3 DEF Settled, IInv, TypeOK

(* What a step of the worker does to its file.                             *)
LEMMA BeginShape ==
  ASSUME IInv, NEW k \in Kinds, BeginEvent(k)
  PROVE  LET old == events[log.run]  new == events'[log.run] IN
         /\ workerPc = "ready" /\ workerPc' = "event" /\ log'.run = log.run
         /\ log.run \in Runs /\ old \in EventsFile /\ Exists(log.run) /\ (Exists(log.run))'
         /\ \A r \in Runs : r # log.run => events'[r] = events[r]
         /\ intact' = old.ended /\ new.ended = FALSE
         /\ old.ended = TRUE =>
              /\ Len(new.lines) = Len(old.lines) + 1
              /\ \A i \in 1..Len(old.lines) : new.lines[i] = old.lines[i]
         /\ old.ended = FALSE => Len(new.lines) = Len(old.lines)
         /\ \A i \in 1..Len(old.lines) - 1 : new.lines[i] = old.lines[i]
         /\ Len(new.lines) > 0 => new.lines[Len(new.lines)] = Torn
<1> DEFINE old  == events[log.run]
           file == IF old.ended
                   THEN [lines |-> Append(old.lines, Torn), ended |-> FALSE]
                   ELSE WithLast(old, Torn)
<1>1. workerPc = "ready" /\ workerPc' = "event"
      /\ log' = [log EXCEPT !.fresh = FALSE]
      /\ events' = [events EXCEPT ![log.run] = file] /\ intact' = old.ended
  BY DEF BeginEvent
<1>2. log \in Log /\ log.run \in Runs /\ old \in EventsFile /\ Exists(log.run)
  BY <1>1, Active
<1>3. log'.run = log.run
  BY <1>1, <1>2 DEF Log
<1>4. events'[log.run] = file /\ \A r \in Runs : r # log.run => events'[r] = events[r]
  <2> HIDE DEF file
  <2> QED
    BY <1>1, <1>2 DEF IInv, TypeOK
<1>5. /\ file \in EventsFile /\ file.ended = FALSE
      /\ old.ended = TRUE =>
           /\ Len(file.lines) = Len(old.lines) + 1
           /\ \A i \in 1..Len(old.lines) : file.lines[i] = old.lines[i]
      /\ old.ended = FALSE => Len(file.lines) = Len(old.lines)
      /\ \A i \in 1..Len(old.lines) - 1 : file.lines[i] = old.lines[i]
      /\ Len(file.lines) > 0 => file.lines[Len(file.lines)] = Torn
  <2>1. file = IF old.ended
               THEN [lines |-> Append(old.lines, Torn), ended |-> FALSE]
               ELSE WithLast(old, Torn)
    OBVIOUS
  <2> HIDE DEF file, old
  <2> QED
    BY <1>2, <2>1, BeginFile
<1> HIDE DEF file
<1>6. file # NoFile
  BY <1>5, LogAssumption
<1> QED
  BY <1>1, <1>2, <1>3, <1>4, <1>5, <1>6 DEF Exists

(* The line is completed, unless it continues another.                     *)
LEMMA FinishShape ==
  ASSUME IInv, FinishEvent
  PROVE  LET old == events[log.run]  new == events'[log.run] IN
         /\ workerPc = "event" /\ workerPc' = "newline" /\ log' = log /\ intact' = intact
         /\ log.run \in Runs /\ old \in EventsFile /\ Exists(log.run) /\ (Exists(log.run))'
         /\ \A r \in Runs : r # log.run => events'[r] = events[r]
         /\ Len(new.lines) = Len(old.lines) /\ new.ended = old.ended
         /\ \A i \in 1..Len(old.lines) - 1 : new.lines[i] = old.lines[i]
         /\ intact = TRUE /\ Len(old.lines) > 0 => new.lines[Len(old.lines)] = appending
         /\ intact = FALSE => new = old
<1> DEFINE old  == events[log.run]
           file == IF intact THEN WithLast(old, appending) ELSE old
<1>1. workerPc = "event" /\ workerPc' = "newline" /\ log' = log /\ intact' = intact
      /\ appending \in Kinds /\ intact \in BOOLEAN
  BY DEF FinishEvent, IInv, ActiveInv, TypeOK
<1>2. log.run \in Runs /\ old \in EventsFile /\ Exists(log.run) /\ log.run \in DOMAIN events
  BY <1>1, Active DEF IInv, TypeOK
<1>3. events' = [events EXCEPT ![log.run] = file]
  <2>1. CASE intact
    BY <2>1 DEF FinishEvent
  <2>2. CASE ~intact
    BY <1>2, <2>2 DEF FinishEvent, IInv, TypeOK
  <2> QED
    BY <2>1, <2>2
<1>4. events'[log.run] = file /\ \A r \in Runs : r # log.run => events'[r] = events[r]
  <2> HIDE DEF file
  <2> QED
    BY <1>2, <1>3 DEF IInv, TypeOK
<1>5. /\ file \in EventsFile /\ Len(file.lines) = Len(old.lines) /\ file.ended = old.ended
      /\ \A i \in 1..Len(old.lines) - 1 : file.lines[i] = old.lines[i]
      /\ intact = TRUE /\ Len(old.lines) > 0 => file.lines[Len(old.lines)] = appending
      /\ intact = FALSE => file = old
  <2>1. CASE intact
    <3>1. file = WithLast(old, appending)
      BY <2>1
    <3> HIDE DEF file, old
    <3> QED
      BY <1>1, <1>2, <2>1, <3>1, WithLastType
  <2>2. CASE ~intact
    <3>1. file = old /\ old.lines \in Seq({Torn} \cup Kinds)
      BY <1>1, <2>2, Active
    <3> HIDE DEF file, old
    <3> QED
      BY <1>2, <2>2, <3>1
  <2> QED
    BY <2>1, <2>2
<1> HIDE DEF file
<1>6. file # NoFile
  BY <1>5, LogAssumption
<1> QED
  BY <1>1, <1>2, <1>4, <1>5, <1>6 DEF Exists

(* The line is ended.                                                      *)
LEMMA EndShape ==
  ASSUME IInv, EndLine
  PROVE  LET old == events[log.run]  new == events'[log.run] IN
         /\ workerPc = "newline" /\ workerPc' = "summary"
         /\ log.run \in Runs /\ old \in EventsFile /\ Exists(log.run) /\ (Exists(log.run))'
         /\ log'.run = log.run
         /\ log'.next = log.next + 1
         /\ log'.fresh = log.fresh /\ log'.sound = log.sound /\ intact' = intact
         /\ \A r \in Runs : r # log.run => events'[r] = events[r]
         /\ new.lines = old.lines /\ new.ended = TRUE
<1>1. workerPc = "newline" /\ workerPc' = "summary"
      /\ log' = [log EXCEPT !.next = log.next + 1] /\ intact' = intact
      /\ events' = [events EXCEPT ![log.run].ended = TRUE]
  BY DEF EndLine
<1>2. log \in Log /\ log.run \in Runs /\ events[log.run] \in EventsFile /\ Exists(log.run)
  BY <1>1, Active
<1>3. /\ log'.run = log.run /\ log'.next = log.next + 1
      /\ log'.fresh = log.fresh /\ log'.sound = log.sound
  BY <1>1, <1>2 DEF Log
<1>4. /\ \A r \in Runs : r # log.run => events'[r] = events[r]
      /\ events'[log.run] = [events[log.run] EXCEPT !.ended = TRUE]
  BY <1>1, <1>2 DEF IInv, TypeOK
<1>5. /\ events'[log.run].lines = events[log.run].lines /\ events'[log.run].ended = TRUE
      /\ events'[log.run] \in EventsFile
  BY <1>2, <1>4 DEF EventsFile
<1> QED
  BY <1>1, <1>2, <1>3, <1>4, <1>5, LogAssumption DEF Exists
-----------------------------------------------------------------------------
(* Steps that leave the logs alone; the worker is not within a line.       *)
Between ==
  \/ OpenSummary \/ ReadSummary \/ Rebuild \/ TruncateSummary \/ FillSummary \/ CreateFill
  \/ \E r \in Runs : OpenRun(r)

(* Logs stay as they are while summaries are written.                      *)
LEMMA BetweenShape ==
  ASSUME IInv, Between
  PROVE  /\ events' = events /\ intact' = intact
         /\ workerPc # "event" /\ workerPc' # "event"
BY DEF Between, OpenSummary, ReadSummary, Rebuild, TruncateSummary, FillSummary, CreateFill, OpenRun,
   workerFrame, mainFrame, IInv, MainInv

(* Reads concern neither logs nor the worker.                              *)
LEMMA ReadsShape ==
  ASSUME Reads
  PROVE  UNCHANGED <<events, workerPc, log, appending, intact, update, crashes, delivered>>
BY DEF Reads, BeginList, EndList, ListRun, ListSummary, ListRead, ListCheck, ListRebuild,
   ListTruncate, ListFill, DeleteSummary, DeleteDir, DeleteFails, CreateSummary,
   CreateRun, BeginDelete, mainFrame, listFrame

(* What is left behind by a worker or a process that is gone.              *)
LEMMA GoneShape ==
  ASSUME IInv, WorkerFails \/ Crash
  PROVE  events' = events /\ workerPc' = "none" /\ update' = None /\ summary' = summary
         /\ dirs' = dirs /\ atStart' = atStart
BY DEF WorkerFails, Crash, WorkerGone, workerFrame, listVars

(* A new log is empty, and there is no worker.                             *)
LEMMA CreateShape ==
  ASSUME IInv, CreateEvents
  PROVE  /\ target \in Runs /\ workerPc = "none" /\ workerPc' = "none"
         /\ mainPc = "creating" /\ mainPc' = "createSummary"
         /\ events'[target] = [lines |-> <<>>, ended |-> TRUE]
         /\ \A r \in Runs : r # target => events'[r] = events[r]
         /\ UNCHANGED <<dirs, summary, log, target, listVars, intact, update, appending>>
BY DEF CreateEvents, mainFrame, listVars, IInv, MainInv, TypeOK

(* A deletion does not concern the log of the worker.                      *)
LEMMA DeleteShape ==
  ASSUME IInv, DeleteEvents
  PROVE  /\ target \in Runs /\ (workerPc # "none" => log.run # target)
         /\ mainPc = "deleting" /\ mainPc' = "deleting"
         /\ events'[target] = NoFile
         /\ \A r \in Runs : r # target => events'[r] = events[r]
         /\ UNCHANGED <<dirs, summary, workerPc, log, target, listVars, intact, update,
                        appending>>
BY DEF DeleteEvents, mainFrame, mainVars, listVars, IInv, MainInv, TypeOK

(* Every step is one of these.                                             *)
LEMMA StepKinds ==
  ASSUME Next
  PROVE  \/ Reads \/ Between \/ WorkerFails \/ Crash \/ CreateEvents \/ DeleteEvents
         \/ FinishEvent \/ EndLine \/ \E k \in Kinds : BeginEvent(k)
BY DEF Next, WorkerStep, MainStep, Reads, Between

(* A log that a step leaves alone.                                         *)
LEMMA SameGrows ==
  ASSUME IInv, LineInv, NEW r \in Runs, events'[r] = events[r],
         ~Writing(r), ~(Writing(r))'
  PROVE  Grows(r) /\ (Settled(r))' = Settled(r) /\ ((Whole(r))' <=> Whole(r))
<1>1. (Length(r))' = Length(r) /\ Length(r) \in Nat
  BY SettledType DEF Length
<1>2. (Settled(r))' = Length(r) /\ Settled(r) = Length(r)
  BY <1>1 DEF Settled
<1>3. (Whole(r))' <=> Whole(r)
  BY <1>1, <1>2 DEF Whole, Exists
<1> QED
  BY <1>1, <1>2, <1>3 DEF Grows

(* Every step but the creation of a log lets whole logs only grow.         *)
LEMMA StepGrows ==
  ASSUME IInv, LineInv, Next, NEW r \in Runs, CreateEvents => r # target
  PROVE  Grows(r)
<1>1. CASE Reads
  <2>1. UNCHANGED <<events, workerPc, log, intact>>
    BY <1>1, ReadsShape
  <2>2. (Settled(r))' = Settled(r) /\ ((Whole(r))' <=> Whole(r)) /\ Settled(r) \in Nat
    BY <2>1, SettledType DEF Settled, Whole, Writing, Length, Exists
  <2> QED
    BY <2>1, <2>2 DEF Grows
<1>2. CASE Between
  BY <1>2, BetweenShape, SameGrows DEF Writing
<1>3. CASE WorkerFails \/ Crash
  <2>1. events' = events /\ workerPc' = "none"
    BY <1>3, GoneShape
  <2>2. CASE Writing(r)
    <3>1. Exists(r) /\ Len(events[r].lines) > 0 /\ events[r].lines[Len(events[r].lines)] = Torn
          /\ Length(r) = Len(events[r].lines) /\ Len(events[r].lines) \in Nat
      BY <2>2, Active DEF Writing, LineInv
    <3>2. (Settled(r))' = Len(events[r].lines)
      BY <2>1, <3>1 DEF Settled, Writing, Length
    <3>3. ~(Whole(r))'
      BY <2>1, <3>1, <3>2 DEF Whole
    <3> QED
      BY <3>3 DEF Grows
  <2>3. CASE ~Writing(r)
    BY <2>1, <2>3, SameGrows DEF Writing
  <2> QED
    BY <2>2, <2>3
<1>4. CASE CreateEvents
  BY <1>4, CreateShape, SameGrows DEF Writing
<1>5. CASE DeleteEvents
  <2>1. CASE r = target
    <3>1. events'[r] = NoFile
      BY <1>5, <2>1, DeleteShape
    <3> QED
      BY <3>1 DEF Grows, Whole, Exists
  <2>2. CASE r # target
    <3>1. events'[r] = events[r] /\ UNCHANGED <<workerPc, log, intact>>
      BY <1>5, <2>2, DeleteShape
    <3>2. (Settled(r))' = Settled(r) /\ ((Whole(r))' <=> Whole(r)) /\ Settled(r) \in Nat
      BY <3>1, SettledType DEF Settled, Whole, Writing, Length, Exists
    <3> QED
      BY <3>1, <3>2 DEF Grows
  <2> QED
    BY <2>1, <2>2
<1>6. CASE FinishEvent
  <2>1. CASE r = log.run
    <3>1. /\ workerPc = "event" /\ workerPc' = "newline"
          /\ Exists(r) /\ (Exists(r))' /\ intact' = intact
          /\ Len(events'[r].lines) = Len(events[r].lines)
          /\ \A i \in 1..Len(events[r].lines) - 1 : events'[r].lines[i] = events[r].lines[i]
          /\ intact = FALSE => events'[r] = events[r]
      BY <1>6, <2>1, FinishShape
    <3>2. /\ Len(events[r].lines) > 0 /\ events[r].lines[Len(events[r].lines)] = Torn
          /\ Length(r) = Len(events[r].lines) /\ Len(events[r].lines) \in Nat
          /\ intact \in BOOLEAN
      BY <2>1, <3>1, Active DEF LineInv, IInv, TypeOK
    <3>3. Writing(r) /\ ~(Writing(r))'
      BY <2>1, <3>1 DEF Writing
    <3>4. Settled(r) = Len(events[r].lines) - 1 /\ (Settled(r))' = Len(events[r].lines)
      BY <3>1, <3>2, <3>3 DEF Settled, Length, Exists
    <3>5. (Whole(r))' => intact = TRUE
      BY <3>1, <3>2, <3>4 DEF Whole
    <3>6. Settled(r) <= (Settled(r))' /\ Settled(r) \in Nat /\ (Settled(r))' \in Nat
          /\ \A i \in 1..Settled(r) : i \in 1..(Settled(r))'
      BY <3>2, <3>4
    <3>7. \A i \in 1..Settled(r) : events'[r].lines[i] = events[r].lines[i]
      BY <3>1, <3>4
    <3>8. (Whole(r))' => Whole(r)
      BY <3>1, <3>5, <3>6, <3>7 DEF Whole
    <3> QED
      BY <3>6, <3>7, <3>8 DEF Grows
  <2>2. CASE r # log.run
    BY <1>6, <2>2, FinishShape, SameGrows DEF Writing
  <2> QED
    BY <2>1, <2>2
<1>7. CASE EndLine
  <2>1. workerPc # "event" /\ workerPc' # "event" /\ ((Exists(r))' <=> Exists(r))
        /\ (Exists(r) => events'[r].lines = events[r].lines)
    BY <1>7, EndShape DEF Exists
  <2>2. (Length(r))' = Length(r) /\ Length(r) \in Nat
    BY <2>1, SettledType DEF Length, Exists
  <2>3. (Settled(r))' = Length(r) /\ Settled(r) = Length(r)
    BY <2>1, <2>2 DEF Settled, Writing
  <2> QED
    BY <2>1, <2>2, <2>3 DEF Grows, Whole, Writing
<1>8. ASSUME NEW k \in Kinds, BeginEvent(k) PROVE Grows(r)
  <2>1. CASE r = log.run
    <3>1. /\ workerPc = "ready" /\ workerPc' = "event" /\ log'.run = r
          /\ Exists(r) /\ (Exists(r))' /\ intact' = events[r].ended
          /\ events[r].ended = TRUE =>
               /\ Len(events'[r].lines) = Len(events[r].lines) + 1
               /\ \A i \in 1..Len(events[r].lines) : events'[r].lines[i] = events[r].lines[i]
      BY <1>8, <2>1, BeginShape
    <3>2. ~Writing(r) /\ (Writing(r))'
      BY <3>1 DEF Writing
    <3>3. (Whole(r))' => events[r].ended = TRUE
      BY <3>1, <3>2 DEF Whole
    <3>4. Length(r) = Len(events[r].lines) /\ Length(r) \in Nat /\ Settled(r) = Length(r)
      BY <3>1, <3>2, SettledType DEF Settled
    <3>5. events[r].ended = TRUE => (Settled(r))' = Settled(r)
      BY SMTT(30), <3>1, <3>2, <3>4 DEF Settled, Length, Exists
    <3> QED
      BY <3>1, <3>2, <3>3, <3>4, <3>5 DEF Grows, Whole
  <2>2. CASE r # log.run
    BY <1>8, <2>2, BeginShape, SameGrows DEF Writing
  <2> QED
    BY <2>1, <2>2
<1> QED
  BY <1>1, <1>2, <1>3, <1>4, <1>5, <1>6, <1>7, <1>8, StepKinds
-----------------------------------------------------------------------------
(* A directory is there before its files, and after them.                  *)
DirInv ==
  /\ \A r \in Runs \ dirs : events[r] = NoFile /\ summary[r] = {}
  /\ mainPc \in {"creating", "createSummary", "createFill"} => target \in dirs
  /\ mainPc \in {"creating", "createSummary"} => summary[target] = {}

(* A log that was opened within a line cannot be read again: the first     *)
(* event of the turn continues that line.                                  *)
UnsoundInv ==
  workerPc # "none" =>
    /\ log.fresh = TRUE => workerPc = "ready"
    /\ log.sound = FALSE =>
         IF log.fresh = TRUE THEN events[log.run].ended = FALSE ELSE ~Whole(log.run)

(* Lines are ended one at a time.                                          *)
LEMMA LineInvStep ==
  ASSUME IInv, LineInv, Next
  PROVE  LineInv'
<1>1. CASE Reads
  <2>1. UNCHANGED <<events, workerPc, log>>
    BY <1>1, ReadsShape
  <2> QED
    BY <2>1 DEF LineInv, Exists
<1>2. CASE Between \/ WorkerFails \/ Crash
  <2>1. events' = events /\ workerPc' # "event"
    BY <1>2, BetweenShape, GoneShape
  <2> QED
    BY <2>1 DEF LineInv, Exists
<1>3. CASE CreateEvents
  <2>1. events'[target].ended = TRUE /\ workerPc' # "event"
        /\ \A r \in Runs : r # target => events'[r] = events[r]
    BY <1>3, CreateShape
  <2> QED
    BY <2>1 DEF LineInv, Exists
<1>4. CASE DeleteEvents
  <2>1. /\ events'[target] = NoFile /\ workerPc' = workerPc /\ log' = log
        /\ \A r \in Runs : r # target => events'[r] = events[r]
        /\ workerPc # "none" => log.run # target
    BY <1>4, DeleteShape
  <2>2. workerPc = "event" => events'[log.run] = events[log.run]
    BY <2>1, Active
  <2> QED
    BY <2>1, <2>2 DEF LineInv, Exists
<1>5. CASE FinishEvent
  <2>1. /\ workerPc = "event" /\ workerPc' = "newline"
        /\ Len(events'[log.run].lines) = Len(events[log.run].lines)
        /\ \A r \in Runs : r # log.run => events'[r] = events[r]
    BY <1>5, FinishShape
  <2> QED
    BY <2>1 DEF LineInv, Exists
<1>6. CASE EndLine
  <2>1. /\ workerPc' = "summary" /\ events'[log.run].ended = TRUE
        /\ \A r \in Runs : r # log.run => events'[r] = events[r]
    BY <1>6, EndShape
  <2> QED
    BY <2>1 DEF LineInv, Exists
<1>7. ASSUME NEW k \in Kinds, BeginEvent(k) PROVE LineInv'
  <2> DEFINE old == events[log.run]  new == events'[log.run]
  <2>1. /\ workerPc' = "event" /\ log'.run = log.run /\ old \in EventsFile
        /\ log.run \in Runs /\ Exists(log.run)
        /\ \A r \in Runs : r # log.run => events'[r] = events[r]
        /\ old.ended = TRUE => Len(new.lines) = Len(old.lines) + 1
        /\ old.ended = FALSE => Len(new.lines) = Len(old.lines)
        /\ Len(new.lines) > 0 => new.lines[Len(new.lines)] = Torn
    BY <1>7, BeginShape
  <2>2. Len(old.lines) \in Nat /\ (old.ended = FALSE => Len(old.lines) > 0)
        /\ old.ended \in BOOLEAN
    BY <2>1, FileType DEF LineInv
  <2>3. Len(new.lines) > 0
    BY <2>1, <2>2
  <2> QED
    BY <2>1, <2>3 DEF LineInv, Exists
<1> QED
  BY <1>1, <1>2, <1>3, <1>4, <1>5, <1>6, <1>7, StepKinds

(* A log opened within a line stays unreadable.                            *)
LEMMA UnsoundInvStep ==
  ASSUME IInv, LineInv, UnsoundInv, Next
  PROVE  UnsoundInv'
<1>1. ASSUME workerPc # "none"
      PROVE  (Whole(log.run))' /\ log'.run = log.run => Whole(log.run)
  <2>1. ~CreateEvents
    BY <1>1, CreateShape
  <2>2. log.run \in Runs
    BY <1>1, Active
  <2>3. Grows(log.run)
    BY <2>1, <2>2, StepGrows
  <2> SUFFICES ASSUME (Whole(log.run))', log'.run = log.run PROVE Whole(log.run)
    OBVIOUS
  <2> QED
    BY <2>3 DEF Grows
<1>2. ASSUME workerPc # "none", log'.run = log.run, log'.sound = log.sound,
             log'.fresh = log.fresh, log.fresh = FALSE
      PROVE  UnsoundInv'
  <2>1. (Whole(log.run))' => Whole(log.run)
    BY <1>1, <1>2
  <2> QED
    BY <1>2, <2>1 DEF UnsoundInv
<1>3. CASE Reads \/ DeleteEvents
  <2>1. UNCHANGED <<workerPc, log>> /\ (workerPc # "none" => events'[log.run] = events[log.run])
    BY <1>3, ReadsShape, DeleteShape, Active
  <2>2. workerPc # "none" => log.fresh \in BOOLEAN
    BY Active DEF Log
  <2> QED
    BY <1>2, <2>1, <2>2 DEF UnsoundInv
<1>4. CASE WorkerFails \/ Crash \/ CreateEvents
  BY <1>4, GoneShape, CreateShape DEF UnsoundInv
<1>5. CASE \/ OpenSummary \/ ReadSummary \/ Rebuild \/ TruncateSummary \/ FillSummary
           \/ FinishEvent \/ EndLine
  <2>1. /\ workerPc # "none" /\ workerPc # "ready"
        /\ workerPc' # "none" => /\ log'.run = log.run /\ log'.sound = log.sound
                                 /\ log'.fresh = log.fresh
    <3>1. CASE OpenSummary \/ ReadSummary \/ Rebuild \/ TruncateSummary \/ FillSummary \/ FinishEvent
      BY <3>1 DEF OpenSummary, ReadSummary, Rebuild, TruncateSummary, FillSummary, FinishEvent
    <3>2. CASE EndLine
      BY <3>2, EndShape
    <3> QED
      BY <1>5, <3>1, <3>2
  <2>2. log.fresh = FALSE
    BY <2>1, Active DEF UnsoundInv, Log
  <2> QED
    BY <1>2, <2>1, <2>2 DEF UnsoundInv
<1>6. ASSUME NEW k \in Kinds, BeginEvent(k) PROVE UnsoundInv'
  <2>1. /\ workerPc = "ready" /\ workerPc' = "event" /\ log'.run = log.run
        /\ intact' = events[log.run].ended
    BY <1>6, BeginShape
  <2>2. log'.fresh = FALSE /\ log'.sound = log.sound /\ log.fresh \in BOOLEAN
    BY <1>6, Active DEF BeginEvent, Log
  <2>3. (Writing(log.run))'
    BY <2>1 DEF Writing
  <2>4. log.sound = FALSE /\ log.fresh = TRUE => ~(Whole(log.run))'
    BY <2>1, <2>3 DEF UnsoundInv, Whole
  <2>5. log.sound = FALSE /\ log.fresh = FALSE => ~(Whole(log.run))'
    BY <1>1, <2>1 DEF UnsoundInv
  <2> QED
    BY <2>1, <2>2, <2>4, <2>5 DEF UnsoundInv
<1>7. CASE CreateFill \/ \E r \in Runs : OpenRun(r)
  <2>1. workerPc' = "ready" /\ events' = events
        /\ (log'.sound = FALSE => log'.fresh = TRUE /\ events[log'.run].ended = FALSE)
    BY <1>7 DEF CreateFill, OpenRun, mainFrame
  <2> QED
    BY <2>1 DEF UnsoundInv
<1> QED
  BY <1>3, <1>4, <1>5, <1>6, <1>7, StepKinds DEF Between

Lookups == {"listSummary", "listRead", "listCheck", "listRebuild", "listTruncate", "listFill"}

(* A listing looks at a run that has a log.                                *)
LookupInv == mainPc \in Lookups => target \in Runs /\ Exists(target)

(* A text that is completed was there already.                             *)
LEMMA FilledSubset ==
  ASSUME NEW texts, NEW text, NEW other
  PROVE  Filled(texts, text, other) \subseteq texts
BY DEF Filled

(* What a step does to the summaries.                                      *)
LEMMA SummaryShape ==
  ASSUME IInv, DirInv, LookupInv, DOMAIN summary = Runs, Next
  PROVE  /\ DOMAIN summary' = Runs
         /\ \A r \in Runs :
              \/ summary'[r] \subseteq summary[r]
              \/ /\ r \in dirs
                 /\ \/ /\ TruncateSummary /\ r = log.run
                       /\ summary'[r] = {Torn, update} \cup MainWrites(r)
                    \/ /\ ListTruncate /\ r = target
                       /\ summary'[r] = {Torn, seen} \cup WorkerWrites(r)
                    \/ /\ CreateSummary \/ CreateFill
                       /\ r = target /\ summary'[r] \subseteq {Torn, EmptySummary}
<1>1. workerPc # "none" => log.run \in dirs
  BY Active DEF DirInv, Exists
<1>2. mainPc \in Lookups => target \in dirs
  BY DEF DirInv, LookupInv, Exists
<1>3. mainPc \in {"createSummary", "createFill"} => target \in dirs
  BY DEF DirInv
<1>4. CASE \/ BeginList \/ EndList \/ ListSummary \/ ListRead \/ ListCheck
           \/ ListRebuild \/ DeleteDir \/ DeleteFails \/ WorkerFails \/ Crash \/ CreateEvents \/ DeleteEvents
           \/ FinishEvent \/ EndLine \/ OpenSummary \/ ReadSummary \/ Rebuild
           \/ (\E k \in Kinds : BeginEvent(k))
           \/ \E r \in Runs : CreateRun(r) \/ ListRun(r) \/ BeginDelete(r) \/ OpenRun(r)
  <2>1. summary' = summary
    BY <1>4 DEF BeginList, EndList, ListSummary, ListRead, ListCheck, ListRebuild, DeleteDir,
       DeleteFails, WorkerFails, Crash, CreateEvents, DeleteEvents, FinishEvent,
       EndLine, OpenSummary, ReadSummary, Rebuild, BeginEvent, CreateRun, ListRun, BeginDelete, OpenRun
  <2> QED
    BY <2>1
<1>5. CASE TruncateSummary
  BY <1>1, <1>5 DEF TruncateSummary, Truncated
<1>6. CASE FillSummary
  BY <1>6, FilledSubset DEF FillSummary
<1>7. CASE ListTruncate
  BY <1>2, <1>7 DEF ListTruncate, Lookups, Truncated
<1>8. CASE ListFill
  BY <1>8, FilledSubset DEF ListFill
<1>9. CASE CreateSummary
  BY <1>3, <1>9 DEF CreateSummary, Truncated
<1>10. CASE CreateFill
  BY <1>3, <1>10 DEF CreateFill
<1>11. CASE DeleteSummary
  BY <1>11 DEF DeleteSummary
<1> QED
  BY <1>4, <1>5, <1>6, <1>7, <1>8, <1>9, <1>10, <1>11, StepKinds DEF Reads, Between
-----------------------------------------------------------------------------
(* What s says of the run is its history.                                  *)
Tells(s, r) == HistoryOf(s, events[r].lines, Settled(r))

Truthful(s, r) == Honest(s, events[r].lines, Settled(r))
AllTruthful(texts, r) == \A s \in texts \ {Torn} : Truthful(s, r)

(* What tells the history of a run goes on telling it.                     *)
LEMMA StillTells ==
  ASSUME IInv, LineInv, NEW r \in Runs, Grows(r), (Whole(r))', NEW s
  PROVE  /\ HistoryOf(s, events[r].lines, Settled(r)) =>
              HistoryOf(s, events'[r].lines, (Settled(r))')
         /\ Truthful(s, r) => Honest(s, events'[r].lines, (Settled(r))')
<1>1. /\ Settled(r) \in Nat /\ (Settled(r))' \in Nat /\ Settled(r) <= (Settled(r))'
      /\ \A i \in 1..Settled(r) : events[r].lines[i] = events'[r].lines[i]
  BY SettledType DEF Grows
<1>2. HistoryOf(s, events[r].lines, Settled(r)) =>
        HistoryOf(s, events'[r].lines, (Settled(r))')
  BY <1>1, HistoryStays
<1> QED
  BY <1>2 DEF Truthful, Honest

(* The texts in summary.json tell a history, unless they are blends; *)
SummaryInv ==
  /\ DOMAIN summary = Runs
  /\ \A r \in Runs : Whole(r) => AllTruthful(summary[r], r)

(* and so do those that are being read, *)
SightInv ==
  /\ workerPc = "reading" /\ Whole(log.run) => AllTruthful(workerSees, log.run)
  /\ mainPc = "listRead" /\ Whole(target) => AllTruthful(mainSees, target)

(* and the one the worker is going to write, *)
UpdateInv ==
  workerPc \in {"truncate", "fill"} /\ Whole(log.run) => Truthful(update, log.run)

(* and those a listing has read, or is going to write and return.  What it *)
(* writes tells no less than what was there when it began, *)
SeenInv ==
  /\ mainPc \in Lookups \cup {"list"} =>
       \A r \in Runs : Whole(r) => atStart[r] <= Settled(r)
  /\ mainPc = "listCheck" /\ Whole(target) => Truthful(seen, target)
  /\ mainPc \in {"listTruncate", "listFill"} /\ Whole(target) =>
       Tells(seen, target) /\ seen.count >= atStart[target]

(* and neither does what it returns, be it a blend. *)
Current(s, r) ==
  /\ s.last = s.count /\ s.count \in Nat
  /\ atStart[r] <= s.count /\ s.count <= Settled(r)
  /\ Truthful(s, r)

ResultInv ==
  result # None =>
    /\ mainPc = "list" /\ result.run \in Runs /\ Exists(result.run)
    /\ Whole(result.run) => Current(result.is, result.run)

HInv ==
  LineInv /\ DirInv /\ UnsoundInv /\ LookupInv /\ SummaryInv /\ SightInv /\ UpdateInv
  /\ SeenInv /\ ResultInv

(* There is nothing to tell at first.                                      *)
LEMMA InitHInv == Init => HInv
<1> SUFFICES ASSUME Init PROVE HInv
  OBVIOUS
<1>1. \A r \in Runs : ~Exists(r)
  BY DEF Init, Exists
<1>2. DOMAIN summary = Runs /\ \A r \in Runs : summary[r] = {} /\ events[r] = NoFile
  BY DEF Init
<1>3. workerPc = "none" /\ mainPc = "idle" /\ result = None
  BY DEF Init
<1> QED
  BY <1>1, <1>2, <1>3 DEF HInv, LineInv, DirInv, UnsoundInv, LookupInv, SummaryInv,
     SightInv, AllTruthful, UpdateInv, SeenInv, ResultInv, Lookups

(* No step but create_run makes a log.                                     *)
LEMMA LogsAppear ==
  ASSUME IInv, Next, NEW r \in Runs, (Exists(r))'
  PROVE  Exists(r) \/ (CreateEvents /\ r = target)
<1>1. CASE Reads \/ Between \/ WorkerFails \/ Crash
  BY <1>1, ReadsShape, BetweenShape, GoneShape DEF Exists
<1>2. CASE CreateEvents
  BY <1>2, CreateShape DEF Exists
<1>3. CASE DeleteEvents
  BY <1>3, DeleteShape DEF Exists
<1>4. CASE FinishEvent
  BY <1>4, FinishShape DEF Exists
<1>5. CASE EndLine
  BY <1>5, EndShape DEF Exists
<1>6. ASSUME NEW k \in Kinds, BeginEvent(k) PROVE Exists(r)
  BY <1>6, BeginShape DEF Exists
<1> QED
  BY <1>1, <1>2, <1>3, <1>4, <1>5, <1>6, StepKinds

(* The steps of the worker, and those of the request loop.                 *)
LEMMA WorkerShape ==
  ASSUME WorkerStep
  PROVE  /\ workerPc # "none"
         /\ UNCHANGED <<dirs, mainPc, target, todo, seen, result, atStart>>
         /\ mainSees' = mainSees \/ TruncateSummary
BY DEF WorkerStep, BeginEvent, FinishEvent, EndLine, OpenSummary, ReadSummary, Rebuild,
   TruncateSummary, FillSummary, WorkerFails, workerFrame, mainVars, listVars

(* Directories come and go with create_run and delete_run.                 *)
LEMMA MainShape ==
  ASSUME MainStep
  PROVE  \/ UNCHANGED dirs
         \/ \E r \in Runs : CreateRun(r) /\ dirs' = dirs \cup {r}
         \/ DeleteDir /\ dirs' = dirs \ {target}
BY DEF MainStep, OpenRun, CreateRun, CreateEvents, CreateSummary, CreateFill, BeginList,
   ListRun, EndList, ListSummary, ListRead, ListCheck, ListRebuild, ListTruncate, ListFill,
   BeginDelete, DeleteEvents, DeleteSummary, DeleteDir, DeleteFails, listFrame

(* create_run makes the directory first, delete_run removes it last.       *)
LEMMA DirInvStep ==
  ASSUME IInv, DirInv, LookupInv, SummaryInv, Next
  PROVE  DirInv'
<1>1. ASSUME NEW r \in Runs \ dirs'
      PROVE  events'[r] = NoFile /\ summary'[r] = {}
  <2>1. CASE r \notin dirs
    <3>1. ~(Exists(r))'
      BY <2>1, LogsAppear, CreateShape DEF DirInv, Exists
    <3>2. summary'[r] \subseteq summary[r]
      BY <2>1, SummaryShape DEF SummaryInv
    <3> QED
      BY <2>1, <3>1, <3>2 DEF DirInv, Exists
  <2>2. CASE r \in dirs
    <3>1. DeleteDir /\ r = target
      BY <1>1, <2>2, WorkerShape, MainShape DEF Next, Crash
    <3> QED
      BY <3>1 DEF DeleteDir
  <2> QED
    BY <2>1, <2>2
<1>2. mainPc' \in {"creating", "createSummary", "createFill"} =>
        /\ target' \in dirs'
        /\ mainPc' \in {"creating", "createSummary"} => summary'[target'] = {}
  <2>1. CASE WorkerStep
    <3>1. mainPc' = mainPc /\ workerPc # "none"
      BY <2>1, WorkerShape
    <3>2. mainPc \notin {"creating", "createSummary", "createFill"}
      BY <3>1 DEF IInv, MainInv
    <3> QED
      BY <3>1, <3>2
  <2>2. ASSUME NEW r \in Runs, CreateRun(r) PROVE target' \in dirs' /\ summary'[target'] = {}
    BY <2>2 DEF CreateRun, DirInv
  <2>3. CASE CreateEvents \/ CreateSummary
    <3>1. /\ target' = target /\ dirs' = dirs
          /\ CreateEvents => mainPc = "creating" /\ summary' = summary
          /\ CreateSummary => mainPc = "createSummary" /\ mainPc' = "createFill"
      BY <2>3 DEF CreateEvents, CreateSummary
    <3> QED
      BY <2>3, <3>1 DEF DirInv
  <2>4. CASE MainStep /\ ~CreateEvents /\ ~CreateSummary /\ \A r \in Runs : ~CreateRun(r)
    <3>1. mainPc' \notin {"creating", "createSummary", "createFill"}
      BY <2>4 DEF MainStep, OpenRun, CreateFill, BeginList,
         ListRun, EndList, ListSummary, ListRead, ListCheck, ListRebuild, ListTruncate, ListFill,
         BeginDelete, DeleteEvents, DeleteSummary, DeleteDir, DeleteFails, mainVars,
         Return, ListFails
    <3> QED
      BY <3>1
  <2>5. CASE Crash
    BY <2>5 DEF Crash
  <2> QED
    BY <2>1, <2>2, <2>3, <2>4, <2>5 DEF Next
<1> QED
  BY <1>1, <1>2 DEF DirInv

(* Only a deletion removes a log.                                          *)
LEMMA LogsStay ==
  ASSUME IInv, Next, ~DeleteEvents, NEW r \in Runs, Exists(r)
  PROVE  (Exists(r))'
<1>1. CASE Reads \/ Between \/ WorkerFails \/ Crash
  BY <1>1, ReadsShape, BetweenShape, GoneShape DEF Exists
<1>2. CASE CreateEvents
  <2>1. r # target
    BY <1>2, CreateShape DEF IInv, MainInv, Exists
  <2> QED
    BY <1>2, <2>1, CreateShape DEF Exists
<1>3. CASE FinishEvent
  BY <1>3, FinishShape DEF Exists
<1>4. CASE EndLine
  BY <1>4, EndShape DEF Exists
<1>5. ASSUME NEW k \in Kinds, BeginEvent(k) PROVE (Exists(r))'
  BY <1>5, BeginShape DEF Exists
<1> QED
  BY <1>1, <1>2, <1>3, <1>4, <1>5, StepKinds

(* No run is deleted while a listing looks at it.                          *)
LEMMA LookupInvStep ==
  ASSUME IInv, LookupInv, Next
  PROVE  LookupInv'
<1>1. CASE mainPc' \in Lookups /\ mainPc \in Lookups /\ target' = target /\ ~DeleteEvents
  BY <1>1, LogsStay DEF LookupInv
<1>2. CASE mainPc' \notin Lookups
  BY <1>2 DEF LookupInv
<1>3. ASSUME NEW r \in Runs, ListRun(r) PROVE LookupInv'
  <2>1. events' = events /\ (mainPc' \in Lookups => target' = r /\ events[r] # NoFile)
    BY <1>3 DEF ListRun, listFrame, Lookups
  <2> QED
    BY <1>3, <2>1 DEF LookupInv, Exists
<1>4. CASE WorkerStep
  <2>1. mainPc' = mainPc /\ target' = target
    BY <1>4, WorkerShape
  <2>2. mainPc \in Lookups => ~DeleteEvents
    BY DEF DeleteEvents, Lookups
  <2> QED
    BY <1>1, <1>2, <2>1, <2>2
<1>5. CASE MainStep /\ \A r \in Runs : ~ListRun(r)
  <2>1. mainPc' \in Lookups => mainPc \in Lookups /\ target' = target
    BY <1>5 DEF MainStep, OpenRun, CreateRun, CreateEvents, CreateSummary, CreateFill,
       BeginList, EndList, ListSummary, ListRead, ListCheck, ListRebuild, ListTruncate, ListFill,
       BeginDelete, DeleteEvents, DeleteSummary, DeleteDir, DeleteFails, mainVars,
       Return, ListFails, Lookups
  <2>2. mainPc \in Lookups => ~DeleteEvents
    BY DEF DeleteEvents, Lookups
  <2> QED
    BY <1>1, <1>2, <2>1, <2>2
<1>6. CASE Crash
  BY <1>2, <1>6 DEF Crash, Lookups
<1> QED
  BY <1>3, <1>4, <1>5, <1>6 DEF Next

(* Whoever writes summary.json writes a history.                           *)
LEMMA SummaryInvStep ==
  ASSUME IInv, HInv, Next
  PROVE  SummaryInv'
<1>1. LineInv /\ DirInv /\ UnsoundInv /\ LookupInv /\ SummaryInv /\ SightInv
      /\ UpdateInv /\ SeenInv
  BY DEF HInv
<1>2. DOMAIN summary' = Runs
  BY <1>1, SummaryShape DEF SummaryInv
<1>3. ASSUME NEW r \in Runs, (Whole(r))'
      PROVE  (AllTruthful(summary[r], r))'
  <2>1. CASE CreateEvents /\ r = target
    <3>1. summary'[r] = {}
      BY <1>1, <2>1, CreateShape DEF DirInv
    <3> QED
      BY <3>1 DEF AllTruthful
  <2>2. CASE ~(CreateEvents /\ r = target)
    <3>1. Grows(r)
      BY <1>1, <2>2, StepGrows
    <3>2. Whole(r)
      BY <1>3, <3>1 DEF Grows
    <3>3. ASSUME \A s \in summary'[r] \ {Torn} : Truthful(s, r)
          PROVE  (AllTruthful(summary[r], r))'
      <4> SUFFICES ASSUME NEW s \in summary'[r] \ {Torn}
                   PROVE  Honest(s, events'[r].lines, (Settled(r))')
        BY DEF AllTruthful, Truthful
      <4> QED
        BY <1>1, <1>3, <3>1, <3>3, StillTells
    <3>4. CASE summary'[r] \subseteq summary[r]
      BY <1>1, <3>2, <3>3, <3>4 DEF SummaryInv, AllTruthful
    <3>5. CASE TruncateSummary /\ r = log.run
               /\ summary'[r] = {Torn, update} \cup MainWrites(r)
      <4>1. Truthful(update, r)
        BY <1>1, <3>2, <3>5 DEF TruncateSummary, UpdateInv
      <4>2. \A s \in MainWrites(r) : Truthful(s, r)
        BY <1>1, <3>2 DEF MainWrites, MainAt, SeenInv, Tells, Truthful, Honest
      <4> QED
        BY <3>3, <3>5, <4>1, <4>2
    <3>6. CASE ListTruncate /\ r = target
               /\ summary'[r] = {Torn, seen} \cup WorkerWrites(r)
      <4>1. Truthful(seen, r)
        BY <1>1, <3>2, <3>6 DEF ListTruncate, SeenInv, Tells, Truthful, Honest
      <4>2. \A s \in WorkerWrites(r) : Truthful(s, r)
        BY <1>1, <3>2 DEF WorkerWrites, WorkerAt, UpdateInv
      <4> QED
        BY <3>3, <3>6, <4>1, <4>2
    <3>7. CASE (CreateSummary \/ CreateFill) /\ r = target
               /\ summary'[r] \subseteq {Torn, EmptySummary}
      <4>1. events[r].lines = <<>> /\ Settled(r) \in Nat
        BY <1>1, <3>7, SettledType DEF CreateSummary, CreateFill, IInv, MainInv
      <4>2. StatusAt(<<>>, 0) = "running"
        <5>1. {i \in 1..0 : <<>>[i] # "other"} = {}
          OBVIOUS
        <5> QED
          BY <5>1 DEF StatusAt
      <4>3. HistoryOf(EmptySummary, <<>>, Settled(r))
        <5>1. EmptySummary = SummaryAt(<<>>, 0)
          BY <4>2 DEF EmptySummary, SummaryAt
        <5>2. EmptySummary.count = 0 /\ 0 \in 0..Settled(r)
          BY <4>1 DEF EmptySummary
        <5> QED
          BY <5>1, <5>2 DEF HistoryOf
      <4>4. Truthful(EmptySummary, r)
        BY <4>1, <4>3 DEF Truthful, Honest
      <4> QED
        BY <3>3, <3>7, <4>4
    <3> QED
      BY <1>1, <3>4, <3>5, <3>6, <3>7, SummaryShape DEF SummaryInv
  <2> QED
    BY <2>1, <2>2
<1> QED
  BY <1>2, <1>3 DEF SummaryInv

(* A file that can be read is whole.                                       *)
LEMMA ReadableIsWhole ==
  ASSUME IInv, LineInv, NEW r \in Runs, Exists(r), Readable(events[r])
  PROVE  Whole(r) /\ ~Writing(r) /\ Settled(r) = Length(r) /\ Settled(r) \in Nat
         /\ Length(r) = Len(events[r].lines)
<1>1. Length(r) = Len(events[r].lines) /\ Length(r) \in Nat
      /\ events[r].lines \in Seq({Torn} \cup Kinds)
  BY SettledType, FileType
<1>2. \A i \in 1..Len(events[r].lines) : events[r].lines[i] # Torn
  BY <1>1 DEF Readable
<1>3. ~Writing(r)
  BY <1>1, <1>2 DEF Writing, LineInv
<1> QED
  BY <1>1, <1>2, <1>3 DEF Whole, Settled

(* The worker extends a history by its event, or takes the whole of it.    *)
LEMMA UpdateInvStep ==
  ASSUME IInv, HInv, Next
  PROVE  UpdateInv'
<1> SUFFICES ASSUME (workerPc \in {"truncate", "fill"} /\ Whole(log.run))'
             PROVE  (Truthful(update, log.run))'
  BY DEF UpdateInv
<1>1. LineInv /\ DirInv /\ UnsoundInv /\ LookupInv /\ SummaryInv /\ SightInv
      /\ UpdateInv /\ SeenInv
  BY DEF HInv
<1>2. CASE workerPc \in {"truncate", "fill"} /\ log' = log /\ update' = update
  <2>1. ~CreateEvents
    BY <1>2, CreateShape
  <2>2. PICK r \in Runs : r = log.run
    BY <1>2, Active
  <2>3. Grows(r) /\ (Whole(r))'
    BY <1>1, <1>2, <2>1, <2>2, StepGrows
  <2>4. Truthful(update, r)
    <3>1. Whole(r)
      BY <2>3 DEF Grows
    <3> QED
      BY <1>1, <1>2, <2>2, <3>1 DEF UpdateInv
  <2>5. Honest(update, events'[r].lines, (Settled(r))')
    BY <1>1, <2>3, <2>4, StillTells
  <2> QED
    BY <1>2, <2>2, <2>5 DEF Truthful
<1>3. CASE ReadSummary \/ Rebuild
  <2> DEFINE r == log.run  lines == events[log.run].lines
  <2>1. /\ workerPc \in {"reading", "rebuild"} /\ workerPc' = "truncate"
        /\ log' = log /\ events' = events /\ intact' = intact
    BY <1>3 DEF ReadSummary, Rebuild
  <2>2. /\ log \in Log /\ r \in Runs /\ Exists(r) /\ log.next \in 1..MaxEvents + 1
        /\ Length(r) = Len(lines) /\ Len(lines) \in Nat /\ appending \in Kinds
        /\ log.next > 1
    BY <2>1, Active DEF IInv, ActiveInv
  <2>3. Settled(r) = Len(lines) /\ (Settled(r))' = Len(lines) /\ Whole(r)
    BY <2>1, <2>2 DEF Settled, Whole, Writing, Length, Exists
  <2>4. Honest(update', lines, Len(lines))
    <3>1. CASE Rebuild
      <4>1. update' = SummaryAt(lines, Len(lines))
        BY <2>2, <3>1 DEF Rebuild, Rebuilt
      <4> QED
        BY <2>2, <4>1, WholeHistory DEF Honest
    <3>2. CASE ReadSummary
      <4>1. PICK s \in Readings(workerSees) :
              /\ s # Torn /\ s.last + 1 = log.next - 1
              /\ update' = Applied(s, appending, log.next - 1)
        BY <2>1, <3>2 DEF ReadSummary
      <4>2. log.sound = TRUE
        BY <1>1, <2>1, <2>2, <2>3 DEF UnsoundInv, Log
      <4>3. Len(lines) = log.next - 1 /\ lines[log.next - 1] = appending
        BY <2>1, <4>2 DEF IInv, CountInv
      <4>4. \A t \in workerSees \ {Torn} : Honest(t, lines, Len(lines))
        BY <1>1, <2>3, <3>2 DEF ReadSummary, SightInv, AllTruthful, Truthful
      <4> HIDE DEF lines
      <4>5. Honest(s, lines, Len(lines)) /\ update'.mixed = s.mixed
        BY <4>1, <4>4, ReadingIsHonest
      <4>6. ASSUME ~s.mixed PROVE HistoryOf(update', lines, Len(lines))
        <5>1. s.count \in Nat /\ s.last = s.count /\ s = SummaryAt(lines, s.count)
          BY <2>2, <4>5, <4>6 DEF Honest, HistoryOf, SummaryAt
        <5>2. Len(lines) = s.count + 1 /\ HistoryOf(s, lines, s.count)
          BY <2>2, <4>1, <4>3, <5>1 DEF HistoryOf
        <5>3. /\ lines[s.count + 1] \in Kinds
              /\ update' = Applied(s, lines[s.count + 1], s.count + 1)
          BY <2>2, <4>1, <4>3, <5>2
        <5> QED
          BY <5>1, <5>2, <5>3, HistoryGrows
      <4> QED
        BY <4>5, <4>6 DEF Honest
    <3> QED
      BY <1>3, <3>1, <3>2
  <2> HIDE DEF lines
  <2> QED
    BY <2>1, <2>3, <2>4 DEF Truthful, lines
<1>4. CASE TruncateSummary
  BY <1>2, <1>4 DEF TruncateSummary
<1>5. CASE MainStep
  <2>1. workerPc \in {"truncate", "fill"} /\ log' = log /\ update' = update
    BY <1>5 DEF MainStep, OpenRun, CreateRun, CreateEvents, CreateSummary, CreateFill,
       BeginList, ListRun, EndList, ListSummary, ListRead, ListCheck, ListRebuild, ListTruncate,
       ListFill, BeginDelete, DeleteEvents, DeleteSummary, DeleteDir, DeleteFails,
       mainFrame, listFrame
  <2> QED
    BY <1>2, <2>1
<1>6. CASE \/ FinishEvent \/ EndLine \/ OpenSummary \/ FillSummary \/ WorkerFails
           \/ Crash \/ \E k \in Kinds : BeginEvent(k)
  BY <1>6 DEF OpenSummary, FinishEvent, EndLine, FillSummary, WorkerFails, Crash, WorkerGone, BeginEvent
<1> QED
  BY <1>3, <1>4, <1>5, <1>6 DEF Next, WorkerStep
-----------------------------------------------------------------------------
(* What a listing goes on with.                                            *)
LEMMA ListGrows ==
  ASSUME IInv, LineInv, Next, mainPc \in Lookups \cup {"list"}, NEW r \in Runs
  PROVE  Grows(r)
<1>1. ~CreateEvents
  BY DEF CreateEvents, Lookups
<1> QED
  BY <1>1, StepGrows

(* What a listing saw of a run still holds.                                *)
LEMMA StillFresh ==
  ASSUME IInv, LineInv, Next, mainPc \in Lookups \cup {"list"},
         NEW r \in Runs, (Whole(r))', NEW s
  PROVE  /\ (Whole(r) => Tells(s, r)) =>
              HistoryOf(s, events'[r].lines, (Settled(r))')
         /\ (Whole(r) => Truthful(s, r)) =>
              Honest(s, events'[r].lines, (Settled(r))')
<1>1. Grows(r) /\ Whole(r)
  BY ListGrows DEF Grows
<1> QED
  BY <1>1, StillTells DEF Tells

(* BeginList takes what there is.                                          *)
LEMMA BeginListFresh ==
  ASSUME IInv, HInv, BeginList, NEW r \in Runs, Whole(r)
  PROVE  atStart'[r] <= Settled(r)
<1>1. LineInv /\ UnsoundInv
  BY DEF HInv
<1>2. atStart'[r] = IF workerPc \in {"event", "newline"} /\ log.run = r
                    THEN log.next - 1 ELSE Length(r)
  BY DEF BeginList
<1>3. Length(r) = Len(events[r].lines) /\ Length(r) \in Nat
  BY <1>1, SettledType DEF Whole
<1>4. CASE workerPc \in {"event", "newline"} /\ log.run = r
  <2>1. log.sound = TRUE
    BY <1>1, <1>4, Active DEF UnsoundInv, Log
  <2>2. Len(events[r].lines) = log.next
    BY <1>4, <2>1 DEF IInv, CountInv
  <2> QED
    BY <1>2, <1>3, <1>4, <2>2 DEF Settled
<1>5. CASE ~(workerPc \in {"event", "newline"} /\ log.run = r)
  BY <1>2, <1>3, <1>5 DEF Settled, Writing
<1> QED
  BY <1>4, <1>5

(* A listing goes from step to step.                                       *)
LEMMA ListMoves ==
  ASSUME Next
  PROVE  /\ mainPc' \in Lookups \cup {"list"} =>
              BeginList \/ (mainPc \in Lookups \cup {"list"} /\ atStart' = atStart)
         /\ mainPc' = "listRead" =>
              \/ /\ mainPc = "listRead" /\ target' = target
                 /\ mainSees' = mainSees \/ TruncateSummary
              \/ ListSummary
         /\ mainPc' = "listCheck" =>
              (mainPc = "listCheck" /\ target' = target /\ seen' = seen) \/ ListRead
         /\ mainPc' \in {"listTruncate", "listFill"} =>
              \/ mainPc \in {"listTruncate", "listFill"} /\ target' = target /\ seen' = seen
              \/ ListRebuild
         /\ result' # None =>
              \/ result' = result /\ (mainPc = "list" => mainPc' = "list")
              \/ ListCheck \/ ListFill
<1>1. CASE WorkerStep
  BY <1>1, WorkerShape
<1>2. CASE Crash
  BY <1>2 DEF Crash, Lookups
<1>3. CASE MainStep /\ mainPc \in {"creating", "createSummary", "createFill", "deleting"}
  BY <1>3 DEF MainStep, OpenRun, CreateRun, CreateEvents, CreateSummary, CreateFill,
     BeginList, ListRun, EndList, ListSummary, ListRead, ListCheck, ListRebuild, ListTruncate,
     ListFill, BeginDelete, DeleteEvents, DeleteSummary, DeleteDir, DeleteFails,
     Lookups, listVars, mainVars
<1>4. CASE MainStep /\ mainPc = "idle"
  BY <1>4 DEF MainStep, OpenRun, CreateRun, CreateEvents, CreateSummary, CreateFill,
     BeginList, ListRun, EndList, ListSummary, ListRead, ListCheck, ListRebuild, ListTruncate,
     ListFill, BeginDelete, DeleteEvents, DeleteSummary, DeleteDir, DeleteFails,
     Lookups, listVars, mainVars
<1>5. CASE MainStep /\ mainPc = "list"
  <2>1. EndList \/ \E r \in Runs : ListRun(r)
    BY <1>5 DEF MainStep, OpenRun, CreateRun, CreateEvents, CreateSummary, CreateFill,
       BeginList, ListRun, EndList, ListSummary, ListRead, ListCheck, ListRebuild, ListTruncate,
       ListFill, BeginDelete, DeleteEvents, DeleteSummary, DeleteDir, DeleteFails
  <2> QED
    BY <1>5, <2>1 DEF ListRun, EndList, listFrame, Lookups
<1>6. CASE MainStep /\ mainPc \in Lookups
  <2>1. ListSummary \/ ListRead \/ ListCheck \/ ListRebuild \/ ListTruncate \/ ListFill
    BY <1>6 DEF MainStep, OpenRun, CreateRun, CreateEvents, CreateSummary, CreateFill,
       BeginList, ListRun, EndList, ListSummary, ListRead, ListCheck, ListRebuild, ListTruncate,
       ListFill, BeginDelete, DeleteEvents, DeleteSummary, DeleteDir, DeleteFails, Lookups
  <2>2. CASE ListSummary \/ ListRead \/ ListTruncate
    BY <1>6, <2>2 DEF ListSummary, ListRead, ListTruncate, listFrame, listVars, Lookups
  <2>3. CASE ListCheck
    BY <1>6, <2>3 DEF ListCheck, listFrame, Lookups, Return, ListFails
  <2>4. CASE ListRebuild
    BY <1>6, <2>4 DEF ListRebuild, listFrame, Lookups, ListFails
  <2>5. CASE ListFill
    BY <1>6, <2>5 DEF ListFill, listFrame, Lookups, Return
  <2> QED
    BY <2>1, <2>2, <2>3, <2>4, <2>5
<1>7. CASE MainStep /\ mainPc \notin MainPc
  BY <1>7 DEF MainPc, MainStep, OpenRun, CreateRun, CreateEvents, CreateSummary, CreateFill,
     BeginList, ListRun, EndList, ListSummary, ListRead, ListCheck, ListRebuild, ListTruncate,
     ListFill, BeginDelete, DeleteEvents, DeleteSummary, DeleteDir, DeleteFails
<1> QED
  BY <1>1, <1>2, <1>3, <1>4, <1>5, <1>6, <1>7 DEF Next, MainPc, Lookups

(* What the worker reads it has opened, or a listing rewrites it.          *)
LEMMA WorkerReads ==
  ASSUME Next, workerPc' = "reading"
  PROVE  \/ OpenSummary
         \/ /\ workerPc = "reading" /\ log' = log
            /\ workerSees' = workerSees \/ ListTruncate
<1>1. CASE WorkerStep
  BY <1>1 DEF WorkerStep, BeginEvent, FinishEvent, EndLine, OpenSummary, ReadSummary,
     Rebuild, TruncateSummary, FillSummary, WorkerFails, WorkerGone
<1>2. CASE MainStep
  BY <1>2 DEF MainStep, OpenRun, CreateRun, CreateEvents, CreateSummary, CreateFill,
     BeginList, ListRun, EndList, ListSummary, ListRead, ListCheck, ListRebuild,
     ListTruncate, ListFill, BeginDelete, DeleteEvents, DeleteSummary, DeleteDir,
     DeleteFails, mainFrame, listFrame
<1>3. CASE Crash
  BY <1>3 DEF Crash, WorkerGone
<1> QED
  BY <1>1, <1>2, <1>3 DEF Next

(* Whoever reads summary.json finds texts that tell a history.             *)
LEMMA SightInvStep ==
  ASSUME IInv, HInv, Next
  PROVE  SightInv'
<1>1. LineInv /\ DirInv /\ UnsoundInv /\ LookupInv /\ SummaryInv /\ SightInv
      /\ UpdateInv /\ SeenInv
  BY DEF HInv
<1>2. ASSUME workerPc' = "reading", (Whole(log.run))'
      PROVE  (AllTruthful(workerSees, log.run))'
  <2>1. CASE OpenSummary
    <3>1. /\ workerPc = "summary" /\ workerSees' = summary[log.run]
          /\ UNCHANGED <<events, log, intact>>
      BY <2>1 DEF OpenSummary
    <3>2. PICK r \in Runs : r = log.run
      BY <3>1, Active
    <3>3. (Settled(r))' = Settled(r) /\ Whole(r)
      BY <1>2, <3>1, <3>2 DEF Settled, Whole, Writing, Length, Exists
    <3>4. AllTruthful(summary[r], r)
      BY <1>1, <3>3 DEF SummaryInv
    <3> QED
      BY <3>1, <3>2, <3>3, <3>4 DEF AllTruthful, Truthful
  <2>2. CASE workerPc = "reading" /\ log' = log /\ (workerSees' = workerSees \/ ListTruncate)
    <3>1. PICK r \in Runs : r = log.run
      BY <2>2, Active
    <3>2. Grows(r) /\ (Whole(r))' /\ Whole(r)
      BY <1>1, <1>2, <2>2, <3>1, CreateShape, StepGrows DEF Grows
    <3>3. AllTruthful(workerSees, r)
      BY <1>1, <2>2, <3>1, <3>2 DEF SightInv
    <3>4. \A s \in workerSees' \ {Torn} : Truthful(s, r)
      <4>1. CASE workerSees' = workerSees
        BY <3>3, <4>1 DEF AllTruthful
      <4>2. CASE ListTruncate /\ target = r
        <5>1. Truthful(seen, r)
          BY <1>1, <3>2, <4>2 DEF ListTruncate, SeenInv, Tells, Truthful, Honest
        <5>2. workerSees' \subseteq workerSees \cup {Torn, seen}
          BY <4>2 DEF ListTruncate
        <5> QED
          BY <3>3, <5>1, <5>2 DEF AllTruthful
      <4>3. CASE ListTruncate /\ target # r
        <5>1. workerSees' = workerSees
          BY <3>1, <4>3 DEF ListTruncate, WorkerAt
        <5> QED
          BY <3>3, <5>1 DEF AllTruthful
      <4> QED
        BY <2>2, <4>1, <4>2, <4>3
    <3>5. \A s \in workerSees' \ {Torn} : Honest(s, events'[r].lines, (Settled(r))')
      BY <1>1, <3>2, <3>4, StillTells
    <3> QED
      BY <2>2, <3>1, <3>5 DEF AllTruthful, Truthful
  <2> QED
    BY <1>2, <2>1, <2>2, WorkerReads
<1>3. ASSUME mainPc' = "listRead", (Whole(target))'
      PROVE  (AllTruthful(mainSees, target))'
  <2>1. CASE ListSummary
    <3>1. /\ mainPc = "listSummary" /\ target' = target /\ mainSees' = summary[target]
          /\ UNCHANGED <<events, workerPc, log, intact>>
      BY <2>1, ReadsShape DEF ListSummary, Reads
    <3>2. PICK r \in Runs : r = target
      BY <1>1, <3>1 DEF LookupInv, Lookups
    <3>3. (Settled(r))' = Settled(r) /\ Whole(r)
      BY <1>3, <3>1, <3>2 DEF Settled, Whole, Writing, Length, Exists
    <3>4. AllTruthful(summary[r], r)
      BY <1>1, <3>3 DEF SummaryInv
    <3> QED
      BY <3>1, <3>2, <3>3, <3>4 DEF AllTruthful, Truthful
  <2>2. CASE /\ mainPc = "listRead" /\ target' = target
             /\ mainSees' = mainSees \/ TruncateSummary
    <3>1. PICK r \in Runs : r = target
      BY <1>1, <2>2 DEF LookupInv, Lookups
    <3>2. mainPc \in Lookups \cup {"list"}
      BY <2>2 DEF Lookups
    <3>3. Grows(r) /\ (Whole(r))' /\ Whole(r)
      BY <1>1, <1>3, <2>2, <3>1, <3>2, ListGrows DEF Grows
    <3>4. AllTruthful(mainSees, r)
      BY <1>1, <2>2, <3>1, <3>3 DEF SightInv
    <3>5. \A s \in mainSees' \ {Torn} : Truthful(s, r)
      <4>1. CASE mainSees' = mainSees
        BY <3>4, <4>1 DEF AllTruthful
      <4>2. CASE TruncateSummary /\ log.run = r
        <5>1. Truthful(update, r)
          BY <1>1, <3>3, <4>2 DEF TruncateSummary, UpdateInv
        <5>2. mainSees' \subseteq mainSees \cup {Torn, update}
          BY <4>2 DEF TruncateSummary
        <5> QED
          BY <3>4, <5>1, <5>2 DEF AllTruthful
      <4>3. CASE TruncateSummary /\ log.run # r
        <5>1. mainSees' = mainSees
          BY <3>1, <4>3 DEF TruncateSummary, MainAt
        <5> QED
          BY <3>4, <5>1 DEF AllTruthful
      <4> QED
        BY <2>2, <4>1, <4>2, <4>3
    <3>6. \A s \in mainSees' \ {Torn} : Honest(s, events'[r].lines, (Settled(r))')
      BY <1>1, <3>3, <3>5, StillTells
    <3> QED
      BY <2>2, <3>1, <3>6 DEF AllTruthful, Truthful
  <2> QED
    BY <1>3, <2>1, <2>2, ListMoves
<1> QED
  BY <1>2, <1>3 DEF SightInv

(* A listing reads a history, or takes the whole of it.                    *)
LEMMA SeenInvStep ==
  ASSUME IInv, HInv, Next
  PROVE  SeenInv'
<1>1. LineInv /\ DirInv /\ UnsoundInv /\ LookupInv /\ SummaryInv /\ SightInv
      /\ UpdateInv /\ SeenInv
  BY DEF HInv
<1>2. ASSUME mainPc' \in Lookups \cup {"list"}, NEW r \in Runs, (Whole(r))'
      PROVE  atStart'[r] <= (Settled(r))'
  <2>1. CASE BeginList
    <3>1. UNCHANGED <<events, workerPc, log, intact>>
      BY <2>1, ReadsShape DEF Reads
    <3>2. (Settled(r))' = Settled(r) /\ Whole(r)
      BY <1>2, <3>1 DEF Settled, Whole, Writing, Length, Exists
    <3> QED
      BY <2>1, <3>2, BeginListFresh
  <2>2. CASE mainPc \in Lookups \cup {"list"} /\ atStart' = atStart
    <3>1. Grows(r)
      BY <1>1, <2>2, ListGrows
    <3>2. Whole(r) /\ Settled(r) <= (Settled(r))' /\ (Settled(r))' \in Nat
      BY <1>2, <3>1 DEF Grows
    <3>3. atStart[r] <= Settled(r) /\ Settled(r) \in Nat /\ atStart[r] \in Nat
      BY <1>1, <2>2, <3>2, SettledType, LogAssumption DEF SeenInv, IInv, TypeOK
    <3> QED
      BY <2>2, <3>2, <3>3
  <2> QED
    BY <1>2, <2>1, <2>2, ListMoves
<1>3. ASSUME mainPc' = "listCheck", (Whole(target))'
      PROVE  (Truthful(seen, target))'
  <2>1. CASE mainPc = "listCheck" /\ target' = target /\ seen' = seen
    <3>1. PICK r \in Runs : r = target
      BY <1>1, <2>1 DEF LookupInv, Lookups
    <3>2. (Whole(r))' /\ (Whole(r) => Truthful(seen, r)) /\ mainPc \in Lookups \cup {"list"}
      BY <1>1, <1>3, <2>1, <3>1 DEF SeenInv, Lookups
    <3>3. Honest(seen, events'[r].lines, (Settled(r))')
      BY <1>1, <3>2, StillFresh
    <3> QED
      BY <2>1, <3>1, <3>3 DEF Truthful
  <2>2. CASE ListRead
    <3>1. /\ mainPc = "listRead" /\ target' = target
          /\ seen' \in Readings(mainSees) /\ seen' # Torn
          /\ UNCHANGED <<events, workerPc, log, intact>>
      BY <1>3, <2>2, ReadsShape DEF ListRead, Reads
    <3>2. PICK r \in Runs : r = target
      BY <1>1, <3>1 DEF LookupInv, Lookups
    <3>3. (Settled(r))' = Settled(r) /\ Whole(r)
      BY <1>3, <3>1, <3>2 DEF Settled, Whole, Writing, Length, Exists
    <3>4. \A t \in mainSees \ {Torn} : Honest(t, events[r].lines, Settled(r))
      BY <1>1, <3>1, <3>2, <3>3 DEF SightInv, AllTruthful, Truthful
    <3>5. Honest(seen', events[r].lines, Settled(r))
      BY <3>1, <3>4, ReadingIsHonest
    <3> QED
      BY <3>1, <3>2, <3>3, <3>5 DEF Truthful
  <2> QED
    BY <1>3, <2>1, <2>2, ListMoves
<1>4. ASSUME mainPc' \in {"listTruncate", "listFill"}, (Whole(target))'
      PROVE  (Tells(seen, target))' /\ seen'.count >= atStart'[target']
  <2>1. CASE mainPc \in {"listTruncate", "listFill"} /\ target' = target /\ seen' = seen
    <3>1. PICK r \in Runs : r = target
      BY <1>1, <2>1 DEF LookupInv, Lookups
    <3>2. (Whole(r))' /\ (Whole(r) => Tells(seen, r)) /\ mainPc \in Lookups \cup {"list"}
      BY <1>1, <1>4, <2>1, <3>1 DEF SeenInv, Lookups
    <3>3. HistoryOf(seen, events'[r].lines, (Settled(r))')
      BY <1>1, <3>2, StillFresh
    <3>4. Whole(r)
      BY <1>1, <3>2, ListGrows DEF Grows
    <3>5. atStart' = atStart
      BY <1>4, <3>2, ListMoves DEF BeginList, Lookups
    <3> QED
      BY <1>1, <2>1, <3>1, <3>3, <3>4, <3>5 DEF Tells, SeenInv
  <2>2. CASE ListRebuild
    <3>1. /\ mainPc = "listRebuild" /\ target' = target /\ seen' = Rebuilt(target)
          /\ Readable(events[target]) /\ atStart' = atStart
          /\ UNCHANGED <<events, workerPc, log, intact>>
      BY <1>4, <2>2, ReadsShape DEF ListRebuild, Reads, ListFails, listFrame
    <3>2. PICK r \in Runs : r = target /\ Exists(r)
      BY <1>1, <3>1 DEF LookupInv, Lookups
    <3>3. Whole(r) /\ Settled(r) = Length(r) /\ Length(r) \in Nat
      BY <1>1, <3>1, <3>2, ReadableIsWhole
    <3>4. (Settled(r))' = Length(r) /\ atStart[r] <= Length(r) /\ atStart[r] \in Nat
      BY <1>1, <3>1, <3>2, <3>3, LogAssumption DEF Settled, Writing, Length, SeenInv, Lookups,
         IInv, TypeOK
    <3>5. HistoryOf(seen', events[r].lines, Length(r)) /\ seen'.count = Length(r)
      BY <3>1, <3>2, <3>3, WholeHistory DEF Rebuilt
    <3> QED
      BY <3>1, <3>2, <3>3, <3>4, <3>5 DEF Tells
  <2> QED
    BY <1>4, <2>1, <2>2, ListMoves
<1> QED
  BY <1>2, <1>3, <1>4 DEF SeenInv

(* A listing returns a history that is fresh.                              *)
LEMMA ResultInvStep ==
  ASSUME IInv, HInv, Next
  PROVE  ResultInv'
<1>1. LineInv /\ LookupInv /\ SeenInv /\ ResultInv
  BY DEF HInv
<1> SUFFICES ASSUME result' # None PROVE ResultInv'
  BY DEF ResultInv
<1>2. CASE result' = result /\ (mainPc = "list" => mainPc' = "list")
  <2>1. mainPc = "list" /\ mainPc' = "list" /\ atStart' = atStart /\ result.run \in Runs
        /\ Exists(result.run) /\ ~DeleteEvents
    BY <1>1, <1>2, ListMoves DEF ResultInv, BeginList, DeleteEvents
  <2>2. PICK r \in Runs : r = result.run /\ (Exists(r))'
    BY <2>1, LogsStay
  <2>3. ASSUME (Whole(r))'
        PROVE  (Current(result.is, r))'
    <3>1. Whole(r) /\ Settled(r) \in Nat /\ (Settled(r))' \in Nat
          /\ Settled(r) <= (Settled(r))'
      BY <1>1, <2>1, <2>3, ListGrows, SettledType DEF Grows
    <3>2. Current(result.is, r)
      BY <1>1, <1>2, <2>2, <3>1 DEF ResultInv
    <3>3. Honest(result.is, events'[r].lines, (Settled(r))')
      BY <1>1, <2>1, <2>3, <3>2, StillFresh DEF Current
    <3>4. result.is.count <= (Settled(r))'
      BY <3>1, <3>2 DEF Current
    <3> QED
      BY <1>2, <2>1, <3>2, <3>3, <3>4 DEF Current, Truthful
  <2> QED
    BY <1>2, <2>1, <2>2, <2>3 DEF ResultInv, Exists
<1>3. CASE ~(result' = result /\ (mainPc = "list" => mainPc' = "list"))
  <2>1. ListCheck \/ ListFill
    BY <1>3, ListMoves
  <2>2. /\ mainPc \in {"listCheck", "listFill"} /\ mainPc' = "list" /\ atStart' = atStart
        /\ result' = [run |-> target, is |-> seen]
        /\ UNCHANGED <<events, workerPc, log, intact>>
        /\ ListCheck => /\ Readable(events[target])
                        /\ seen.last = Length(target) /\ seen.count = Length(target)
        /\ ListCheck => mainPc = "listCheck"
    <3>1. UNCHANGED <<events, workerPc, log, intact>>
      BY <2>1, ReadsShape DEF Reads
    <3>2. CASE ListCheck
      BY <1>3, <3>1, <3>2 DEF ListCheck, Return, ListFails, listFrame
    <3>3. CASE ListFill
      BY <3>1, <3>3 DEF ListFill, ListCheck, Return, listFrame
    <3> QED
      BY <2>1, <3>2, <3>3
  <2>3. PICK r \in Runs : r = target /\ Exists(r)
    BY <1>1, <2>2 DEF LookupInv, Lookups
  <2>4. result'.run = r /\ result'.is = seen
    BY <2>2, <2>3
  <2>5. ASSUME (Whole(r))'
        PROVE  (Current(result.is, r))'
    <3>1. (Settled(r))' = Settled(r) /\ Whole(r)
      BY <2>2, <2>5 DEF Settled, Whole, Writing, Length, Exists
    <3>2. Current(seen, r)
      <4>1. CASE ListCheck
        <5>1. /\ seen.count = Length(r) /\ seen.last = Length(r)
              /\ Settled(r) = Length(r) /\ Length(r) \in Nat
          BY <1>1, <2>2, <2>3, <4>1, ReadableIsWhole
        <5>2. atStart[r] <= Settled(r)
          BY <1>1, <2>2, <3>1 DEF SeenInv, Lookups
        <5>3. Truthful(seen, r)
          BY <1>1, <2>2, <2>3, <3>1, <4>1 DEF SeenInv
        <5> QED
          BY <5>1, <5>2, <5>3 DEF Current
      <4>2. CASE ListFill
        <5>1. Tells(seen, r) /\ seen.count >= atStart[r]
          BY <1>1, <2>3, <3>1, <4>2 DEF SeenInv, ListFill
        <5>2. seen.count \in 0..Settled(r) /\ seen = SummaryAt(events[r].lines, seen.count)
          BY <5>1 DEF Tells, HistoryOf
        <5>3. seen.last = seen.count
          BY <5>2 DEF SummaryAt
        <5>4. Settled(r) \in Nat /\ atStart[r] \in Nat
          BY <1>1, SettledType, LogAssumption DEF IInv, TypeOK
        <5> QED
          BY <5>1, <5>2, <5>3, <5>4 DEF Current, Truthful, Honest, Tells
      <4> QED
        BY <2>1, <4>1, <4>2
    <3> QED
      BY <2>2, <2>4, <3>1, <3>2 DEF Current, Truthful
  <2> QED
    BY <2>2, <2>3, <2>4, <2>5 DEF ResultInv, Exists
<1> QED
  BY <1>2, <1>3

(* No step at all.                                                         *)
LEMMA StutterHInv ==
  ASSUME HInv, UNCHANGED vars
  PROVE  HInv'
<1>1. UNCHANGED <<dirs, events, summary, workerPc, log, intact, update, mainPc, target,
                  seen, result, atStart, workerSees, mainSees>>
  BY DEF vars, storeVars, workerVars, mainVars, listVars
<1> QED
  BY <1>1 DEF HInv, LineInv, DirInv, UnsoundInv, LookupInv, SummaryInv, SightInv,
     UpdateInv, SeenInv, ResultInv, Current, AllTruthful, Truthful, Tells, Whole, Settled,
     Writing, Length, Exists

(* The second invariant is inductive, given the first.                     *)
LEMMA StepHInv == IInv /\ HInv /\ [Next]_vars => HInv'
<1>1. ASSUME IInv, HInv, Next PROVE HInv'
  BY <1>1, LineInvStep, DirInvStep, UnsoundInvStep, LookupInvStep, SummaryInvStep,
     SightInvStep, UpdateInvStep, SeenInvStep, ResultInvStep DEF HInv
<1> QED
  BY <1>1, StutterHInv

(* Both invariants hold in every reachable state, for any runs, events and *)
(* crashes (RunLog::append, update_summary, list_run_summaries).           *)
THEOREM HistoryInvariance == Spec => [](IInv /\ HInv)
<1> QED
  BY InitIInv, InitHInv, StepIInv, StepHInv, PTL DEF Spec

(* Whoever wrote summary.json last, and however late, and whatever texts   *)
(* have pieces in it: each of them tells what happened up to the event it  *)
(* counts, unless it was made from pieces of two (update_summary,          *)
(* rebuild_summary_from_events, write_summary, read_summary).              *)
THEOREM SummariesAreHistory == Spec => []SummaryIsHistory
<1>1. IInv /\ HInv => SummaryIsHistory
  <2> SUFFICES ASSUME IInv, HInv, NEW r \in Runs, Exists(r), Readable(events[r]),
                      NEW s \in summary[r] \ {Torn}, ~s.mixed
               PROVE  /\ s.count <= Length(r)
                      /\ s = SummaryAt(events[r].lines, s.count)
    BY DEF SummaryIsHistory, Exists
  <2>1. Whole(r) /\ Settled(r) = Length(r) /\ Length(r) \in Nat
    BY ReadableIsWhole DEF HInv
  <2>2. Honest(s, events[r].lines, Length(r))
    BY <2>1 DEF HInv, SummaryInv, AllTruthful, Truthful
  <2> QED
    BY <2>1, <2>2 DEF Honest, HistoryOf
<1> QED
  BY <1>1, HistoryInvariance, PTL

(* What a listing returns of a run counts all events there were when it    *)
(* was asked and none that are not there, and is true unless it is a       *)
(* blend, whatever the worker appends and writes meanwhile                 *)
(* (load_or_recover_summary, summary_matches_events).                      *)
THEOREM ListingsAreFresh == Spec => []ListIsFresh
<1>1. IInv /\ HInv => ListIsFresh
  <2> DEFINE s == result.is  r == result.run
  <2> SUFFICES ASSUME IInv, HInv, result # None, Readable(events[r])
               PROVE  /\ s.last = s.count
                      /\ atStart[r] <= s.count /\ s.count <= Length(r)
                      /\ ~s.mixed => s = SummaryAt(events[r].lines, s.count)
    BY DEF ListIsFresh
  <2>1. r \in Runs /\ Exists(r) /\ (Whole(r) => Current(s, r))
    BY DEF HInv, ResultInv
  <2>2. Whole(r) /\ Settled(r) = Length(r)
    BY <2>1, ReadableIsWhole DEF HInv
  <2> HIDE DEF s, r
  <2> QED
    BY <2>1, <2>2 DEF Current, Truthful, Honest, HistoryOf
<1> QED
  BY <1>1, HistoryInvariance, PTL
=============================================================================
