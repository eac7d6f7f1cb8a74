------------------------------- MODULE RunLog -------------------------------
(***************************************************************************)
(* The run log store (crates/agent-core/src/run_log.rs): one directory per *)
(* run with events.jsonl, to which the worker of the active run appends,   *)
(* and summary.json, which is rewritten after every append.                *)
(*                                                                         *)
(* Two threads use it.  The worker holds the mutex of SerializedRunLog     *)
(* during an append.  The request loop opens, creates, deletes and lists   *)
(* runs through RunLogStore, without that mutex.  Every write to a file is *)
(* a step of its own, and the process may die between any two of them.     *)
(* summary.json is written field by field and read byte by byte, so a text *)
(* can be found half there, or in pieces of two texts that still parse.    *)
(***************************************************************************)
EXTENDS Naturals, Sequences

CONSTANTS
  Runs,         \* run ids
  Terminals,    \* types of terminal events: run.completed, ...
  MaxEvents,    \* bound on the events of a run
  MaxCrashes,   \* bound on the crashes of the process
  NoFile,       \* the file does not exist
  Torn,         \* a line, or a text of summary.json, that is not valid JSON
  None

(* Event types the summary tells apart; all others are "other". *)
Kinds == {"run.started", "other"} \cup Terminals

(* events.jsonl: its lines, and whether the last one has its newline. *)
EventsFile == [lines : Seq({Torn} \cup Kinds), ended : BOOLEAN]

ASSUME LogAssumption ==
  /\ Terminals # {} /\ "run.started" \notin Terminals
  /\ "other" \notin Terminals /\ "running" \notin Terminals
  /\ MaxEvents \in Nat /\ MaxCrashes \in Nat
  /\ NoFile \notin EventsFile

VARIABLES
  dirs,        \* run directories
  events,      \* events.jsonl of every run
  summary,     \* summary.json of every run: the texts whose pieces are in
               \* it, of which a reader finds one or a blend; {} if no file
  crashes,     \* crashes so far
  \* the worker of the active run
  workerPc,
  log,         \* its RunLog: run, next_seq, and whether the file it opened
               \* ended with a newline
  appending,   \* the event being appended
  intact,      \* its line has nothing else on it
  update,      \* the summary being written
  workerSees,  \* the texts summary.json consists of while it is read
  \* the request loop
  mainPc,
  target,      \* the run it is working on
  todo,        \* runs a listing has still to look at
  seen,        \* the summary a listing has read or will write
  mainSees,    \* the texts summary.json consists of while it is read
  \* history
  result,      \* the summary a listing has just returned
  atStart,     \* events of every run when the listing began
  delivered    \* events passed on to the client, by run and seq

storeVars  == <<dirs, events, summary, crashes>>
workerVars == <<workerPc, log, appending, intact, update, workerSees>>
mainVars   == <<mainPc, target, todo, seen, mainSees>>
listVars   == <<result, atStart>>
vars == <<storeVars, workerVars, mainVars, listVars, delivered>>

Log == [run : Runs, next : 1..MaxEvents+1, fresh : BOOLEAN, sound : BOOLEAN]

(* An event passed on, and whether its log was opened at the end of a line. *)
Delivery == [seq : 1..MaxEvents, kind : Kinds, sound : BOOLEAN]

MainPc == {"idle", "creating", "createSummary", "createFill", "list",
           "listSummary", "listRead", "listCheck", "listRebuild", "listTruncate",
           "listFill", "deleting"}
WorkerPc == {"none", "ready", "event", "newline", "summary", "reading",
             "rebuild", "truncate", "fill"}

(* The types of the summaries that are written and returned are left to    *)
(* SummaryIsHistory and ListIsFresh, which say what is in them.            *)
TypeOK ==
  /\ dirs \subseteq Runs
  /\ events \in [Runs -> {NoFile} \cup EventsFile]
  /\ \A r \in Runs : events[r] # NoFile => Len(events[r].lines) <= MaxEvents
  /\ crashes \in 0..MaxCrashes
  /\ workerPc \in WorkerPc
  /\ log \in {None} \cup Log
  /\ appending \in {None} \cup Kinds
  /\ intact \in BOOLEAN
  /\ mainPc \in MainPc
  /\ target \in {None} \cup Runs
  /\ todo \subseteq Runs
  /\ atStart \in [Runs -> 0..MaxEvents]
  /\ delivered \in [Runs -> SUBSET Delivery]

Init ==
  /\ dirs = {} /\ crashes = 0
  /\ events = [r \in Runs |-> NoFile]
  /\ summary = [r \in Runs |-> {}]
  /\ workerPc = "none" /\ log = None /\ appending = None
  /\ intact = TRUE /\ update = None /\ workerSees = {}
  /\ mainPc = "idle" /\ target = None /\ todo = {} /\ seen = None
  /\ mainSees = {} /\ result = None
  /\ atStart = [r \in Runs |-> 0]
  /\ delivered = [r \in Runs |-> {}]
-----------------------------------------------------------------------------
(* read_events: every line must parse. *)
Readable(file) == Torn \notin {file.lines[i] : i \in DOMAIN file.lines}

Length(r) == IF events[r] = NoFile THEN 0 ELSE Len(events[r].lines)

(* A summary: lastSeq, eventCount and status, and, as history, whether it  *)
(* was put together from pieces of several texts.                          *)
EmptySummary == [last |-> 0, count |-> 0, status |-> "running", mixed |-> FALSE]

(* RunSummary::apply_event. *)
StatusAfter(status, kind) ==
  IF kind = "run.started" THEN "running"
  ELSE IF kind \in Terminals THEN kind ELSE status

(* What the first n events say of the run: its last start or end counts.   *)
StatusAt(lines, n) ==
  LET marks == {i \in 1..n : lines[i] # "other"}
      last  == CHOOSE i \in marks : \A j \in marks : j <= i
  IN  IF marks = {} \/ lines[last] = "run.started" THEN "running"
      ELSE lines[last]

SummaryAt(lines, n) ==
  [last |-> n, count |-> n, status |-> StatusAt(lines, n), mixed |-> FALSE]

(* rebuild_summary_from_events, of a readable file. *)
Rebuilt(r) == SummaryAt(events[r].lines, Length(r))

(* The summaries that pieces of some texts can make, field by field. *)
Blend(texts) ==
  {[last |-> a.last, count |-> b.count, status |-> c.status,
    mixed |-> a.mixed \/ a # b \/ b # c] : a, b, c \in texts}

(* read_summary, of a file that consists of these texts. *)
Readings(texts) == Blend(texts \ {Torn}) \cup (texts \cap {Torn})

(* apply_event, of the event with this seq. *)
Applied(s, kind, seq) ==
  [last |-> seq, count |-> seq, status |-> StatusAfter(s.status, kind),
   mixed |-> s.mixed]

WithLast(file, line) == [file EXCEPT !.lines[Len(file.lines)] = line]
-----------------------------------------------------------------------------
(* The worker: RunLog::append, one event at a time.  A turn starts with    *)
(* run.started and ends with a terminal event.                             *)

workerFrame == <<dirs, crashes, mainPc, target, todo, seen, listVars>>

(* Mutant: the file is not opened for appending. *)
BeginEventOver(k) ==
  /\ workerPc = "ready" /\ log.next <= MaxEvents
  /\ Length(log.run) < MaxEvents
  /\ IF log.fresh THEN k = "run.started" ELSE k # "run.started"
  /\ events' = [events EXCEPT ![log.run] =
                  [lines |-> <<Torn>>, ended |-> FALSE]]
  /\ intact' = TRUE
  /\ appending' = k
  /\ log' = [log EXCEPT !.fresh = FALSE]
  /\ workerPc' = "event"
  /\ UNCHANGED <<workerFrame, summary, update, workerSees, mainSees, delivered>>

(* The first bytes of the line.  If the file does not end with a newline   *)
(* they continue its last line.                                            *)
BeginEvent(k) ==
  /\ workerPc = "ready" /\ log.next <= MaxEvents
  /\ Length(log.run) < MaxEvents
  /\ IF log.fresh THEN k = "run.started" ELSE k # "run.started"
  /\ LET file == events[log.run] IN
       /\ events' = [events EXCEPT ![log.run] =
            IF file.ended
            THEN [lines |-> Append(file.lines, Torn), ended |-> FALSE]
            ELSE WithLast(file, Torn)]
       /\ intact' = file.ended
  /\ appending' = k
  /\ log' = [log EXCEPT !.fresh = FALSE]
  /\ workerPc' = "event"
  /\ UNCHANGED <<workerFrame, summary, update, workerSees, mainSees, delivered>>

FinishEvent ==
  /\ workerPc = "event"
  /\ events' = IF intact
               THEN [events EXCEPT ![log.run] = WithLast(@, appending)]
               ELSE events
  /\ workerPc' = "newline"
  /\ UNCHANGED <<workerFrame, summary, log, appending, intact, update,
                 workerSees, mainSees, delivered>>

EndLine ==
  /\ workerPc = "newline"
  /\ events' = [events EXCEPT ![log.run].ended = TRUE]
  /\ log' = [log EXCEPT !.next = @ + 1]
  /\ workerPc' = "summary"
  /\ UNCHANGED <<workerFrame, summary, appending, intact, update, workerSees,
                 mainSees, delivered>>

(* update_summary: open the summary, if there is one, and read it. *)
OpenSummary ==
  /\ workerPc = "summary"
  /\ workerSees' = summary[log.run]
  /\ workerPc' = IF summary[log.run] = {} THEN "rebuild" ELSE "reading"
  /\ UNCHANGED <<workerFrame, events, summary, log, appending, intact, update,
                 mainSees, delivered>>

(* Mutant: the event is applied to whatever summary there is. *)
ReadSummaryUnchecked ==
  /\ workerPc = "reading"
  /\ \E s \in Readings(workerSees) :
       IF s # Torn
       THEN /\ update' = Applied(s, appending, log.next - 1)
            /\ workerPc' = "truncate"
       ELSE workerPc' = "rebuild" /\ UNCHANGED update
  /\ workerSees' = {}
  /\ UNCHANGED <<workerFrame, events, summary, log, appending, intact, mainSees,
                 delivered>>

(* A summary that is malformed or not one event behind is rebuilt. *)
ReadSummary ==
  /\ workerPc = "reading"
  /\ \E s \in Readings(workerSees) :
       IF s # Torn /\ s.last + 1 = log.next - 1
       THEN /\ update' = Applied(s, appending, log.next - 1)
            /\ workerPc' = "truncate"
       ELSE workerPc' = "rebuild" /\ UNCHANGED update
  /\ workerSees' = {}
  /\ UNCHANGED <<workerFrame, events, summary, log, appending, intact, mainSees,
                 delivered>>

Rebuild ==
  /\ workerPc = "rebuild" /\ Readable(events[log.run])
  /\ update' = Rebuilt(log.run)
  /\ workerPc' = "truncate"
  /\ UNCHANGED <<workerFrame, events, summary, log, appending, intact,
                 workerSees, mainSees, delivered>>

MainAt(pc, r)   == mainPc = pc /\ target = r
WorkerAt(pc, r) == workerPc = pc /\ log.run = r

(* write_summary, first half: the file is truncated.  From now on it holds *)
(* pieces of the text and of the one another thread is writing meanwhile.  *)
Truncated(text, other) == {Torn, text} \cup other

(* write_summary, second half: the text is complete, unless it had company *)
(* or has it still.                                                        *)
Filled(texts, text, other) ==
  IF other = {} /\ texts = {Torn, text} THEN {text} ELSE texts

MainWrites(r)   == IF MainAt("listFill", r) THEN {seen} ELSE {}
WorkerWrites(r) == IF WorkerAt("fill", r) THEN {update} ELSE {}

TruncateSummary ==
  /\ workerPc = "truncate"
  /\ summary' = [summary EXCEPT ![log.run] =
                   Truncated(update, MainWrites(log.run))]
  /\ mainSees' = mainSees \cup
       IF MainAt("listRead", log.run) THEN {Torn, update} ELSE {}
  /\ workerPc' = "fill"
  /\ UNCHANGED <<workerFrame, events, log, appending, intact, update, workerSees,
                 delivered>>

(* The append returns, the event is delivered; a terminal event ends the   *)
(* worker.                                                                 *)
FillSummary ==
  /\ workerPc = "fill"
  /\ summary' = [summary EXCEPT ![log.run] =
                   Filled(@, update, MainWrites(log.run))]
  /\ delivered' = [delivered EXCEPT ![log.run] =
                     @ \cup {[seq |-> log.next - 1, kind |-> appending,
                               sound |-> log.sound]}]
  /\ update' = None /\ appending' = None
  /\ IF appending \in Terminals
     THEN workerPc' = "none" /\ log' = None
     ELSE workerPc' = "ready" /\ UNCHANGED log
  /\ UNCHANGED <<workerFrame, events, intact, workerSees, mainSees>>

WorkerGone ==
  /\ workerPc' = "none" /\ log' = None
  /\ appending' = None /\ update' = None /\ workerSees' = {}

(* An append fails (disk full, unreadable log): the turn ends with a       *)
(* RunLog error, without a terminal event.  Between appends it may end     *)
(* with an EventSink error.                                                *)
WorkerFails ==
  /\ workerPc # "none"
  /\ WorkerGone
  /\ UNCHANGED <<workerFrame, events, summary, intact, mainSees, delivered>>
-----------------------------------------------------------------------------
(* The request loop. *)

mainFrame == <<crashes, appending, intact, update, workerSees>>

(* open_or_create_run, of a run whose log exists and can be read. *)
OpenRun(r) ==
  /\ mainPc = "idle" /\ workerPc = "none"
  /\ events[r] # NoFile /\ Readable(events[r])
  /\ log' = [run |-> r, next |-> Length(r) + 1, fresh |-> TRUE,
             sound |-> events[r].ended]
  /\ workerPc' = "ready"
  /\ UNCHANGED <<mainFrame, dirs, events, summary, mainVars, listVars,
                 delivered>>

(* create_run: refused if the directory exists, even without a log. *)
CreateRun(r) ==
  /\ mainPc = "idle" /\ workerPc = "none"
  /\ events[r] = NoFile /\ r \notin dirs
  /\ dirs' = dirs \cup {r}
  /\ target' = r
  /\ mainPc' = "creating"
  /\ UNCHANGED <<mainFrame, events, summary, workerPc, log, todo, seen, mainSees,
                 listVars, delivered>>

CreateEvents ==
  /\ mainPc = "creating"
  /\ events' = [events EXCEPT ![target] = [lines |-> <<>>, ended |-> TRUE]]
  /\ mainPc' = "createSummary"
  /\ UNCHANGED <<mainFrame, dirs, summary, workerPc, log, target, todo, seen,
                 mainSees, listVars, delivered>>

CreateSummary ==
  /\ mainPc = "createSummary"
  /\ summary' = [summary EXCEPT ![target] = Truncated(EmptySummary, {})]
  /\ mainPc' = "createFill"
  /\ UNCHANGED <<mainFrame, dirs, events, workerPc, log, target, todo, seen,
                 mainSees, listVars, delivered>>

CreateFill ==
  /\ mainPc = "createFill"
  /\ summary' = [summary EXCEPT ![target] = {EmptySummary}]
  /\ log' = [run |-> target, next |-> 1, fresh |-> TRUE, sound |-> TRUE]
  /\ workerPc' = "ready"
  /\ mainPc' = "idle" /\ target' = None
  /\ UNCHANGED <<mainFrame, dirs, events, todo, seen, mainSees, listVars,
                 delivered>>

(* list_run_summaries. *)
BeginList ==
  /\ mainPc = "idle"
  /\ todo' = dirs
  /\ atStart' = [r \in Runs |-> IF workerPc \in {"event", "newline"}
                                   /\ log.run = r
                                THEN log.next - 1 ELSE Length(r)]
  /\ result' = None
  /\ mainPc' = "list"
  /\ UNCHANGED <<mainFrame, dirs, events, summary, workerPc, log, target,
                 seen, mainSees, delivered>>

listFrame == <<mainFrame, dirs, events, workerPc, log, atStart, delivered>>

ListRun(r) ==
  /\ mainPc = "list" /\ r \in todo
  /\ todo' = todo \ {r}
  /\ result' = None
  /\ IF events[r] = NoFile
     THEN UNCHANGED <<mainPc, target>>
     ELSE mainPc' = "listSummary" /\ target' = r
  /\ UNCHANGED <<listFrame, summary, seen, mainSees>>

EndList ==
  /\ mainPc = "list" /\ todo = {}
  /\ mainPc' = "idle" /\ target' = None /\ result' = None
  /\ UNCHANGED <<listFrame, summary, todo, seen, mainSees>>

Return(s) == result' = [run |-> target, is |-> s] /\ mainPc' = "list"

ListFails ==
  /\ mainPc' = "idle"
  /\ target' = None /\ todo' = {} /\ seen' = None /\ result' = None

(* load_or_recover_summary: open the summary, if there is one, *)
ListSummary ==
  /\ mainPc = "listSummary"
  /\ mainSees' = summary[target]
  /\ mainPc' = IF summary[target] = {} THEN "listRebuild" ELSE "listRead"
  /\ UNCHANGED <<listFrame, summary, target, todo, seen, result>>

(* and read it; *)
ListRead ==
  /\ mainPc = "listRead"
  /\ \E s \in Readings(mainSees) :
       IF s = Torn THEN mainPc' = "listRebuild" /\ UNCHANGED seen
       ELSE mainPc' = "listCheck" /\ seen' = s
  /\ mainSees' = {}
  /\ UNCHANGED <<listFrame, summary, target, todo, result>>

(* Mutant: a summary that parses is taken as it is. *)
ListCheckNothing ==
  /\ mainPc = "listCheck"
  /\ Return(seen) /\ seen' = None
  /\ UNCHANGED <<listFrame, summary, target, todo, mainSees>>

(* summary_matches_events: count the events; *)
ListCheck ==
  /\ mainPc = "listCheck"
  /\ \/ /\ Readable(events[target])
        /\ IF seen.last = Length(target) /\ seen.count = Length(target)
           THEN Return(seen) ELSE mainPc' = "listRebuild" /\ UNCHANGED result
        /\ seen' = None
        /\ UNCHANGED <<target, todo>>
     \/ ~Readable(events[target]) /\ ListFails
  /\ UNCHANGED <<listFrame, summary, mainSees>>

(* rebuild_summary_from_events, and write it back. *)
ListRebuild ==
  /\ mainPc = "listRebuild"
  /\ \/ /\ Readable(events[target])
        /\ seen' = Rebuilt(target)
        /\ mainPc' = "listTruncate"
        /\ UNCHANGED <<target, todo, result>>
     \/ ~Readable(events[target]) /\ ListFails
  /\ UNCHANGED <<listFrame, summary, mainSees>>

ListTruncate ==
  /\ mainPc = "listTruncate"
  /\ summary' = [summary EXCEPT ![target] =
                   Truncated(seen, WorkerWrites(target))]
  /\ workerSees' = workerSees \cup
       IF WorkerAt("reading", target) THEN {Torn, seen} ELSE {}
  /\ mainPc' = "listFill"
  /\ UNCHANGED <<crashes, dirs, events, workerPc, log, appending, intact, update,
                 target, todo, seen, mainSees, listVars, delivered>>

ListFill ==
  /\ mainPc = "listFill"
  /\ summary' = [summary EXCEPT ![target] =
                   Filled(@, seen, WorkerWrites(target))]
  /\ Return(seen) /\ seen' = None
  /\ UNCHANGED <<listFrame, target, todo, mainSees>>

(* agent.deleteRun, refused for the active run; remove_dir_all removes the *)
(* files in any order, then the directory, and may fail in between.        *)
BeginDelete(r) ==
  /\ mainPc = "idle" /\ r \in dirs
  /\ workerPc # "none" => log.run # r
  /\ target' = r
  /\ mainPc' = "deleting"
  /\ UNCHANGED <<mainFrame, dirs, events, summary, workerPc, log, todo, seen,
                 mainSees, listVars, delivered>>

DeleteEvents ==
  /\ mainPc = "deleting" /\ events[target] # NoFile
  /\ events' = [events EXCEPT ![target] = NoFile]
  /\ delivered' = [delivered EXCEPT ![target] = {}]
  /\ UNCHANGED <<mainFrame, dirs, summary, workerPc, log, mainVars,
                 listVars>>

DeleteSummary ==
  /\ mainPc = "deleting" /\ summary[target] # {}
  /\ summary' = [summary EXCEPT ![target] = {}]
  /\ UNCHANGED <<mainFrame, dirs, events, workerPc, log, mainVars,
                 listVars, delivered>>

DeleteDir ==
  /\ mainPc = "deleting"
  /\ events[target] = NoFile /\ summary[target] = {}
  /\ dirs' = dirs \ {target}
  /\ mainPc' = "idle" /\ target' = None
  /\ UNCHANGED <<mainFrame, events, summary, workerPc, log, todo, seen, mainSees,
                 listVars, delivered>>

DeleteFails ==
  /\ mainPc = "deleting"
  /\ mainPc' = "idle" /\ target' = None
  /\ UNCHANGED <<mainFrame, dirs, events, summary, workerPc, log, todo, seen,
                 mainSees, listVars, delivered>>

(* The process dies; files stay as they are. *)
Crash ==
  /\ crashes < MaxCrashes
  /\ crashes' = crashes + 1
  /\ WorkerGone
  /\ intact' = TRUE
  /\ mainPc' = "idle" /\ target' = None /\ todo' = {} /\ seen' = None
  /\ mainSees' = {} /\ result' = None
  /\ UNCHANGED <<dirs, events, summary, atStart, delivered>>
-----------------------------------------------------------------------------
WorkerStep ==
  \/ \E k \in Kinds : BeginEvent(k)
  \/ FinishEvent \/ EndLine
  \/ OpenSummary \/ ReadSummary \/ Rebuild \/ TruncateSummary \/ FillSummary
  \/ WorkerFails

MainStep ==
  \/ \E r \in Runs : OpenRun(r) \/ CreateRun(r) \/ ListRun(r) \/ BeginDelete(r)
  \/ CreateEvents \/ CreateSummary \/ CreateFill
  \/ BeginList \/ ListSummary \/ ListRead \/ ListCheck \/ ListRebuild
  \/ ListTruncate \/ ListFill \/ EndList
  \/ DeleteEvents \/ DeleteSummary \/ DeleteDir \/ DeleteFails

Next == WorkerStep \/ MainStep \/ Crash

Spec == Init /\ [][Next]_vars
-----------------------------------------------------------------------------
(* Properties. *)

OnDisk(r, d) == d.seq <= Length(r) /\ events[r].lines[d.seq] = d.kind

(* Nothing the client was shown is ever lost or changed on disk, and it is *)
(* there under the seq the client was shown: not by a crash, a failed      *)
(* append, a later turn or a listing; only a deletion of the run removes   *)
(* it.  (For a log that was opened at the end of a line; see               *)
(* ReplayMatchesLive for the others.)                                      *)
DeliveredIsDurable ==
  \A r \in Runs : \A d \in delivered[r] : d.sound => OnDisk(r, d)

(* What a summary says is what happened in the run up to the event it      *)
(* counts, whoever wrote it last and however late, and however its text    *)
(* was cut short; unless pieces of two texts were put together on the way. *)
SummaryIsHistory ==
  \A r \in Runs : events[r] # NoFile /\ Readable(events[r]) =>
    \A s \in summary[r] \ {Torn} : ~s.mixed =>
      s.count <= Length(r) /\ s = SummaryAt(events[r].lines, s.count)

(* What agent.listRuns returns of a run counts no fewer events than there  *)
(* were when it was asked and no more than there are, in both its numbers, *)
(* even if the last summary was never written, half written or mixed; and  *)
(* if it was not mixed all it says is true.                                *)
ListIsFresh ==
  result # None /\ Readable(events[result.run]) =>
    LET s == result.is IN
    /\ s.last = s.count
    /\ atStart[result.run] <= s.count /\ s.count <= Length(result.run)
    /\ ~s.mixed => s = SummaryAt(events[result.run].lines, s.count)
-----------------------------------------------------------------------------
(* A claim of the documentation that the code does not keep. *)

(* docs/run-log.md: live notifications and a later agent.resume replay the *)
(* same seqs and payloads, whatever the log was opened on.                 *)
ReplayMatchesLive ==
  \A r \in Runs : \A d \in delivered[r] : OnDisk(r, d)
=============================================================================
