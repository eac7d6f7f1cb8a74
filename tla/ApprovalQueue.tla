--------------------------- MODULE ApprovalQueue ---------------------------
(***************************************************************************)
(* The pending-approval queue of the RPC server (RpcApprovalQueue in       *)
(* crates/agent-rpc/src/lib.rs) with the two threads that share it: the    *)
(* request loop ("main"), which handles agent.approve, agent.reject and    *)
(* agent.cancel one at a time, and the worker of the active run, which     *)
(* asks for approval in the middle of a turn (turn_loop.rs) and blocks     *)
(* until the question is decided or expires.                               *)
(*                                                                         *)
(* One action is one critical section of the `pending` mutex, or one step  *)
(* a thread takes between two of them.  The clock, a crash of the process  *)
(* and the approvals file that survives it are actions of their own.       *)
(***************************************************************************)
EXTENDS Naturals, Sequences

CONSTANTS
  Runs,         \* run ids the client may use in agent.sendTurn
  Requests,     \* contents of the approval requests turns can make
  Budget,       \* those that ask for another window of provider turns
  Persistable,  \* those whose approval may be kept for the session or workspace
  Ids, IdOf,    \* approval ids, and the id a request carries
  Keys, KeyOf,  \* persistence keys, and the key of a persistable request
  Hunks, HunksOf, \* patch hunks, and those a request offers one by one
  HunkLists,    \* hunk lists a client may send with agent.approve
  MaxTurns,     \* bound on the turns of a behaviour
  Torn,         \* an approvals file cut off by a crash
  None          \* no question, nothing being handled

Question == [turn : Nat, request : Requests]
Verdict  == {"approved", "approvedHunks", "rejected", "canceled", "expired"}
Entry    == [run : Runs, asked : Question,
             decision : Verdict \cup {"none"}, late : BOOLEAN]
Scope    == {"never", "session", "workspace"}
Answer   == [kind : {"approved"}, hunks : {<<>>}, persist : Scope]
            \cup [kind : {"approvedHunks"}, hunks : HunkLists, persist : Scope]
            \cup [kind : {"rejected"}, hunks : {<<>>}, persist : {"none"}]
Handling == [about : Question, request : Requests, answer : Answer]

ASSUME QueueAssumption ==
  /\ Budget \subseteq Requests
  /\ Persistable \subseteq Requests \ Budget
  /\ IdOf \in [Requests -> Ids]
  /\ KeyOf \in [Persistable -> Keys]
  /\ HunksOf \in [Requests -> SUBSET Hunks]
  /\ HunkLists \subseteq Seq(Hunks)
  /\ MaxTurns \in Nat
  /\ \A K \in SUBSET Keys : Torn # K

(* turn_loop.rs numbers its approvals approval_{iteration}_{tool} and its  *)
(* budget prompts approval_model_turn_budget_{n}: never the same id.       *)
ASSUME IdsByKind ==
  \A b \in Budget, t \in Requests \ Budget : IdOf[b] # IdOf[t]
-----------------------------------------------------------------------------
VARIABLES
  pending,        \* the entries of the pending map
  sessionKeys,    \* persistence.session_keys
  workspaceKeys,  \* persistence.workspace_keys
  file,           \* contents of .prole-coder/approvals.v1.json
  mainPc,         \* where the request loop is
  handling,       \* the answer the request loop is handling
  workerPc,       \* where the worker of the active run is
  run,            \* run id of the active run
  turn,           \* number of the latest turn
  question,       \* the question the worker has asked
  canceled,       \* the cancellation token of the active run
  \* history of the current process
  announced,      \* questions the client has seen as tool.approvalRequired
  accepted,       \* answers the client was told had been accepted
  resolved,       \* decisions the worker took out of the queue
  executed,       \* operations that ran after an approval
  \* history across crashes
  chosen          \* keys for which a user asked a persistent approval

queueVars   == <<pending, sessionKeys, workspaceKeys, file>>
mainVars    == <<mainPc, handling>>
workerVars  == <<workerPc, run, turn, question, canceled>>
historyVars == <<announced, accepted, resolved, executed, chosen>>
vars == <<queueVars, mainVars, workerVars, historyVars>>

MainPc   == {"uninitialized", "idle", "persisting", "writing", "committing",
             "remembering", "canceling"}
WorkerPc == {"none", "running", "cleared", "announced", "deciding", "parked",
             "approved", "executing", "ended", "silent"}
Waiting  == {"announced", "deciding", "parked"}

TypeOK ==
  /\ pending \subseteq Entry
  /\ sessionKeys \subseteq Keys
  /\ workspaceKeys \subseteq Keys
  /\ file \in {Torn} \cup SUBSET Keys
  /\ mainPc \in MainPc
  /\ handling \in {None} \cup Handling
  /\ workerPc \in WorkerPc
  /\ run \in Runs
  /\ turn \in Nat
  /\ question \in {None} \cup Question
  /\ canceled \in BOOLEAN
  /\ announced \subseteq Question
  /\ accepted \subseteq [asked : Question, about : Question, kind : Verdict]
  /\ resolved \subseteq [asked : Question, by : Nat, kind : Verdict]
  /\ executed \subseteq [asked : Question, ok : BOOLEAN]
  /\ chosen \subseteq Keys

Init ==
  /\ pending = {}
  /\ sessionKeys = {}
  /\ workspaceKeys = {}
  /\ file = {}
  /\ mainPc = "uninitialized"
  /\ handling = None
  /\ workerPc = "none"
  /\ run \in Runs
  /\ turn = 0
  /\ question = None
  /\ canceled = FALSE
  /\ announced = {}
  /\ accepted = {}
  /\ resolved = {}
  /\ executed = {}
  /\ chosen = {}

-----------------------------------------------------------------------------
(* Helpers. *)

IdOfEntry(e) == IdOf[e.asked.request]

Undecided(e) == e.decision = "none"

Replace(e, f) == (pending \ {e}) \cup {f}

(* changed.notify_all(): the only thread that ever waits is the worker.    *)
Notified == IF workerPc = "parked" THEN "deciding" ELSE workerPc

Persists(answer) ==
  answer.kind = "approved" /\ answer.persist \in {"session", "workspace"}

PersistentlyApproved(r) ==
  r \in Persistable /\ KeyOf[r] \in sessionKeys \cup workspaceKeys

(* validate_approval_decision and the persistence check of resolve. *)
Acceptable(r, answer) ==
  /\ answer.kind = "approvedHunks" =>
       /\ answer.persist = "never"
       /\ answer.hunks # <<>>
       /\ \A i \in DOMAIN answer.hunks : answer.hunks[i] \in HunksOf[r]
       /\ \A i, j \in DOMAIN answer.hunks :
            answer.hunks[i] = answer.hunks[j] => i = j
  /\ answer.persist \in {"session", "workspace"} => r \in Persistable

-----------------------------------------------------------------------------
(* The request loop. *)

(* agent.initialize: configure_workspace_persistence.  A torn file is      *)
(* malformed, so the request fails and may be tried again.                 *)
Initialize ==
  /\ mainPc = "uninitialized"
  /\ file # Torn
  /\ mainPc' = "idle"
  /\ sessionKeys' = {}
  /\ workspaceKeys' = file
  /\ UNCHANGED <<pending, file, handling, workerVars, historyVars>>

(* agent.sendTurn: refused while a run is active; drains a finished one.   *)
StartTurn(r) ==
  /\ mainPc = "idle"
  /\ workerPc \in {"none", "ended"}
  /\ turn < MaxTurns
  /\ turn' = turn + 1
  /\ run' = r
  /\ workerPc' = "running"
  /\ question' = None
  /\ canceled' = FALSE
  /\ UNCHANGED <<queueVars, mainVars, historyVars>>

(* The first request after a worker died without a terminal event joins    *)
(* it and reports its error.                                               *)
ReportWorkerError ==
  /\ mainPc = "idle"
  /\ workerPc = "silent"
  /\ workerPc' = "none"
  /\ UNCHANGED <<queueVars, mainVars, run, turn, question, canceled,
                 historyVars>>

(* Mutant: session approvals are written to the file, workspace ones not. *)
BeginAnswerSwapped(about, answer) ==
  /\ mainPc = "idle"
  /\ \E e \in pending :
       /\ IdOfEntry(e) = IdOf[about.request]
       /\ Undecided(e)
       /\ ~e.late
       /\ Acceptable(e.asked.request, answer)
       /\ chosen' = IF Persists(answer)
                    THEN chosen \cup {KeyOf[e.asked.request]} ELSE chosen
       /\ handling' = [about |-> about, request |-> e.asked.request,
                       answer |-> answer]
  /\ mainPc' = IF Persists(answer) /\ answer.persist = "session"
               THEN "persisting" ELSE "committing"
  /\ UNCHANGED <<queueVars, workerVars, announced, accepted, resolved,
                 executed>>

(* resolve, first critical section.  The client names the question by its  *)
(* approval id only.  A refused answer changes nothing.                    *)
BeginAnswer(about, answer) ==
  /\ mainPc = "idle"
  /\ \E e \in pending :
       /\ IdOfEntry(e) = IdOf[about.request]
       /\ Undecided(e)
       /\ ~e.late
       /\ Acceptable(e.asked.request, answer)
       /\ chosen' = IF Persists(answer)
                    THEN chosen \cup {KeyOf[e.asked.request]} ELSE chosen
       /\ handling' = [about |-> about, request |-> e.asked.request,
                       answer |-> answer]
  /\ mainPc' = IF Persists(answer) /\ answer.persist = "workspace"
               THEN "persisting" ELSE "committing"
  /\ UNCHANGED <<queueVars, workerVars, announced, accepted, resolved,
                 executed>>

(* write_workspace_approvals: fs::write truncates the file, then fills it. *)
TruncateFile ==
  /\ mainPc = "persisting"
  /\ file' = Torn
  /\ mainPc' = "writing"
  /\ UNCHANGED <<pending, sessionKeys, workspaceKeys, handling, workerVars,
                 historyVars>>

WriteFile ==
  /\ mainPc = "writing"
  /\ file' = workspaceKeys \cup {KeyOf[handling.request]}
  /\ mainPc' = "committing"
  /\ UNCHANGED <<pending, sessionKeys, workspaceKeys, handling, workerVars,
                 historyVars>>

WriteFails ==
  /\ mainPc \in {"persisting", "writing"}
  /\ mainPc' = "idle"
  /\ handling' = None
  /\ UNCHANGED <<queueVars, workerVars, historyVars>>

(* resolve, second critical section: the entry is looked up and checked    *)
(* again.                                                                  *)
Commit ==
  /\ mainPc = "committing"
  /\ \E e \in pending :
       /\ IdOfEntry(e) = IdOf[handling.request]
       /\ Undecided(e)
       /\ ~e.late
       /\ pending' = Replace(e, [e EXCEPT !.decision = handling.answer.kind])
       /\ accepted' = accepted \cup
                        {[asked |-> e.asked, about |-> handling.about,
                          kind |-> handling.answer.kind]}
  /\ workerPc' = Notified
  /\ IF Persists(handling.answer)
     THEN mainPc' = "remembering" /\ handling' = handling
     ELSE mainPc' = "idle" /\ handling' = None
  /\ UNCHANGED <<sessionKeys, workspaceKeys, file, run, turn, question,
                 canceled, announced, resolved, executed, chosen>>

CommitTooLate ==
  /\ mainPc = "committing"
  /\ \E e \in pending :
       /\ IdOfEntry(e) = IdOf[handling.request]
       /\ Undecided(e)
       /\ e.late
       /\ pending' = Replace(e, [e EXCEPT !.decision = "expired"])
  /\ workerPc' = Notified
  /\ mainPc' = "idle"
  /\ handling' = None
  /\ UNCHANGED <<sessionKeys, workspaceKeys, file, run, turn, question,
                 canceled, historyVars>>

CommitGone ==
  /\ mainPc = "committing"
  /\ \A e \in pending :
       IdOfEntry(e) = IdOf[handling.request] => ~Undecided(e)
  /\ mainPc' = "idle"
  /\ handling' = None
  /\ UNCHANGED <<queueVars, workerVars, historyVars>>

(* remember_persistent_key, after the pending lock was released and        *)
(* without a notification.                                                 *)
Remember ==
  /\ mainPc = "remembering"
  /\ LET key == KeyOf[handling.request] IN
       IF handling.answer.persist = "session"
       THEN sessionKeys' = sessionKeys \cup {key} /\ UNCHANGED workspaceKeys
       ELSE workspaceKeys' = workspaceKeys \cup {key} /\ UNCHANGED sessionKeys
  /\ mainPc' = "idle"
  /\ handling' = None
  /\ UNCHANGED <<pending, file, workerVars, historyVars>>

(* agent.cancel (and shutdown): first the token, then the pending entries. *)
CancelToken ==
  /\ mainPc = "idle"
  /\ workerPc \notin {"none", "ended", "silent"}
  /\ canceled' = TRUE
  /\ mainPc' = "canceling"
  /\ UNCHANGED <<queueVars, handling, workerPc, run, turn, question,
                 historyVars>>

(* Mutant: decisions already made are overwritten. *)
CancelPendingAll ==
  /\ mainPc = "canceling"
  /\ pending' = {IF e.run = run
                 THEN [e EXCEPT !.decision = "canceled"] ELSE e : e \in pending}
  /\ workerPc' = Notified
  /\ mainPc' = "idle"
  /\ UNCHANGED <<sessionKeys, workspaceKeys, file, handling, run, turn,
                 question, canceled, historyVars>>

CancelPending ==
  /\ mainPc = "canceling"
  /\ pending' = {IF e.run = run /\ Undecided(e)
                 THEN [e EXCEPT !.decision = "canceled"] ELSE e : e \in pending}
  /\ workerPc' = Notified
  /\ mainPc' = "idle"
  /\ UNCHANGED <<sessionKeys, workspaceKeys, file, handling, run, turn,
                 question, canceled, historyVars>>

-----------------------------------------------------------------------------
(* The worker. *)

(* Mutant: the token is not looked at. *)
CheckTokenIgnored ==
  /\ workerPc = "running"
  /\ workerPc' = "cleared"
  /\ UNCHANGED <<queueVars, mainVars, run, turn, question, canceled,
                 historyVars>>

(* CancellationToken::check at one of the many points where the turn loop  *)
(* calls it.                                                               *)
CheckToken ==
  /\ workerPc = "running"
  /\ workerPc' = IF canceled THEN "ended" ELSE "cleared"
  /\ UNCHANGED <<queueVars, mainVars, run, turn, question, canceled,
                 historyVars>>

(* An operation that needs no approval. *)
Proceed ==
  /\ workerPc = "cleared"
  /\ workerPc' = "running"
  /\ UNCHANGED <<queueVars, mainVars, run, turn, question, canceled,
                 historyVars>>

Finish ==
  /\ workerPc = "running"
  /\ workerPc' = "ended"
  /\ UNCHANGED <<queueVars, mainVars, run, turn, question, canceled,
                 historyVars>>

(* Ids are unique within a turn: iterations are never numbered twice. *)
IdUnusedInTurn(r) ==
  \A q \in announced : q.turn = turn => IdOf[q.request] # IdOf[r]

(* append_turn_event(tool.approvalRequired): the event sink registers the  *)
(* request before the event is passed on.                                  *)
Announce(r) ==
  /\ workerPc = "cleared"
  /\ IdUnusedInTurn(r)
  /\ LET q == [turn |-> turn, request |-> r] IN
       /\ question' = q
       /\ announced' = announced \cup {q}
       /\ \/ /\ \A e \in pending : IdOfEntry(e) # IdOf[r]
             /\ pending' = pending \cup
                  {[run |-> run, asked |-> q, decision |-> "none",
                    late |-> FALSE]}
          \/ /\ \E e \in pending : e.asked.request = r /\ e.run = run
             /\ UNCHANGED pending
  /\ workerPc' = IF r \in Budget THEN "announced" ELSE "deciding"
  /\ UNCHANGED <<sessionKeys, workspaceKeys, file, mainVars, run, turn,
                 canceled, accepted, resolved, executed, chosen>>

(* The id is taken by a different request: the sink fails, and an event    *)
(* sink error ends the turn without a terminal event.                      *)
AnnounceConflicts(r) ==
  /\ workerPc = "cleared"
  /\ IdUnusedInTurn(r)
  /\ \E e \in pending :
       /\ IdOfEntry(e) = IdOf[r]
       /\ e.asked.request # r \/ e.run # run
  /\ workerPc' = "silent"
  /\ UNCHANGED <<queueVars, mainVars, run, turn, question, canceled,
                 historyVars>>

(* ensure_model_turn_budget_continuation checks the token once more;       *)
(* ensure_approval does not.                                               *)
RecheckToken ==
  /\ workerPc = "announced"
  /\ workerPc' = IF canceled THEN "ended" ELSE "deciding"
  /\ UNCHANGED <<queueVars, mainVars, run, turn, question, canceled,
                 historyVars>>

(* Mutant: a rejection does not stop the operation. *)
AfterVerdictLenient(verdict) ==
  IF verdict \in {"canceled", "expired"} THEN "ended"
  ELSE IF question.request \in Budget THEN "running" ELSE "approved"

AfterVerdict(verdict) ==
  IF verdict \notin {"approved", "approvedHunks"} THEN "ended"
  ELSE IF question.request \in Budget THEN "running" ELSE "approved"

(* wait_for_decision leaves its loop: the entry is removed. *)
Take(e, verdict) ==
  /\ pending' = pending \ {e}
  /\ resolved' = resolved \cup
       {[asked |-> e.asked, by |-> turn, kind |-> verdict]}
  /\ workerPc' = AfterVerdict(verdict)
  /\ UNCHANGED <<sessionKeys, workspaceKeys, file, mainVars, run, turn,
                 question, canceled, announced, accepted, executed, chosen>>

(* One pass of wait_for_decision under the lock: a decision, then a        *)
(* persistent approval, then the deadline, else the thread parks.          *)
Own(e) == IdOfEntry(e) = IdOf[question.request]

TakeDecision ==
  /\ workerPc = "deciding"
  /\ \E e \in pending : Own(e) /\ ~Undecided(e) /\ Take(e, e.decision)

TakePersistent ==
  /\ workerPc = "deciding"
  /\ \E e \in pending :
       /\ Own(e) /\ Undecided(e)
       /\ PersistentlyApproved(e.asked.request)
       /\ Take(e, "approved")

(* Mutant: the deadline counts as consent. *)
TakeExpiredApproves ==
  /\ workerPc = "deciding"
  /\ \E e \in pending :
       /\ Own(e) /\ Undecided(e)
       /\ ~PersistentlyApproved(e.asked.request)
       /\ e.late
       /\ Take(e, "approved")

TakeExpired ==
  /\ workerPc = "deciding"
  /\ \E e \in pending :
       /\ Own(e) /\ Undecided(e)
       /\ ~PersistentlyApproved(e.asked.request)
       /\ e.late
       /\ Take(e, "expired")

Park ==
  /\ workerPc = "deciding"
  /\ \E e \in pending :
       /\ Own(e) /\ Undecided(e)
       /\ ~PersistentlyApproved(e.asked.request)
       /\ ~e.late
  /\ workerPc' = "parked"
  /\ UNCHANGED <<queueVars, mainVars, run, turn, question, canceled,
                 historyVars>>

(* Mutant: the thread waits without a timeout. *)
WakeNever ==
  /\ FALSE
  /\ UNCHANGED vars

(* wait_timeout returns at the deadline, or for no reason at all. *)
WakeAtDeadline ==
  /\ workerPc = "parked"
  /\ \E e \in pending : Own(e) /\ e.late
  /\ workerPc' = "deciding"
  /\ UNCHANGED <<queueVars, mainVars, run, turn, question, canceled,
                 historyVars>>

WakeSpuriously ==
  /\ workerPc = "parked"
  /\ workerPc' = "deciding"
  /\ UNCHANGED <<queueVars, mainVars, run, turn, question, canceled,
                 historyVars>>

(* execute_without_approval: the token is checked, then the tool starts. *)
StartTool ==
  /\ workerPc = "approved"
  /\ workerPc' = IF canceled THEN "ended" ELSE "executing"
  /\ UNCHANGED <<queueVars, mainVars, run, turn, question, canceled,
                 historyVars>>

(* tool.completed, or an error that ends the turn. *)
FinishTool(ok) ==
  /\ workerPc = "executing"
  /\ workerPc' = IF ok THEN "running" ELSE "ended"
  /\ executed' = executed \cup {[asked |-> question, ok |-> ok]}
  /\ UNCHANGED <<queueVars, mainVars, run, turn, question, canceled,
                 announced, accepted, resolved, chosen>>

-----------------------------------------------------------------------------
(* The environment. *)

(* The deadline of an entry passes (expires_at, 300 s by default). *)
Tick ==
  /\ \E e \in pending :
       /\ Undecided(e)
       /\ ~e.late
       /\ pending' = Replace(e, [e EXCEPT !.late = TRUE])
  /\ UNCHANGED <<sessionKeys, workspaceKeys, file, mainVars, workerVars,
                 historyVars>>

(* The process dies and is started again; only the file survives. *)
Restart ==
  /\ pending' = {}
  /\ sessionKeys' = {}
  /\ workspaceKeys' = {}
  /\ mainPc' = "uninitialized"
  /\ handling' = None
  /\ workerPc' = "none"
  /\ question' = None
  /\ canceled' = FALSE
  /\ announced' = {}
  /\ accepted' = {}
  /\ resolved' = {}
  /\ executed' = {}
  /\ UNCHANGED <<file, run, turn, chosen>>

-----------------------------------------------------------------------------
MainStep ==
  \/ Initialize
  \/ \E r \in Runs : StartTurn(r)
  \/ ReportWorkerError
  \/ \E about \in announced, answer \in Answer : BeginAnswer(about, answer)
  \/ TruncateFile \/ WriteFile \/ WriteFails
  \/ Commit \/ CommitTooLate \/ CommitGone \/ Remember
  \/ CancelToken \/ CancelPending

WorkerStep ==
  \/ CheckToken \/ Proceed \/ Finish
  \/ \E r \in Requests : Announce(r) \/ AnnounceConflicts(r)
  \/ RecheckToken
  \/ TakeDecision \/ TakePersistent \/ TakeExpired \/ Park \/ WakeAtDeadline
  \/ StartTool
  \/ \E ok \in BOOLEAN : FinishTool(ok)

Next == MainStep \/ WorkerStep \/ WakeSpuriously \/ Tick \/ Restart

(* The worker thread is scheduled, time passes, and a request the loop has *)
(* begun to handle is handled to its end.                                  *)
Fairness ==
  /\ WF_vars(WorkerStep)
  /\ WF_vars(Tick)
  /\ WF_vars(CancelPending)

Spec     == Init /\ [][Next]_vars
FairSpec == Spec /\ Fairness
-----------------------------------------------------------------------------
(* Properties. *)

(* A question blocks its worker only while the map has an entry for it:    *)
(* registration precedes the wait and nobody else removes the entry, so    *)
(* wait_for_decision never finds "was not registered before policy wait".  *)
WaiterHasEntry ==
  workerPc \in Waiting =>
    \E e \in pending : e.asked.request = question.request

(* An answer that was reported to the client as accepted is what the       *)
(* worker gets, whatever expiry, persistence and cancellation do between   *)
(* the two critical sections of resolve and the worker's wake-up; nothing  *)
(* else is delivered for that question.                                    *)
AcceptedAnswerIsDelivered ==
  \A a \in accepted :
    /\ \/ \E e \in pending : e.asked = a.asked /\ e.decision = a.kind
       \/ \E r \in resolved : r.asked = a.asked
    /\ \A r \in resolved : r.asked = a.asked => r.kind = a.kind

(* The worker is told "approved" only if the client was told its approval  *)
(* of this question was accepted, or the operation is one for which a user *)
(* once asked a persistent approval.                                       *)
ApprovalIsAuthorised ==
  \A r \in resolved :
    r.kind \in {"approved", "approvedHunks"} =>
      \/ \E a \in accepted : a.asked = r.asked /\ a.kind = r.kind
      \/ /\ r.asked.request \in Persistable
         /\ KeyOf[r.asked.request] \in chosen

(* Only a budget prompt can outlive its turn in the map (its worker may    *)
(* give up between registering and waiting); the entry of a tool approval  *)
(* belongs to the question its worker is waiting on.                       *)
OnlyBudgetLingers ==
  \A e \in pending :
    \/ e.asked.request \in Budget
    \/ workerPc \in Waiting /\ e.asked = question

(* What an operation may run on was decided in the turn that asked.        *)
ToolVerdictIsFresh ==
  \A r \in resolved : r.asked.request \notin Budget => r.by = r.asked.turn

(* A workspace approval the process relies on is in the approvals file, so *)
(* a restart finds it, unless a write is or was cut off.                   *)
GrantsAreOnDisk == file = Torn \/ workspaceKeys \subseteq file

(* A blocked worker is always released, by an answer, a cancellation or    *)
(* the deadline.                                                           *)
WaitEnds == workerPc \in Waiting ~> workerPc \notin Waiting

(* A canceled run ends, even if the token was set just after the worker    *)
(* had looked at it.                                                       *)
CancelEndsRun == canceled ~> workerPc \in {"none", "ended", "silent"}
                             \/ ~canceled

-----------------------------------------------------------------------------
(* Refinement: the tool approvals of this process follow the ApprovalState *)
(* machine.                                                                *)

ToolQuestions == [turn : 1..MaxTurns, request : Requests \ Budget]

StateOfVerdict(verdict) ==
  IF verdict = "approvedHunks" THEN "approved"
  ELSE IF verdict = "none" THEN "pending" ELSE verdict

LifeOf(q) ==
  IF q \notin announced THEN "unasked"
  ELSE IF \E x \in executed : x.asked = q
    THEN IF [asked |-> q, ok |-> TRUE] \in executed THEN "completed"
         ELSE "failed"
  ELSE IF workerPc = "executing" /\ question = q THEN "executing"
  ELSE IF \E r \in resolved : r.asked = q
    THEN StateOfVerdict((CHOOSE r \in resolved : r.asked = q).kind)
  ELSE IF \E e \in pending : e.asked = q
    THEN StateOfVerdict((CHOOSE e \in pending : e.asked = q).decision)
  ELSE "pending"

Lifecycle == INSTANCE ApprovalLifecycle
               WITH Questions <- ToolQuestions,
                    state <- [q \in ToolQuestions |-> LifeOf(q)]

(* Every tool approval moves through the ApprovalState machine and through *)
(* nothing else: asked once, decided once, executed only when approved.    *)
ImplementsLifecycle == Lifecycle!Spec

-----------------------------------------------------------------------------
(* Claims of the documentation that the code does not keep. *)

(* docs/json-rpc-protocol.md: an approvalId names one approval request,    *)
(* and a used id is refused: an accepted answer decides the question it    *)
(* was given for.                                                          *)
AnswerMatchesQuestion == \A a \in accepted : a.asked = a.about

(* docs/rpc-server.md: agent.cancel sets the token and cancels the pending *)
(* approvals of the run: once it was answered none is left undecided.      *)
CancelLeavesNothingPending ==
  canceled /\ mainPc # "canceling" =>
    \A e \in pending : e.run = run => ~Undecided(e)
=============================================================================
