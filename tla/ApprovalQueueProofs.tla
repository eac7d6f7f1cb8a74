------------------------ MODULE ApprovalQueueProofs ------------------------
(***************************************************************************)
(* Proofs about ApprovalQueue, for any runs, requests, ids and number of   *)
(* turns.  The safety properties are not inductive alone: whether an       *)
(* accepted answer reaches the worker depends on which entries the map can *)
(* hold, on who may still remove them and on what the request loop is in   *)
(* the middle of.  IInv states those facts.  LifeInv adds what the history *)
(* of a question has to satisfy for every step to be one of                *)
(* ApprovalLifecycle, or a stutter.                                        *)
(***************************************************************************)
EXTENDS ApprovalQueue, TLAPS

(* The map is keyed by approval id. *)
UniqueIds ==
  \A e, f \in pending : IdOfEntry(e) = IdOfEntry(f) => e = f

(* Everything refers to questions already asked, in this turn or before. *)
AskedInv ==
  /\ \A q \in announced : q.turn <= turn
  /\ \A e \in pending : e.asked \in announced
  /\ \A r \in resolved : r.asked \in announced
  /\ \A a \in accepted : a.asked \in announced

(* What the worker waits for or executes is a question of its own turn. *)
WorkerInv ==
  /\ workerPc \in Waiting \cup {"approved", "executing"} =>
       question \in announced /\ question.turn = turn
  /\ workerPc = "announced" => question.request \in Budget
  /\ workerPc \in {"approved", "executing"} => question.request \notin Budget

(* A question leaves the map when it is resolved. *)
ResolvedIsGone == \A r \in resolved, e \in pending : r.asked # e.asked

(* The map says "approved" only of what a client approved. *)
DecisionInv ==
  \A e \in pending :
    e.decision \in {"approved", "approvedHunks"} =>
      \E a \in accepted : a.asked = e.asked /\ a.kind = e.decision

(* The request loop in the middle of an answer. *)
Answering == mainPc \in {"persisting", "writing", "committing", "remembering"}

HandlingInv ==
  /\ Answering => handling \in Handling
  /\ mainPc \in {"persisting", "writing", "remembering"} =>
       Persists(handling.answer)
  /\ mainPc \in {"persisting", "writing"} =>
       handling.answer.persist = "workspace"
  /\ Answering /\ Persists(handling.answer) =>
       /\ handling.request \in Persistable
       /\ KeyOf[handling.request] \in chosen
  /\ /\ mainPc \in {"committing", "remembering"}
     /\ Persists(handling.answer)
     /\ handling.answer.persist = "workspace"
     => file = Torn \/ KeyOf[handling.request] \in file

KeysInv ==
  /\ sessionKeys \subseteq chosen
  /\ workspaceKeys \subseteq chosen
  /\ file = Torn \/ file \subseteq chosen

QueueInv ==
  /\ UniqueIds
  /\ AskedInv
  /\ WorkerInv
  /\ ResolvedIsGone
  /\ WaiterHasEntry
  /\ OnlyBudgetLingers
  /\ ToolVerdictIsFresh

AnswerInv ==
  /\ DecisionInv
  /\ AcceptedAnswerIsDelivered
  /\ ApprovalIsAuthorised

GrantInv ==
  /\ HandlingInv
  /\ KeysInv
  /\ GrantsAreOnDisk

IInv == TypeOK /\ QueueInv /\ AnswerInv /\ GrantInv

-----------------------------------------------------------------------------
(* Types. *)

(* A verdict put in an entry leaves the rest of the entry as it is,        *)
LEMMA DecideType ==
  ASSUME NEW e \in Entry, NEW d \in Verdict
  PROVE  /\ [e EXCEPT !.decision = d] \in Entry
         /\ [e EXCEPT !.decision = d].decision = d
         /\ [e EXCEPT !.decision = d].asked = e.asked
         /\ [e EXCEPT !.decision = d].run = e.run
BY DEF Entry

(* and so does the clock.                                                  *)
LEMMA LateType ==
  ASSUME NEW e \in Entry
  PROVE  /\ [e EXCEPT !.late = TRUE] \in Entry
         /\ [e EXCEPT !.late = TRUE].decision = e.decision
         /\ [e EXCEPT !.late = TRUE].asked = e.asked
         /\ [e EXCEPT !.late = TRUE].run = e.run
BY DEF Entry

(* The kinds and scopes of answers.                                        *)
LEMMA AnswerType ==
  ASSUME NEW a \in Answer
  PROVE  /\ a.kind \in {"approved", "approvedHunks", "rejected"}
         /\ a.kind \in Verdict
         /\ a.persist \in {"never", "session", "workspace", "none"}
BY DEF Answer, Verdict, Scope

(* Every step keeps the types.                                             *)
LEMMA TypeStep ==
  ASSUME TypeOK, HandlingInv, WorkerInv, [Next]_vars
  PROVE  TypeOK'
<1> USE QueueAssumption DEF TypeOK, MainPc, WorkerPc, queueVars, mainVars,
        workerVars, historyVars
<1>t. ASSUME NEW e \in pending, NEW d \in Verdict, Take(e, d)
      PROVE  TypeOK'
  <2>1. [asked |-> e.asked, by |-> turn, kind |-> d]
          \in [asked : Question, by : Nat, kind : Verdict]
    BY DEF Entry
  <2>2. AfterVerdict(d) \in WorkerPc
    BY DEF AfterVerdict
  <2>3. QED
    BY <1>t, <2>1, <2>2 DEF Take
<1>1. CASE Initialize
  BY <1>1 DEF Initialize
<1>2. ASSUME NEW r \in Runs, StartTurn(r)
      PROVE  TypeOK'
  <2>1. turn + 1 \in Nat
    OBVIOUS
  <2>2. QED
    BY <1>2, <2>1 DEF StartTurn
<1>3. CASE ReportWorkerError
  BY <1>3 DEF ReportWorkerError
<1>4. ASSUME NEW about \in announced, NEW answer \in Answer,
             BeginAnswer(about, answer)
      PROVE  TypeOK'
  <2>1. PICK e \in pending :
          /\ Acceptable(e.asked.request, answer)
          /\ chosen' = IF Persists(answer)
                       THEN chosen \cup {KeyOf[e.asked.request]} ELSE chosen
          /\ handling' = [about |-> about, request |-> e.asked.request,
                          answer |-> answer]
    BY <1>4 DEF BeginAnswer
  <2>2. e.asked.request \in Requests
    BY DEF Entry, Question
  <2>3. handling' \in Handling
    BY <2>1, <2>2 DEF Handling
  <2>4. chosen' \subseteq Keys
    BY <2>1, <2>2 DEF Acceptable, Persists
  <2>5. QED
    BY <1>4, <2>3, <2>4 DEF BeginAnswer
<1>5. CASE TruncateFile
  BY <1>5 DEF TruncateFile
<1>6. CASE WriteFile
  BY <1>6 DEF WriteFile, HandlingInv, Answering
<1>7. CASE WriteFails
  BY <1>7 DEF WriteFails
<1>8. CASE Commit
  <2>1. handling \in Handling
    BY <1>8 DEF Commit, HandlingInv, Answering
  <2>2. handling.about \in Question /\ handling.answer \in Answer
    BY <2>1 DEF Handling
  <2>3. PICK e \in pending :
          /\ pending' = Replace(e, [e EXCEPT !.decision = handling.answer.kind])
          /\ accepted' = accepted \cup
               {[asked |-> e.asked, about |-> handling.about,
                 kind |-> handling.answer.kind]}
    BY <1>8 DEF Commit
  <2>4. pending' \subseteq Entry
    BY <2>2, <2>3, AnswerType, DecideType DEF Replace
  <2>5. [asked |-> e.asked, about |-> handling.about,
         kind |-> handling.answer.kind]
          \in [asked : Question, about : Question, kind : Verdict]
    BY <2>2, AnswerType DEF Entry
  <2>6. QED
    BY <1>8, <2>1, <2>3, <2>4, <2>5 DEF Commit, Notified
<1>9. CASE CommitTooLate
  <2>0. "expired" \in Verdict
    BY DEF Verdict
  <2>1. pending' \subseteq Entry
    BY <1>9, <2>0, DecideType DEF CommitTooLate, Replace
  <2>2. QED
    BY <1>9, <2>1 DEF CommitTooLate, Notified
<1>10. CASE CommitGone
  BY <1>10 DEF CommitGone
<1>11. CASE Remember
  BY <1>11 DEF Remember, HandlingInv, Answering
<1>12. CASE CancelToken
  BY <1>12 DEF CancelToken
<1>13. CASE CancelPending
  <2>0. "canceled" \in Verdict
    BY DEF Verdict
  <2>1. pending' \subseteq Entry
    BY <1>13, <2>0, DecideType DEF CancelPending
  <2>2. QED
    BY <1>13, <2>1 DEF CancelPending, Notified
<1>14. CASE CheckToken
  BY <1>14 DEF CheckToken
<1>15. CASE Proceed
  BY <1>15 DEF Proceed
<1>16. CASE Finish
  BY <1>16 DEF Finish
<1>17. ASSUME NEW r \in Requests, Announce(r)
       PROVE  TypeOK'
  <2>1. [turn |-> turn, request |-> r] \in Question
    BY DEF Question
  <2>2. [run |-> run, asked |-> [turn |-> turn, request |-> r],
         decision |-> "none", late |-> FALSE] \in Entry
    BY <2>1 DEF Entry
  <2>3. pending' \subseteq Entry
    BY <1>17, <2>2 DEF Announce
  <2>4. QED
    BY <1>17, <2>1, <2>3 DEF Announce
<1>18. ASSUME NEW r \in Requests, AnnounceConflicts(r)
       PROVE  TypeOK'
  BY <1>18 DEF AnnounceConflicts
<1>19. CASE RecheckToken
  BY <1>19 DEF RecheckToken
<1>20. CASE TakeDecision
  BY <1>20, <1>t DEF TakeDecision, Entry, Undecided
<1>21. CASE TakePersistent
  BY <1>21, <1>t DEF TakePersistent, Verdict
<1>22. CASE TakeExpired
  BY <1>22, <1>t DEF TakeExpired, Verdict
<1>23. CASE Park
  BY <1>23 DEF Park
<1>24. CASE WakeAtDeadline \/ WakeSpuriously
  BY <1>24 DEF WakeAtDeadline, WakeSpuriously
<1>25. CASE StartTool
  BY <1>25 DEF StartTool
<1>26. ASSUME NEW ok \in BOOLEAN, FinishTool(ok)
       PROVE  TypeOK'
  <2>1. question \in Question
    BY <1>26 DEF FinishTool, WorkerInv
  <2>2. QED
    BY <1>26, <2>1 DEF FinishTool
<1>27. CASE Tick
  <2>1. pending' \subseteq Entry
    BY <1>27, LateType DEF Tick, Replace
  <2>2. QED
    BY <1>27, <2>1 DEF Tick
<1>28. CASE Restart
  BY <1>28 DEF Restart
<1>29. CASE UNCHANGED vars
  BY <1>29 DEF vars
<1>30. QED
  BY <1>1, <1>2, <1>3, <1>4, <1>5, <1>6, <1>7, <1>8, <1>9, <1>10, <1>11,
     <1>12, <1>13, <1>14, <1>15, <1>16, <1>17, <1>18, <1>19, <1>20, <1>21,
     <1>22, <1>23, <1>24, <1>25, <1>26, <1>27, <1>28, <1>29
  DEF Next, MainStep, WorkerStep

-----------------------------------------------------------------------------
(* Persistent approvals: only what a user chose, and on disk first. *)

(* Steps that leave the keys, the file and the request loop alone. *)
grantVars == <<sessionKeys, workspaceKeys, file, mainPc, handling, chosen>>

(* Steps that touch neither the grants nor the answer being handled.       *)
LEMMA GrantFrame ==
  ASSUME GrantInv, UNCHANGED grantVars
  PROVE  GrantInv'
BY DEF grantVars, GrantInv, HandlingInv, Answering, KeysInv, GrantsAreOnDisk,
       Persists

(* Every step keeps what is known of the grants and of their file.         *)
LEMMA GrantStep ==
  ASSUME TypeOK, GrantInv, [Next]_vars
  PROVE  GrantInv'
<1> USE DEF queueVars, mainVars, workerVars, historyVars
<1>a. HandlingInv /\ KeysInv /\ GrantsAreOnDisk
  BY DEF GrantInv
<1>1. CASE Initialize
  BY <1>1, <1>a DEF Initialize, GrantInv, HandlingInv, Answering, KeysInv,
     GrantsAreOnDisk, Persists
<1>2. ASSUME NEW about \in announced, NEW answer \in Answer,
             BeginAnswer(about, answer)
      PROVE  GrantInv'
  <2>1. PICK e \in pending :
          /\ Acceptable(e.asked.request, answer)
          /\ chosen' = IF Persists(answer)
                       THEN chosen \cup {KeyOf[e.asked.request]} ELSE chosen
          /\ handling' = [about |-> about, request |-> e.asked.request,
                          answer |-> answer]
    BY <1>2 DEF BeginAnswer
  <2>2. e.asked.request \in Requests
    BY DEF TypeOK, Entry, Question
  <2>3. handling' \in Handling
    BY <2>1, <2>2 DEF TypeOK, Handling
  <2>4. Persists(answer) => e.asked.request \in Persistable
    BY <2>1 DEF Acceptable, Persists
  <2>5. HandlingInv'
    BY <1>2, <2>1, <2>3, <2>4 DEF BeginAnswer, HandlingInv, Answering, Persists
  <2>6. KeysInv' /\ GrantsAreOnDisk'
    BY <1>2, <2>1, <1>a DEF BeginAnswer, KeysInv, GrantsAreOnDisk
  <2>7. QED
    BY <2>5, <2>6 DEF GrantInv
<1>3. CASE TruncateFile
  BY <1>3, <1>a DEF TruncateFile, GrantInv, HandlingInv, Answering, KeysInv,
     GrantsAreOnDisk, Persists
<1>4. CASE WriteFile
  BY <1>4, <1>a DEF WriteFile, GrantInv, HandlingInv, Answering, KeysInv,
     GrantsAreOnDisk, Persists
<1>5. CASE WriteFails
  BY <1>5, <1>a DEF WriteFails, GrantInv, HandlingInv, Answering, KeysInv,
     GrantsAreOnDisk, Persists
<1>6. CASE Commit
  BY <1>6, <1>a DEF Commit, GrantInv, HandlingInv, Answering, KeysInv,
     GrantsAreOnDisk, Persists
<1>7. CASE CommitTooLate \/ CommitGone
  BY <1>7, <1>a DEF CommitTooLate, CommitGone, GrantInv, HandlingInv,
     Answering, KeysInv, GrantsAreOnDisk, Persists
<1>8. CASE Remember
  BY <1>8, <1>a DEF Remember, GrantInv, HandlingInv, Answering, KeysInv,
     GrantsAreOnDisk, Persists
<1>9. CASE CancelToken \/ CancelPending
  BY <1>9, <1>a DEF CancelToken, CancelPending, GrantInv, HandlingInv,
     Answering, KeysInv, GrantsAreOnDisk, Persists
<1>10. CASE Restart
  BY <1>10, <1>a DEF Restart, GrantInv, HandlingInv, Answering, KeysInv,
     GrantsAreOnDisk, Persists
<1>11. CASE WorkerStep \/ WakeSpuriously \/ Tick \/ ReportWorkerError
            \/ (\E r \in Runs : StartTurn(r)) \/ UNCHANGED vars
  <2>1. UNCHANGED grantVars
    BY <1>11 DEF WorkerStep, WakeSpuriously, Tick, ReportWorkerError,
       StartTurn, vars, CheckToken, Proceed, Finish, Announce,
       AnnounceConflicts, RecheckToken, TakeDecision, TakePersistent,
       TakeExpired, Take, Park, WakeAtDeadline, StartTool, FinishTool,
       grantVars
  <2>2. QED
    BY <2>1, GrantFrame
<1>12. QED
  BY <1>1, <1>2, <1>3, <1>4, <1>5, <1>6, <1>7, <1>8, <1>9, <1>10, <1>11
  DEF Next, MainStep

-----------------------------------------------------------------------------
(* The map: whose entries it holds and who waits for them. *)

AskedOf(entries) == {e.asked : e \in entries}

(* A step that decides or ages entries, and may wake the worker, but adds  *)
(* and removes none.                                                       *)
LEMMA RelabelStep ==
  ASSUME QueueInv,
         UniqueIds',
         AskedOf(pending') = AskedOf(pending),
         workerPc' = Notified,
         UNCHANGED <<turn, question, announced, resolved>>,
         \A a \in accepted' : a.asked \in announced
  PROVE  QueueInv'
<1>1. \A e \in pending : \E f \in pending' : f.asked = e.asked
  BY DEF AskedOf
<1>2. \A f \in pending' : \E e \in pending : e.asked = f.asked
  BY DEF AskedOf
<1>3. workerPc' \in Waiting <=> workerPc \in Waiting
  BY DEF Notified, Waiting
<1>4. AskedInv'
  BY <1>2 DEF QueueInv, AskedInv
<1>5. WorkerInv'
  BY DEF QueueInv, WorkerInv, Notified, Waiting
<1>6. ResolvedIsGone'
  BY <1>2 DEF QueueInv, ResolvedIsGone
<1>7. WaiterHasEntry'
  BY <1>1, <1>3 DEF QueueInv, WaiterHasEntry
<1>8. OnlyBudgetLingers'
  BY <1>2, <1>3 DEF QueueInv, OnlyBudgetLingers
<1>9. ToolVerdictIsFresh'
  BY DEF QueueInv, ToolVerdictIsFresh
<1>10. QED
  BY <1>4, <1>5, <1>6, <1>7, <1>8, <1>9 DEF QueueInv

(* An entry replaced by one of the same question: the same questions are   *)
(* in the map.                                                             *)
LEMMA ReplaceKeepsQueue ==
  ASSUME QueueInv,
         NEW e \in pending, NEW f, f.asked = e.asked,
         pending' = Replace(e, f)
  PROVE  UniqueIds' /\ AskedOf(pending') = AskedOf(pending)
BY DEF QueueInv, UniqueIds, IdOfEntry, Replace, AskedOf

(* Steps of a worker that waits for nothing and asks nothing.              *)
LEMMA WorkerFrame ==
  ASSUME QueueInv,
         workerPc' \notin Waiting \cup {"approved", "executing"},
         workerPc \notin Waiting,
         UNCHANGED <<pending, turn, question, announced, resolved, accepted>>
  PROVE  QueueInv'
BY DEF QueueInv, UniqueIds, AskedInv, WorkerInv, ResolvedIsGone,
   WaiterHasEntry, OnlyBudgetLingers, ToolVerdictIsFresh, Waiting, IdOfEntry

(* The worker leaves wait_for_decision with a verdict. *)
LEMMA TakeKeepsQueue ==
  ASSUME TypeOK, QueueInv, workerPc = "deciding",
         NEW e \in pending, Own(e), NEW d \in Verdict, Take(e, d)
  PROVE  QueueInv'
<1> USE DEF QueueInv
<1>1. UniqueIds'
  BY DEF UniqueIds, IdOfEntry, Take
<1>2. AskedInv'
  BY DEF AskedInv, Take
<1>3. e.asked.request = question.request
  BY DEF WaiterHasEntry, Waiting, Own, UniqueIds, IdOfEntry
<1>4. WorkerInv'
  BY DEF WorkerInv, Take, AfterVerdict, Waiting
<1>5. ResolvedIsGone'
  <2>1. \A f \in pending \ {e} : f.asked # e.asked
    BY DEF UniqueIds, IdOfEntry
  <2>2. QED
    BY <2>1 DEF ResolvedIsGone, Take
<1>6. workerPc' \notin Waiting
  BY DEF Take, AfterVerdict, Waiting
<1>7. WaiterHasEntry'
  BY <1>6 DEF WaiterHasEntry
<1>8. OnlyBudgetLingers'
  <2>1. \A f \in pending \ {e} : f.asked # question
    BY <1>3 DEF UniqueIds, IdOfEntry
  <2>2. QED
    BY <2>1 DEF OnlyBudgetLingers, Take
<1>9. ToolVerdictIsFresh'
  <2>1. e.asked.request \notin Budget => e.asked = question
    BY DEF OnlyBudgetLingers
  <2>2. question.turn = turn
    BY DEF WorkerInv, Waiting
  <2>3. QED
    BY <2>1, <2>2 DEF ToolVerdictIsFresh, Take
<1>10. QED
  BY <1>1, <1>2, <1>4, <1>5, <1>7, <1>8, <1>9

(* A new question: its id is free in the turn, and its entry is not yet    *)
(* resolved.                                                               *)
LEMMA AnnounceKeepsQueue ==
  ASSUME TypeOK, QueueInv, NEW r \in Requests, Announce(r)
  PROVE  QueueInv'
<1> DEFINE q == [turn |-> turn, request |-> r]
           new == [run |-> run, asked |-> q, decision |-> "none",
                   late |-> FALSE]
<1> USE DEF QueueInv
<1>1. /\ question' = q
      /\ announced' = announced \cup {q}
      /\ workerPc = "cleared"
      /\ workerPc' = IF r \in Budget THEN "announced" ELSE "deciding"
      /\ UNCHANGED <<turn, accepted, resolved>>
  BY DEF Announce, mainVars
<1>2. q \notin announced
  BY DEF Announce, IdUnusedInTurn
<1>3. \/ (\A e \in pending : IdOfEntry(e) # IdOf[r])
         /\ pending' = pending \cup {new}
      \/ (\E e \in pending : e.asked.request = r)
         /\ pending' = pending
  BY DEF Announce
<1>4. q.turn = turn /\ q.request = r /\ new.asked = q
  OBVIOUS
<1>5. UniqueIds'
  <2> HIDE DEF new, q
  <2>1. CASE pending' = pending
    BY <2>1 DEF UniqueIds, IdOfEntry
  <2>2. CASE /\ \A e \in pending : IdOfEntry(e) # IdOf[r]
             /\ pending' = pending \cup {new}
    BY <2>2, <1>4 DEF UniqueIds, IdOfEntry
  <2>3. QED
    BY <2>1, <2>2, <1>3
<1>6. AskedInv'
  <2>1. \A p \in announced' : p.turn <= turn'
    BY <1>1, <1>4 DEF AskedInv, TypeOK
  <2>2. QED
    BY <2>1, <1>1, <1>3, <1>4 DEF AskedInv
<1>7. WorkerInv'
  BY <1>1, <1>4 DEF WorkerInv, Waiting
<1>8. ResolvedIsGone'
  <2>1. \A v \in resolved : v.asked # q
    BY <1>2 DEF AskedInv
  <2>2. QED
    BY <2>1, <1>1, <1>3, <1>4 DEF ResolvedIsGone
<1>9. WaiterHasEntry'
  BY <1>1, <1>3, <1>4 DEF WaiterHasEntry
<1>10. OnlyBudgetLingers'
  <2>1. \A e \in pending : e.asked.request \in Budget
    BY <1>1 DEF OnlyBudgetLingers, Waiting
  <2>2. r \notin Budget => workerPc' \in Waiting /\ question' = q
    BY <1>1 DEF Waiting
  <2>3. QED
    BY <2>1, <2>2, <1>3, <1>4 DEF OnlyBudgetLingers
<1>11. ToolVerdictIsFresh'
  BY <1>1 DEF ToolVerdictIsFresh
<1>12. QED
  BY <1>5, <1>6, <1>7, <1>8, <1>9, <1>10, <1>11

(* Every step keeps what is known of the map and of its questions.         *)
LEMMA QueueStep ==
  ASSUME TypeOK, QueueInv, [Next]_vars
  PROVE  QueueInv'
<1> USE DEF queueVars, mainVars, workerVars, historyVars
<1> DEFINE others == <<turn, question, announced, resolved>>
<1>1. CASE Commit
  <2>1. PICK e \in pending :
          /\ pending' = Replace(e, [e EXCEPT !.decision = handling.answer.kind])
          /\ accepted' = accepted \cup
               {[asked |-> e.asked, about |-> handling.about,
                 kind |-> handling.answer.kind]}
    BY <1>1 DEF Commit
  <2>2. [e EXCEPT !.decision = handling.answer.kind].asked = e.asked
    BY DEF TypeOK, Entry
  <2>3. UniqueIds' /\ AskedOf(pending') = AskedOf(pending)
    BY <2>1, <2>2, ReplaceKeepsQueue
  <2>4. workerPc' = Notified /\ UNCHANGED others
    BY <1>1 DEF Commit
  <2>5. \A a \in accepted' : a.asked \in announced
    BY <2>1 DEF QueueInv, AskedInv
  <2>6. QED
    BY <2>3, <2>4, <2>5, RelabelStep
<1>2. CASE CommitTooLate
  <2>1. PICK e \in pending :
          pending' = Replace(e, [e EXCEPT !.decision = "expired"])
    BY <1>2 DEF CommitTooLate
  <2>2. [e EXCEPT !.decision = "expired"].asked = e.asked
    BY DEF TypeOK, Entry
  <2>3. UniqueIds' /\ AskedOf(pending') = AskedOf(pending)
    BY <2>1, <2>2, ReplaceKeepsQueue
  <2>4. workerPc' = Notified /\ UNCHANGED others
    BY <1>2 DEF CommitTooLate
  <2>5. \A a \in accepted' : a.asked \in announced
    BY <1>2 DEF CommitTooLate, QueueInv, AskedInv
  <2>6. QED
    BY <2>3, <2>4, <2>5, RelabelStep
<1>3. CASE Tick
  <2>1. PICK e \in pending :
          pending' = Replace(e, [e EXCEPT !.late = TRUE])
    BY <1>3 DEF Tick
  <2>2. [e EXCEPT !.late = TRUE].asked = e.asked
    BY DEF TypeOK, Entry
  <2>3. UniqueIds' /\ AskedOf(pending') = AskedOf(pending)
    BY <2>1, <2>2, ReplaceKeepsQueue
  <2>4. UNCHANGED <<others, workerPc, accepted>>
    BY <1>3 DEF Tick
  <2>5. \A f \in pending' : \E e1 \in pending : e1.asked = f.asked
    BY <2>3 DEF AskedOf
  <2>6. \A e1 \in pending : \E f \in pending' : f.asked = e1.asked
    <3>1. \A e1 \in pending : e1.asked \in AskedOf(pending')
      BY <2>3 DEF AskedOf
    <3>2. QED
      BY <3>1 DEF AskedOf
  <2>7. QED
    BY <2>3, <2>4, <2>5, <2>6 DEF QueueInv, AskedInv, WorkerInv,
       ResolvedIsGone, WaiterHasEntry, OnlyBudgetLingers, ToolVerdictIsFresh
<1>4. CASE CancelPending
  <2> DEFINE g(e) == IF e.run = run /\ Undecided(e)
                     THEN [e EXCEPT !.decision = "canceled"] ELSE e
  <2>1. pending' = {g(e) : e \in pending}
    BY <1>4 DEF CancelPending
  <2>2. \A e \in pending : g(e).asked = e.asked
    BY DEF TypeOK, Entry
  <2>3. UniqueIds' /\ AskedOf(pending') = AskedOf(pending)
    <3> HIDE DEF g
    <3>1. UniqueIds'
      BY <2>1, <2>2 DEF QueueInv, UniqueIds, IdOfEntry
    <3>2. AskedOf(pending') = AskedOf(pending)
      BY <2>1, <2>2 DEF AskedOf
    <3>3. QED
      BY <3>1, <3>2
  <2>4. workerPc' = Notified /\ UNCHANGED others
    BY <1>4 DEF CancelPending
  <2>5. \A a \in accepted' : a.asked \in announced
    BY <1>4 DEF CancelPending, QueueInv, AskedInv
  <2>6. QED
    BY <2>3, <2>4, <2>5, RelabelStep
<1>5. CASE TakeDecision
  <2>1. PICK e \in pending : Own(e) /\ ~Undecided(e) /\ Take(e, e.decision)
    BY <1>5 DEF TakeDecision
  <2>2. e.decision \in Verdict
    BY <2>1 DEF TypeOK, Entry, Undecided
  <2>3. QED
    BY <1>5, <2>1, <2>2, TakeKeepsQueue DEF TakeDecision
<1>6. CASE TakePersistent \/ TakeExpired
  <2>1. PICK e \in pending : Own(e) /\ (Take(e, "approved") \/ Take(e, "expired"))
    BY <1>6 DEF TakePersistent, TakeExpired
  <2>2. "approved" \in Verdict /\ "expired" \in Verdict
    BY DEF Verdict
  <2>3. workerPc = "deciding"
    BY <1>6 DEF TakePersistent, TakeExpired
  <2>4. QED
    BY <2>1, <2>2, <2>3, TakeKeepsQueue
<1>7. ASSUME NEW r \in Requests, Announce(r)
      PROVE  QueueInv'
  BY <1>7, AnnounceKeepsQueue
<1>8. ASSUME NEW r \in Runs, StartTurn(r)
      PROVE  QueueInv'
  <2>1. turn \in Nat /\ turn' = turn + 1
    BY <1>8 DEF StartTurn, TypeOK
  <2>2. announced \subseteq Question /\ (\A q \in announced : q.turn \in Nat)
    BY DEF TypeOK, Question
  <2>3. AskedInv'
    BY <1>8, <2>1, <2>2 DEF StartTurn, QueueInv, AskedInv
  <2>4. QED
    BY <1>8, <2>3 DEF StartTurn, QueueInv, UniqueIds, IdOfEntry, WorkerInv,
       ResolvedIsGone, WaiterHasEntry, OnlyBudgetLingers, ToolVerdictIsFresh,
       Waiting
<1>9. CASE RecheckToken
  <2>1. workerPc = "announced" /\ question.request \in Budget
    BY <1>9 DEF RecheckToken, QueueInv, WorkerInv
  <2>2. \A e \in pending : e.asked.request \in Budget
    BY <2>1 DEF QueueInv, OnlyBudgetLingers
  <2>3. QED
    BY <1>9, <2>1, <2>2 DEF RecheckToken, QueueInv, UniqueIds, IdOfEntry,
       AskedInv, WorkerInv, ResolvedIsGone, WaiterHasEntry,
       OnlyBudgetLingers, ToolVerdictIsFresh, Waiting
<1>10. CASE Park \/ WakeAtDeadline \/ WakeSpuriously \/ StartTool
  BY <1>10 DEF Park, WakeAtDeadline, WakeSpuriously, StartTool, QueueInv,
     UniqueIds, IdOfEntry, AskedInv, WorkerInv, ResolvedIsGone,
     WaiterHasEntry, OnlyBudgetLingers, ToolVerdictIsFresh, Waiting
<1>11. CASE \/ CheckToken \/ Proceed \/ Finish \/ ReportWorkerError
            \/ \E r \in Requests : AnnounceConflicts(r)
            \/ \E ok \in BOOLEAN : FinishTool(ok)
  <2>1. /\ workerPc' \notin Waiting \cup {"approved", "executing"}
        /\ workerPc \notin Waiting
        /\ UNCHANGED <<pending, turn, question, announced, resolved, accepted>>
    BY <1>11 DEF CheckToken, Proceed, Finish, ReportWorkerError,
       AnnounceConflicts, FinishTool, Waiting
  <2>2. QED
    BY <2>1, WorkerFrame
<1>12. CASE \/ Initialize \/ TruncateFile \/ WriteFile \/ WriteFails
            \/ CommitGone \/ Remember \/ CancelToken \/ UNCHANGED vars
            \/ \E about \in announced, answer \in Answer :
                  BeginAnswer(about, answer)
  <2>1. UNCHANGED <<pending, workerPc, turn, question, announced, resolved,
                    accepted>>
    BY <1>12 DEF Initialize, TruncateFile, WriteFile, WriteFails, CommitGone,
       Remember, CancelToken, BeginAnswer, vars
  <2>2. QED
    BY <2>1 DEF QueueInv, UniqueIds, IdOfEntry, AskedInv, WorkerInv,
       ResolvedIsGone, WaiterHasEntry, OnlyBudgetLingers, ToolVerdictIsFresh
<1>13. CASE Restart
  BY <1>13 DEF Restart, QueueInv, UniqueIds, AskedInv, WorkerInv,
     ResolvedIsGone, WaiterHasEntry, OnlyBudgetLingers, ToolVerdictIsFresh,
     Waiting
<1>14. QED
  BY <1>1, <1>2, <1>3, <1>4, <1>5, <1>6, <1>7, <1>8, <1>9, <1>10, <1>11,
     <1>12, <1>13
  DEF Next, MainStep, WorkerStep

-----------------------------------------------------------------------------
(* Answers: what the client was told is what the worker gets.              *)

(* An undecided entry's question has no accepted answer yet: an answer is  *)
(* accepted by deciding the one entry of its question.                     *)
LEMMA UndecidedIsUnanswered ==
  ASSUME TypeOK, QueueInv, AnswerInv,
         NEW e \in pending, Undecided(e), NEW a \in accepted
  PROVE  a.asked # e.asked
<1> SUFFICES ASSUME a.asked = e.asked
             PROVE  FALSE
  OBVIOUS
<1>1. a.kind \in Verdict /\ "none" \notin Verdict
  BY DEF TypeOK, Verdict
<1>2. CASE \E f \in pending : f.asked = a.asked /\ f.decision = a.kind
  BY <1>1, <1>2 DEF QueueInv, UniqueIds, IdOfEntry, Undecided
<1>3. CASE \E r \in resolved : r.asked = a.asked
  BY <1>3 DEF QueueInv, ResolvedIsGone
<1>4. QED
  BY <1>2, <1>3 DEF AnswerInv, AcceptedAnswerIsDelivered

(* Steps that touch no entry and no verdict. *)
LEMMA AnswerFrame ==
  ASSUME AnswerInv, UNCHANGED <<pending, accepted, resolved>>,
         chosen \subseteq chosen'
  PROVE  AnswerInv'
BY DEF AnswerInv, DecisionInv, AcceptedAnswerIsDelivered, ApprovalIsAuthorised

(* Steps that rewrite undecided entries and decide none of them favourably. *)
LEMMA WithholdStep ==
  ASSUME TypeOK, QueueInv, AnswerInv,
         UNCHANGED <<accepted, resolved, chosen>>,
         \A e \in pending : ~Undecided(e) => e \in pending',
         \A f \in pending' :
           f \in pending \/ f.decision \notin {"approved", "approvedHunks"}
  PROVE  AnswerInv'
<1>1. DecisionInv'
  BY DEF AnswerInv, DecisionInv
<1>2. AcceptedAnswerIsDelivered'
  <2>1. \A a \in accepted : a.kind # "none"
    BY DEF TypeOK, Verdict
  <2>2. QED
    BY <2>1 DEF AnswerInv, AcceptedAnswerIsDelivered, Undecided
<1>3. ApprovalIsAuthorised'
  BY DEF AnswerInv, ApprovalIsAuthorised
<1>4. QED
  BY <1>1, <1>2, <1>3 DEF AnswerInv

(* The worker takes a verdict: the decision of the entry, or one of its    *)
(* own for an entry nobody decided.                                        *)
LEMMA TakeKeepsAnswers ==
  ASSUME TypeOK, QueueInv, AnswerInv,
         NEW e \in pending, NEW d \in Verdict, Take(e, d),
         d = e.decision \/ Undecided(e),
         d \in {"approved", "approvedHunks"} =>
           \/ d = e.decision
           \/ /\ e.asked.request \in Persistable
              /\ KeyOf[e.asked.request] \in chosen
  PROVE  AnswerInv'
<1> DEFINE new == [asked |-> e.asked, by |-> turn, kind |-> d]
<1>1. /\ pending' = pending \ {e}
      /\ resolved' = resolved \cup {new}
      /\ UNCHANGED <<accepted, chosen>>
  BY DEF Take
<1>2. new.asked = e.asked /\ new.kind = d
  OBVIOUS
<1>3. \A a \in accepted : a.asked = e.asked => a.kind = d
  <2> SUFFICES ASSUME NEW a \in accepted, a.asked = e.asked
               PROVE  a.kind = d
    OBVIOUS
  <2>1. ~Undecided(e) /\ d = e.decision
    BY UndecidedIsUnanswered
  <2>2. \A r \in resolved : r.asked # a.asked
    BY DEF QueueInv, ResolvedIsGone
  <2>3. PICK f \in pending : f.asked = a.asked /\ f.decision = a.kind
    BY <2>2 DEF AnswerInv, AcceptedAnswerIsDelivered
  <2>4. f = e
    BY <2>3 DEF QueueInv, UniqueIds, IdOfEntry
  <2>5. QED
    BY <2>1, <2>3, <2>4
<1>4. DecisionInv'
  BY <1>1 DEF AnswerInv, DecisionInv
<1> HIDE DEF new
<1>5. AcceptedAnswerIsDelivered'
  <2> SUFFICES ASSUME NEW a \in accepted
               PROVE  /\ \/ \E f \in pending' : f.asked = a.asked
                                               /\ f.decision = a.kind
                         \/ \E r \in resolved' : r.asked = a.asked
                      /\ \A r \in resolved' : r.asked = a.asked => r.kind = a.kind
    BY <1>1 DEF AcceptedAnswerIsDelivered
  <2>1. \A r \in resolved' : r.asked = a.asked => r.kind = a.kind
    BY <1>1, <1>2, <1>3 DEF AnswerInv, AcceptedAnswerIsDelivered
  <2>2. CASE a.asked = e.asked
    BY <2>1, <2>2, <1>1, <1>2
  <2>3. CASE a.asked # e.asked
    BY <2>1, <2>3, <1>1 DEF AnswerInv, AcceptedAnswerIsDelivered
  <2>4. QED
    BY <2>2, <2>3
<1>6. ApprovalIsAuthorised'
  <2>1. d \in {"approved", "approvedHunks"} =>
          \/ \E a \in accepted : a.asked = e.asked /\ a.kind = d
          \/ /\ e.asked.request \in Persistable
             /\ KeyOf[e.asked.request] \in chosen
    BY DEF AnswerInv, DecisionInv
  <2>2. QED
    BY <1>1, <1>2, <2>1 DEF AnswerInv, ApprovalIsAuthorised
<1>7. QED
  BY <1>4, <1>5, <1>6 DEF AnswerInv

(* The request loop decides an undecided entry and tells the client. *)
LEMMA CommitKeepsAnswers ==
  ASSUME TypeOK, QueueInv, HandlingInv, AnswerInv, Commit
  PROVE  AnswerInv'
<1>1. handling.answer.kind \in Verdict
  BY AnswerType DEF Commit, HandlingInv, Answering, Handling
<1> DEFINE k == handling.answer.kind
<1>2. PICK e \in pending :
        /\ Undecided(e)
        /\ pending' = Replace(e, [e EXCEPT !.decision = k])
        /\ accepted' = accepted \cup {[asked |-> e.asked,
                          about |-> handling.about, kind |-> k]}
  BY DEF Commit
<1> DEFINE f   == [e EXCEPT !.decision = k]
           new == [asked |-> e.asked, about |-> handling.about, kind |-> k]
<1>3. f.asked = e.asked /\ f.decision = k
  BY DEF TypeOK, Entry
<1>4. new.asked = e.asked /\ new.kind = k
  OBVIOUS
<1>5. pending' = (pending \ {e}) \cup {f} /\ accepted' = accepted \cup {new}
      /\ UNCHANGED <<resolved, chosen>>
  BY <1>2 DEF Replace, Commit
<1> HIDE DEF f, new, k
<1>6. \A a \in accepted : a.asked # e.asked
  BY <1>2, UndecidedIsUnanswered
<1>7. DecisionInv'
  BY <1>3, <1>4, <1>5 DEF AnswerInv, DecisionInv
<1>8. AcceptedAnswerIsDelivered'
  <2>1. \A r \in resolved : r.asked # e.asked
    BY DEF QueueInv, ResolvedIsGone
  <2>2. QED
    BY <1>3, <1>4, <1>5, <1>6, <2>1 DEF AnswerInv, AcceptedAnswerIsDelivered
<1>9. ApprovalIsAuthorised'
  BY <1>5 DEF AnswerInv, ApprovalIsAuthorised
<1>10. QED
  BY <1>7, <1>8, <1>9 DEF AnswerInv

(* Every step keeps what is known of the answers and verdicts.             *)
LEMMA AnswerStep ==
  ASSUME TypeOK, QueueInv, GrantInv, AnswerInv, [Next]_vars
  PROVE  AnswerInv'
<1> USE DEF queueVars, mainVars, workerVars, historyVars
<1>1. CASE Commit
  BY <1>1, CommitKeepsAnswers DEF GrantInv
<1>2. CASE CommitTooLate
  <2>1. PICK e \in pending :
          Undecided(e) /\ pending' = Replace(e, [e EXCEPT !.decision = "expired"])
    BY <1>2 DEF CommitTooLate
  <2>2. "expired" \in Verdict
    BY DEF Verdict
  <2>3. [e EXCEPT !.decision = "expired"].decision = "expired"
    BY <2>2, DecideType DEF TypeOK
  <2>4. UNCHANGED <<accepted, resolved, chosen>>
    BY <1>2 DEF CommitTooLate
  <2>5. QED
    BY <2>1, <2>3, <2>4, WithholdStep DEF Replace
<1>3. CASE CancelPending
  <2>1. UNCHANGED <<accepted, resolved, chosen>>
    BY <1>3 DEF CancelPending
  <2>2. \A e \in pending : ~Undecided(e) => e \in pending'
    BY <1>3 DEF CancelPending
  <2>3. "canceled" \in Verdict
    BY DEF Verdict
  <2>4. \A e \in pending : [e EXCEPT !.decision = "canceled"].decision = "canceled"
    BY <2>3, DecideType DEF TypeOK
  <2>5. \A f \in pending' :
          f \in pending \/ f.decision \notin {"approved", "approvedHunks"}
    BY <1>3, <2>4 DEF CancelPending
  <2>6. QED
    BY <2>1, <2>2, <2>5, WithholdStep
<1>4. CASE Tick
  <2>1. PICK e \in pending :
          Undecided(e) /\ pending' = Replace(e, [e EXCEPT !.late = TRUE])
    BY <1>4 DEF Tick
  <2>2. [e EXCEPT !.late = TRUE].decision = "none"
    BY <2>1, LateType DEF TypeOK, Undecided
  <2>3. UNCHANGED <<accepted, resolved, chosen>>
    BY <1>4 DEF Tick
  <2>4. QED
    BY <2>1, <2>2, <2>3, WithholdStep DEF Replace
<1>5. CASE TakeDecision
  <2>1. PICK e \in pending : ~Undecided(e) /\ Take(e, e.decision)
    BY <1>5 DEF TakeDecision
  <2>2. e.decision \in Verdict
    BY <2>1 DEF TypeOK, Entry, Undecided
  <2>3. QED
    BY <2>1, <2>2, TakeKeepsAnswers
<1>6. CASE TakePersistent
  <2>1. PICK e \in pending : /\ Undecided(e)
                             /\ PersistentlyApproved(e.asked.request)
                             /\ Take(e, "approved")
    BY <1>6 DEF TakePersistent
  <2>2. KeyOf[e.asked.request] \in chosen /\ e.asked.request \in Persistable
    BY <2>1 DEF PersistentlyApproved, GrantInv, KeysInv
  <2>3. "approved" \in Verdict
    BY DEF Verdict
  <2>4. QED
    BY <2>1, <2>2, <2>3, TakeKeepsAnswers
<1>7. CASE TakeExpired
  <2>1. PICK e \in pending : Undecided(e) /\ Take(e, "expired")
    BY <1>7 DEF TakeExpired
  <2>2. "expired" \in Verdict
    BY DEF Verdict
  <2>3. QED
    BY <2>1, <2>2, TakeKeepsAnswers
<1>8. ASSUME NEW r \in Requests, Announce(r)
      PROVE  AnswerInv'
  <2>1. UNCHANGED <<accepted, resolved, chosen>>
    BY <1>8 DEF Announce
  <2>2. /\ pending \subseteq pending'
        /\ \A f \in pending' : f \in pending \/ f.decision = "none"
    BY <1>8 DEF Announce
  <2>3. QED
    BY <2>1, <2>2, WithholdStep
<1>9. CASE \/ Initialize \/ TruncateFile \/ WriteFile \/ WriteFails
           \/ CommitGone \/ Remember \/ CancelToken \/ UNCHANGED vars
           \/ ReportWorkerError \/ \E r \in Runs : StartTurn(r)
           \/ \E about \in announced, answer \in Answer :
                 BeginAnswer(about, answer)
           \/ CheckToken \/ Proceed \/ Finish \/ RecheckToken \/ Park
           \/ \E r \in Requests : AnnounceConflicts(r)
           \/ WakeAtDeadline \/ WakeSpuriously \/ StartTool
           \/ \E ok \in BOOLEAN : FinishTool(ok)
  <2>1. UNCHANGED <<pending, accepted, resolved>> /\ chosen \subseteq chosen'
    BY <1>9 DEF Initialize, TruncateFile, WriteFile, WriteFails, CommitGone,
       Remember, CancelToken, BeginAnswer, vars, ReportWorkerError, StartTurn,
       CheckToken, Proceed, Finish, RecheckToken, Park, AnnounceConflicts,
       WakeAtDeadline, WakeSpuriously, StartTool, FinishTool
  <2>2. QED
    BY <2>1, AnswerFrame
<1>10. CASE Restart
  BY <1>10 DEF Restart, AnswerInv, DecisionInv, AcceptedAnswerIsDelivered,
     ApprovalIsAuthorised
<1>11. QED
  BY <1>1, <1>2, <1>3, <1>4, <1>5, <1>6, <1>7, <1>8, <1>9, <1>10
  DEF Next, MainStep, WorkerStep

-----------------------------------------------------------------------------
(* Theorems. *)

(* The server starts with an empty queue.                                  *)
LEMMA InitIInv == Init => IInv
<1> SUFFICES ASSUME Init
             PROVE  IInv
  OBVIOUS
<1>1. TypeOK
  BY QueueAssumption DEF Init, TypeOK, MainPc, WorkerPc
<1>2. QueueInv
  BY DEF Init, QueueInv, UniqueIds, AskedInv, WorkerInv, ResolvedIsGone,
     WaiterHasEntry, OnlyBudgetLingers, ToolVerdictIsFresh, Waiting
<1>3. AnswerInv
  BY DEF Init, AnswerInv, DecisionInv, AcceptedAnswerIsDelivered,
     ApprovalIsAuthorised
<1>4. GrantInv
  BY DEF Init, GrantInv, HandlingInv, Answering, KeysInv, GrantsAreOnDisk
<1>5. QED
  BY <1>1, <1>2, <1>3, <1>4 DEF IInv

(* The inductive invariant holds in every reachable state. *)
THEOREM Invariance == Spec => []IInv
<1>1. IInv /\ [Next]_vars => IInv'
  BY TypeStep, QueueStep, AnswerStep, GrantStep DEF IInv, QueueInv, GrantInv
<1>2. QED
  BY <1>1, InitIInv, PTL DEF Spec

(* Every variable stays in its type; in particular the approvals file is   *)
(* only ever a set of persistence keys or torn.                            *)
THEOREM TypeCorrect == Spec => []TypeOK
<1>1. IInv => TypeOK
  BY DEF IInv
<1>2. QED
  BY <1>1, Invariance, PTL

(* wait_for_decision always finds the entry of its question. *)
THEOREM WaiterIsRegistered == Spec => []WaiterHasEntry
<1>1. IInv => WaiterHasEntry
  BY DEF IInv, QueueInv
<1>2. QED
  BY <1>1, Invariance, PTL

(* An answer reported as accepted is the answer the worker gets. *)
THEOREM AcceptedAnswersCount == Spec => []AcceptedAnswerIsDelivered
<1>1. IInv => AcceptedAnswerIsDelivered
  BY DEF IInv, AnswerInv
<1>2. QED
  BY <1>1, Invariance, PTL

(* Nothing is approved that no user approved. *)
THEOREM ApprovalsAreAuthorised == Spec => []ApprovalIsAuthorised
<1>1. IInv => ApprovalIsAuthorised
  BY DEF IInv, AnswerInv
<1>2. QED
  BY <1>1, Invariance, PTL

(* A tool never runs on a verdict of an earlier turn. *)
THEOREM ToolVerdictsAreFresh == Spec => []ToolVerdictIsFresh
<1>1. IInv => ToolVerdictIsFresh
  BY DEF IInv, QueueInv
<1>2. QED
  BY <1>1, Invariance, PTL

(* What the process grants for the workspace a restart will find on disk.  *)
THEOREM WorkspaceGrantsAreDurable == Spec => []GrantsAreOnDisk
<1>1. IInv => GrantsAreOnDisk
  BY DEF IInv, GrantInv
<1>2. QED
  BY <1>1, Invariance, PTL
-----------------------------------------------------------------------------
(* At most one member of S is about a question. *)
OncePerQuestion(S) == \A a, b \in S : a.asked = b.asked => a = b

Approval(kind) == kind \in {"approved", "approvedHunks"}

(* A question is resolved once and executed once, after its approval. *)
LifeInv ==
  /\ OncePerQuestion(resolved) /\ OncePerQuestion(executed)
  /\ \A x \in executed : \E r \in resolved : r.asked = x.asked
  /\ workerPc \in {"approved", "executing"} =>
       /\ \E r \in resolved : r.asked = question /\ Approval(r.kind)
       /\ \A x \in executed : x.asked # question

(* Steps that resolve and execute nothing. *)
LEMMA LifeInvFrame ==
  ASSUME LifeInv, UNCHANGED <<resolved, executed>>,
         workerPc' \in {"approved", "executing"} =>
           workerPc \in {"approved", "executing"} /\ question' = question
  PROVE  LifeInv'
BY DEF LifeInv, OncePerQuestion

(* The question that a worker takes a verdict of. *)
LEMMA TakesItsOwn ==
  ASSUME TypeOK, QueueInv, workerPc = "deciding", NEW e \in pending, Own(e)
  PROVE  /\ e.asked.request = question.request
         /\ e.asked.request \notin Budget => e.asked = question
         /\ e.asked \in announced
         /\ \A r \in resolved : r.asked # e.asked
<1>1. e.asked.request = question.request
  BY DEF QueueInv, WaiterHasEntry, Waiting, Own, UniqueIds, IdOfEntry
<1>2. e.asked.request \notin Budget => e.asked = question
  BY DEF QueueInv, OnlyBudgetLingers
<1>3. e.asked \in announced /\ \A r \in resolved : r.asked # e.asked
  BY DEF QueueInv, AskedInv, ResolvedIsGone
<1> QED BY <1>1, <1>2, <1>3

(* Taking a verdict: the entry it resolves had none before, so it is the   *)
(* first of its question.                                                  *)
LEMMA TakeKeepsLife ==
  ASSUME TypeOK, QueueInv, LifeInv, workerPc = "deciding",
         NEW e \in pending, Own(e), NEW d \in Verdict, Take(e, d)
  PROVE  LifeInv'
<1> DEFINE v == [asked |-> e.asked, by |-> turn, kind |-> d]
<1>1. /\ resolved' = resolved \cup {v} /\ executed' = executed /\ question' = question
      /\ workerPc' = AfterVerdict(d)
      /\ v.asked = e.asked /\ v.kind = d
  BY DEF Take
<1> HIDE DEF v
<1>2. /\ e.asked.request = question.request
      /\ e.asked.request \notin Budget => e.asked = question
      /\ \A r \in resolved : r.asked # e.asked
  BY TakesItsOwn
<1>3. OncePerQuestion(resolved')
  BY <1>1, <1>2 DEF LifeInv, OncePerQuestion
<1>4. \A x \in executed : x.asked # e.asked
  BY <1>2 DEF LifeInv
<1>5. workerPc' # "executing" /\ (workerPc' = "approved" => Approval(d) /\ question.request \notin Budget)
  BY <1>1 DEF AfterVerdict, Approval
<1> QED BY <1>1, <1>2, <1>3, <1>4, <1>5 DEF LifeInv, OncePerQuestion

(* Every step keeps LifeInv.                                               *)
LEMMA LifeInvStep ==
  ASSUME TypeOK, QueueInv, HandlingInv, LifeInv, [Next]_vars
  PROVE  LifeInv'
<1> USE DEF queueVars, mainVars, workerVars, historyVars
<1>1. ASSUME NEW ok \in BOOLEAN, FinishTool(ok) PROVE LifeInv'
  <2> DEFINE x == [asked |-> question, ok |-> ok]
  <2>1. /\ executed' = executed \cup {x} /\ resolved' = resolved /\ x.asked = question
        /\ workerPc = "executing" /\ workerPc' \in {"running", "ended"}
    BY <1>1 DEF FinishTool
  <2> HIDE DEF x
  <2> QED BY <2>1 DEF LifeInv, OncePerQuestion
<1>2. CASE Restart
  BY <1>2 DEF Restart, LifeInv, OncePerQuestion
<1>3. ASSUME NEW e \in pending, NEW d \in Verdict, workerPc = "deciding", Own(e), Take(e, d)
      PROVE  LifeInv'
  BY <1>3, TakeKeepsLife
<1>4. CASE TakeDecision
  <2>1. PICK e \in pending : Own(e) /\ ~Undecided(e) /\ Take(e, e.decision)
    BY <1>4 DEF TakeDecision
  <2>2. e.decision \in Verdict
    BY <2>1 DEF TypeOK, Entry, Undecided
  <2> QED BY <1>3, <1>4, <2>1, <2>2 DEF TakeDecision
<1>5. CASE TakePersistent
  BY <1>3, <1>5 DEF TakePersistent, Verdict
<1>6. CASE TakeExpired
  BY <1>3, <1>6 DEF TakeExpired, Verdict
<1>7. ASSUME NEW r \in Requests, Announce(r) PROVE LifeInv'
  BY <1>7, LifeInvFrame DEF Announce
<1>8. CASE Commit
  BY <1>8, LifeInvFrame DEF Commit, Notified
<1>9. CASE CommitTooLate
  BY <1>9, LifeInvFrame DEF CommitTooLate, Notified
<1>10. CASE CancelPending
  BY <1>10, LifeInvFrame DEF CancelPending, Notified
<1>11. CASE Tick
  BY <1>11, LifeInvFrame DEF Tick
<1>12. CASE StartTool
  BY <1>12, LifeInvFrame DEF StartTool
<1>13. CASE \/ Initialize \/ ReportWorkerError \/ TruncateFile \/ WriteFile \/ WriteFails
            \/ CommitGone \/ Remember \/ CancelToken \/ UNCHANGED vars
            \/ \E r \in Runs : StartTurn(r)
            \/ \E about \in announced, answer \in Answer : BeginAnswer(about, answer)
  BY <1>13, LifeInvFrame DEF Initialize, ReportWorkerError, TruncateFile, WriteFile, WriteFails,
     CommitGone, Remember, CancelToken, vars, StartTurn, BeginAnswer
<1>14. CASE \/ CheckToken \/ Proceed \/ Finish \/ RecheckToken \/ Park \/ WakeAtDeadline
            \/ WakeSpuriously \/ \E r \in Requests : AnnounceConflicts(r)
  BY <1>14, LifeInvFrame DEF CheckToken, Proceed, Finish, RecheckToken, Park, WakeAtDeadline,
     WakeSpuriously, AnnounceConflicts
<1> QED
  BY <1>1, <1>2, <1>4, <1>5, <1>6, <1>7, <1>8, <1>9, <1>10, <1>11, <1>12, <1>13, <1>14
  DEF Next, MainStep, WorkerStep

(* A question gets one verdict and is executed at most once, after an      *)
(* approval: wait_for_decision removes the entry it resolves, and the tool *)
(* runs once per verdict.                                                  *)
THEOREM LifeInvariance == Spec => []LifeInv
<1>1. Init => LifeInv
  BY DEF Init, LifeInv, OncePerQuestion
<1>2. IInv /\ LifeInv /\ [Next]_vars => LifeInv'
  BY LifeInvStep DEF IInv, GrantInv
<1> QED BY <1>1, <1>2, Invariance, PTL DEF Spec
-----------------------------------------------------------------------------
(* The state of a question as the history has it. *)
Life(q, asked, done, now, verdicts, entries) ==
  IF q \notin asked THEN "unasked"
  ELSE IF \E x \in done : x.asked = q
    THEN IF [asked |-> q, ok |-> TRUE] \in done THEN "completed" ELSE "failed"
  ELSE IF q \in now THEN "executing"
  ELSE IF \E r \in verdicts : r.asked = q
    THEN StateOfVerdict((CHOOSE r \in verdicts : r.asked = q).kind)
  ELSE IF \E e \in entries : e.asked = q
    THEN StateOfVerdict((CHOOSE e \in entries : e.asked = q).decision)
  ELSE "pending"

Now == IF workerPc = "executing" THEN {question} ELSE {}

(* LifeOf written over the history that it reads, before a step and after  *)
(* it.                                                                     *)
LEMMA LifeOfIs ==
  ASSUME NEW q
  PROVE  LifeOf(q) = Life(q, announced, executed, Now, resolved, pending)
         /\ LifeOf(q)' = Life(q, announced', executed', Now', resolved', pending')
BY DEF LifeOf, Life, Now

(* What each kind of record in the history says of a question.             *)
LEMMA LifeIs ==
  ASSUME NEW q, NEW asked, NEW done, NEW now, NEW verdicts, NEW entries,
         OncePerQuestion(verdicts), OncePerQuestion(entries)
  PROVE  LET life == Life(q, asked, done, now, verdicts, entries)
             quiet == q \in asked /\ \A x \in done : x.asked # q
         IN  /\ q \notin asked => life = "unasked"
             /\ quiet /\ q \in now => life = "executing"
             /\ quiet /\ q \notin now =>
                  \A r \in verdicts : r.asked = q => life = StateOfVerdict(r.kind)
             /\ quiet /\ q \notin now /\ (\A r \in verdicts : r.asked # q) =>
                  \A e \in entries : e.asked = q => life = StateOfVerdict(e.decision)
<1>1. \A r \in verdicts : r.asked = q => (CHOOSE s \in verdicts : s.asked = q) = r
  BY DEF OncePerQuestion
<1>2. \A e \in entries : e.asked = q => (CHOOSE f \in entries : f.asked = q) = e
  BY DEF OncePerQuestion
<1> QED BY <1>1, <1>2 DEF Life

(* Two histories that agree on a question. *)
LEMMA SameLife ==
  ASSUME NEW q, NEW asked, NEW done, NEW now, NEW verdicts, NEW entries,
         NEW asked2, NEW done2, NEW now2, NEW verdicts2, NEW entries2,
         OncePerQuestion(verdicts), OncePerQuestion(entries),
         OncePerQuestion(verdicts2), OncePerQuestion(entries2),
         q \in asked <=> q \in asked2, q \in now <=> q \in now2,
         \A x : x.asked = q => (x \in done <=> x \in done2),
         \A r : r.asked = q => (r \in verdicts <=> r \in verdicts2),
         \A e \in entries : e.asked = q =>
           \E f \in entries2 : f.asked = q /\ f.decision = e.decision,
         \A f \in entries2 : f.asked = q => \E e \in entries : e.asked = q
  PROVE  Life(q, asked, done, now, verdicts, entries)
           = Life(q, asked2, done2, now2, verdicts2, entries2)
<1> DEFINE a == Life(q, asked, done, now, verdicts, entries)
           b == Life(q, asked2, done2, now2, verdicts2, entries2)
<1>1. CASE q \notin asked
  BY <1>1 DEF Life
<1>2. CASE q \in asked /\ \E x \in done : x.asked = q
  <2>1. \E x \in done2 : x.asked = q
    BY <1>2
  <2>2. [asked |-> q, ok |-> TRUE] \in done <=> [asked |-> q, ok |-> TRUE] \in done2
    <3> DEFINE y == [asked |-> q, ok |-> TRUE]
    <3>1. y.asked = q
      OBVIOUS
    <3> HIDE DEF y
    <3>2. y \in done <=> y \in done2
      BY <3>1
    <3> QED BY <3>2 DEF y
  <2> QED BY <1>2, <2>1, <2>2 DEF Life
<1>3. CASE q \in asked /\ (\A x \in done : x.asked # q) /\ q \in now
  <2>1. \A x \in done2 : x.asked # q
    BY <1>3
  <2>2. a = "executing" /\ b = "executing"
    BY <1>3, <2>1 DEF Life
  <2> QED BY <2>2
<1>4. ASSUME q \in asked, \A x \in done : x.asked # q, q \notin now,
             NEW r \in verdicts, r.asked = q
      PROVE  a = b
  <2>1. (\A x \in done2 : x.asked # q) /\ r \in verdicts2
    BY <1>4
  <2>2. a = StateOfVerdict(r.kind)
    BY <1>4, LifeIs
  <2>3. b = StateOfVerdict(r.kind)
    BY <1>4, <2>1, LifeIs
  <2> QED BY <2>2, <2>3
<1>5. ASSUME q \in asked, \A x \in done : x.asked # q, q \notin now,
             \A r \in verdicts : r.asked # q, NEW e \in entries, e.asked = q
      PROVE  a = b
  <2>1. (\A x \in done2 : x.asked # q) /\ (\A r \in verdicts2 : r.asked # q)
    BY <1>5
  <2>2. PICK f \in entries2 : f.asked = q /\ f.decision = e.decision
    BY <1>5
  <2>3. a = StateOfVerdict(e.decision)
    BY <1>5, LifeIs
  <2>4. b = StateOfVerdict(f.decision)
    BY <1>5, <2>1, <2>2, LifeIs
  <2> QED BY <2>2, <2>3, <2>4
<1>6. CASE /\ q \in asked /\ (\A x \in done : x.asked # q) /\ q \notin now
           /\ (\A r \in verdicts : r.asked # q) /\ (\A e \in entries : e.asked # q)
  <2>1. /\ \A x \in done2 : x.asked # q
        /\ \A r \in verdicts2 : r.asked # q
        /\ \A f \in entries2 : f.asked # q
    BY <1>6
  <2>2. a = "pending" /\ b = "pending"
    BY <1>6, <2>1 DEF Life
  <2> QED BY <2>2
<1> QED BY <1>1, <1>2, <1>3, <1>4, <1>5, <1>6
-----------------------------------------------------------------------------
(* What the steps of this section are taken from, and to. *)
Known == TypeOK /\ QueueInv /\ LifeInv

view == [q \in ToolQuestions |-> LifeOf(q)]

(* A step that changes nothing of a question. *)
Untouched(q) ==
  /\ q \in announced' <=> q \in announced
  /\ q \in Now' <=> q \in Now
  /\ \A x : x.asked = q => (x \in executed' <=> x \in executed)
  /\ \A r : r.asked = q => (r \in resolved' <=> r \in resolved)
  /\ \A e \in pending : e.asked = q => \E f \in pending' : f.asked = q /\ f.decision = e.decision
  /\ \A f \in pending' : f.asked = q => \E e \in pending : e.asked = q

(* A question has one entry and one verdict,                               *)
LEMMA EntriesAreOnce == Known => OncePerQuestion(pending) /\ OncePerQuestion(resolved)
BY DEF Known, QueueInv, UniqueIds, IdOfEntry, OncePerQuestion, LifeInv

(* also after a step.                                                      *)
LEMMA EntriesAreOncePrimed == Known' => OncePerQuestion(pending') /\ OncePerQuestion(resolved')
BY DEF Known, QueueInv, UniqueIds, IdOfEntry, OncePerQuestion, LifeInv

(* A question that a step leaves untouched keeps its state.                *)
LEMMA UntouchedStays ==
  ASSUME Known, Known', NEW q, Untouched(q)
  PROVE  LifeOf(q)' = LifeOf(q)
<1>1. /\ OncePerQuestion(pending) /\ OncePerQuestion(resolved)
      /\ OncePerQuestion(pending') /\ OncePerQuestion(resolved')
  BY EntriesAreOnce, EntriesAreOncePrimed
<1> DEFINE now  == Now
           now2 == Now'
<1>2. q \in now <=> q \in now2
  BY DEF Untouched
<1> HIDE DEF now, now2
<1>3. Life(q, announced, executed, now, resolved, pending)
        = Life(q, announced', executed', now2, resolved', pending')
  BY <1>1, <1>2, SameLife DEF Untouched
<1> QED BY <1>3, LifeOfIs DEF now, now2

(* The history agrees with the machine: nothing happened to any question, *)
LEMMA Stutter ==
  ASSUME Known, Known', \A q \in ToolQuestions : Untouched(q)
  PROVE  view' = view
BY UntouchedStays DEF view

(* or one of them was decided or executed. *)
LEMMA Moves ==
  ASSUME Known, Known', NEW p \in ToolQuestions, NEW b,
         <<LifeOf(p), b>> \in Lifecycle!CanTransition, LifeOf(p)' = b,
         \A q \in ToolQuestions \ {p} : Untouched(q)
  PROVE  Lifecycle!Next
<1>1. b \in Lifecycle!ApprovalState
  BY DEF Lifecycle!CanTransition, Lifecycle!ApprovalState
<1>2. \A q \in ToolQuestions \ {p} : LifeOf(q)' = LifeOf(q)
  BY UntouchedStays
<1>3. view' = [view EXCEPT ![p] = b] /\ view[p] = LifeOf(p)
  BY <1>2 DEF view
<1>4. Lifecycle!Transition(p, b)
  BY <1>3 DEF Lifecycle!Transition, view
<1> QED BY <1>1, <1>4 DEF Lifecycle!Next

(* The life of a question with an entry, *)
LEMMA EntryLife ==
  ASSUME Known, NEW e \in pending
  PROVE  LifeOf(e.asked) = StateOfVerdict(e.decision)
<1> DEFINE q == e.asked
<1>1. /\ q \in announced /\ (\A r \in resolved : r.asked # q) /\ (\A x \in executed : x.asked # q)
  BY DEF Known, QueueInv, AskedInv, ResolvedIsGone, LifeInv
<1>2. q \notin Now
  BY <1>1 DEF Known, LifeInv, Now
<1> DEFINE now == Now
<1> HIDE DEF now, q
<1>3. Life(q, announced, executed, now, resolved, pending) = StateOfVerdict(e.decision)
  BY <1>1, <1>2, EntriesAreOnce, LifeIs DEF now, q
<1> QED BY <1>3, LifeOfIs DEF now, q

(* before a step and after it;                                             *)
LEMMA EntryLifePrimed ==
  ASSUME Known', NEW e \in pending'
  PROVE  LifeOf(e.asked)' = StateOfVerdict(e.decision)
<1> DEFINE q == e.asked
<1>1. /\ q \in announced' /\ (\A r \in resolved' : r.asked # q) /\ (\A x \in executed' : x.asked # q)
  BY DEF Known, QueueInv, AskedInv, ResolvedIsGone, LifeInv
<1>2. q \notin Now'
  BY <1>1 DEF Known, LifeInv, Now
<1> DEFINE now == Now'
<1> HIDE DEF now, q
<1>3. Life(q, announced', executed', now, resolved', pending') = StateOfVerdict(e.decision)
  BY <1>1, <1>2, EntriesAreOncePrimed, LifeIs DEF now, q
<1> QED BY <1>3, LifeOfIs DEF now, q

(* with a verdict, *)
LEMMA VerdictLife ==
  ASSUME Known, NEW r \in resolved, \A x \in executed : x.asked # r.asked, r.asked \notin Now
  PROVE  LifeOf(r.asked) = StateOfVerdict(r.kind)
<1> DEFINE q == r.asked
           now == Now
<1>1. q \in announced
  BY DEF Known, QueueInv, AskedInv
<1> HIDE DEF now, q
<1>2. Life(q, announced, executed, now, resolved, pending) = StateOfVerdict(r.kind)
  BY <1>1, EntriesAreOnce, LifeIs DEF now, q
<1> QED BY <1>2, LifeOfIs DEF now, q

(* before a step and after it.                                             *)
LEMMA VerdictLifePrimed ==
  ASSUME Known', NEW r \in resolved', \A x \in executed' : x.asked # r.asked, r.asked \notin Now'
  PROVE  LifeOf(r.asked)' = StateOfVerdict(r.kind)
<1> DEFINE q == r.asked
           now == Now'
<1>1. q \in announced'
  BY DEF Known, QueueInv, AskedInv
<1> HIDE DEF now, q
<1>2. Life(q, announced', executed', now, resolved', pending') = StateOfVerdict(r.kind)
  BY <1>1, EntriesAreOncePrimed, LifeIs DEF now, q
<1> QED BY <1>2, LifeOfIs DEF now, q

(* The worker takes a verdict: what it takes is decided, or is decided now. *)
LEMMA TakeIsAllowed ==
  ASSUME Known, Known', workerPc = "deciding",
         NEW e \in pending, Own(e), NEW d \in Verdict, Take(e, d),
         d = e.decision \/ (Undecided(e) /\ d \in {"approved", "expired"})
  PROVE  Lifecycle!Next \/ view' = view
<1>0. \E v : /\ resolved' = resolved \cup {v} /\ pending' = pending \ {e}
             /\ UNCHANGED <<executed, question, announced>>
             /\ workerPc' = AfterVerdict(d)
             /\ v.asked = e.asked /\ v.kind = d
  <2> DEFINE v == [asked |-> e.asked, by |-> turn, kind |-> d]
  <2>1. v.asked = e.asked /\ v.kind = d
    OBVIOUS
  <2> HIDE DEF v
  <2>2. /\ resolved' = resolved \cup {v} /\ pending' = pending \ {e}
        /\ UNCHANGED <<executed, question, announced>>
        /\ workerPc' = AfterVerdict(d)
    BY DEF Take, v
  <2> QED BY <2>1, <2>2
<1>1. PICK v : /\ resolved' = resolved \cup {v} /\ pending' = pending \ {e}
               /\ UNCHANGED <<executed, question, announced>>
               /\ workerPc' = AfterVerdict(d)
               /\ v.asked = e.asked /\ v.kind = d
  BY <1>0
<1>2. Now = {} /\ Now' = {}
  BY <1>1 DEF Now, AfterVerdict
<1>3. \A q : q # e.asked => Untouched(q)
  BY <1>1, <1>2 DEF Untouched
<1>4. \A x \in executed : x.asked # e.asked
  <2>1. \A r \in resolved : r.asked # e.asked
    BY DEF Known, QueueInv, ResolvedIsGone
  <2> QED BY <2>1 DEF Known, LifeInv
<1>5. LifeOf(e.asked) = StateOfVerdict(e.decision)
  BY EntryLife
<1>6. LifeOf(v.asked)' = StateOfVerdict(v.kind)
  BY <1>1, <1>2, <1>4, VerdictLifePrimed
<1>7. LifeOf(e.asked)' = StateOfVerdict(d)
  <2> DEFINE p == e.asked
  <2>1. v.asked = p
    BY <1>1
  <2> HIDE DEF p
  <2> QED BY <1>1, <1>6, <2>1 DEF p
<1>8. CASE d = e.decision
  <2>1. \A q \in ToolQuestions : LifeOf(q)' = LifeOf(q)
    BY <1>3, <1>5, <1>7, <1>8, UntouchedStays
  <2> QED BY <2>1 DEF view
<1>9. CASE e.asked \notin ToolQuestions
  BY <1>3, <1>9, Stutter
<1>10. CASE e.asked \in ToolQuestions /\ Undecided(e) /\ d \in {"approved", "expired"}
  <2>1. StateOfVerdict(e.decision) = "pending" /\ StateOfVerdict(d) = d
    BY <1>10 DEF StateOfVerdict, Undecided
  <2>2. <<LifeOf(e.asked), d>> \in Lifecycle!CanTransition
    BY <1>5, <1>10, <2>1 DEF Lifecycle!CanTransition
  <2>3. \A q \in ToolQuestions \ {e.asked} : Untouched(q)
    BY <1>3
  <2> QED BY <1>7, <1>10, <2>1, <2>2, <2>3, Moves
<1> QED BY <1>8, <1>9, <1>10

(* The request loop decides an entry. *)
LEMMA CommitIsAllowed ==
  ASSUME Known, Known', NEW e \in pending, Undecided(e),
         NEW d \in {"approved", "approvedHunks", "rejected", "expired"},
         pending' = Replace(e, [e EXCEPT !.decision = d]),
         UNCHANGED <<announced, executed, resolved, question>>, workerPc' = Notified
  PROVE  Lifecycle!Next \/ view' = view
<1> DEFINE f == [e EXCEPT !.decision = d]
<1>1. f.asked = e.asked /\ f.decision = d
  BY DEF Known, TypeOK, Entry
<1>2. f \in pending' /\ pending' = (pending \ {e}) \cup {f}
  BY DEF Replace
<1> HIDE DEF f
<1>3. Now' = Now
  BY DEF Now, Notified
<1>4. \A q : q # e.asked => Untouched(q)
  BY <1>1, <1>2, <1>3 DEF Untouched
<1>5. LifeOf(e.asked) = "pending"
  BY EntryLife DEF Undecided, StateOfVerdict
<1>6. LifeOf(f.asked)' = StateOfVerdict(f.decision)
  BY <1>2, EntryLifePrimed
<1>7. LifeOf(e.asked)' = StateOfVerdict(d)
  <2> DEFINE p == e.asked
  <2>1. f.asked = p
    BY <1>1
  <2> HIDE DEF p
  <2> QED BY <1>1, <1>6, <2>1 DEF p
<1>8. CASE e.asked \notin ToolQuestions
  BY <1>4, <1>8, Stutter
<1>9. CASE e.asked \in ToolQuestions
  <2>1. <<LifeOf(e.asked), StateOfVerdict(d)>> \in Lifecycle!CanTransition
    BY <1>5 DEF Lifecycle!CanTransition, StateOfVerdict
  <2>2. \A q \in ToolQuestions \ {e.asked} : Untouched(q)
    BY <1>4
  <2> QED BY <1>7, <1>9, <2>1, <2>2, Moves
<1> QED BY <1>8, <1>9
-----------------------------------------------------------------------------
(* The cancellation of a run. *)
LEMMA CancelIsAllowed ==
  ASSUME Known, Known', CancelPending
  PROVE  Lifecycle!Next
<1> DEFINE C == {q \in ToolQuestions :
                   \E e \in pending : e.asked = q /\ e.run = run /\ Undecided(e)}
           Label(e) == IF e.run = run /\ Undecided(e)
                       THEN [e EXCEPT !.decision = "canceled"] ELSE e
<1>1. /\ pending' = {Label(e) : e \in pending} /\ workerPc' = Notified
      /\ UNCHANGED <<announced, executed, resolved, question>>
  BY DEF CancelPending, historyVars
<1>2. \A e \in pending : /\ Label(e).asked = e.asked /\ Label(e) \in pending'
                         /\ ~(e.run = run /\ Undecided(e)) => Label(e).decision = e.decision
                         /\ e.run = run /\ Undecided(e) => Label(e).decision = "canceled"
  BY <1>1 DEF Known, TypeOK, Entry
<1>3. \A f \in pending' : \E e \in pending : f = Label(e)
  BY <1>1
<1> HIDE DEF Label
<1>4. Now' = Now
  BY <1>1 DEF Now, Notified
<1>5. ASSUME NEW q \in ToolQuestions, q \notin C PROVE LifeOf(q)' = LifeOf(q)
  <2>1. \A e \in pending : e.asked = q => \E f \in pending' : f.asked = q /\ f.decision = e.decision
    BY <1>2, <1>5
  <2>2. \A f \in pending' : f.asked = q => \E e \in pending : e.asked = q
    BY <1>2, <1>3
  <2>3. Untouched(q)
    BY <1>1, <1>4, <2>1, <2>2 DEF Untouched
  <2> QED BY <2>3, UntouchedStays
<1>6. ASSUME NEW q \in ToolQuestions, q \in C
      PROVE  LifeOf(q) = "pending" /\ LifeOf(q)' = "canceled"
  <2>1. PICK e \in pending : e.asked = q /\ e.run = run /\ Undecided(e)
    BY <1>6
  <2>2. LifeOf(q) = "pending"
    BY <2>1, EntryLife DEF Undecided, StateOfVerdict
  <2>3. PICK f \in pending' : f.asked = q /\ f.decision = "canceled"
    BY <1>2, <2>1
  <2>4. LifeOf(f.asked)' = StateOfVerdict(f.decision)
    BY EntryLifePrimed
  <2> QED BY <2>2, <2>3, <2>4 DEF StateOfVerdict
<1>7. /\ C \in SUBSET ToolQuestions
      /\ \A q \in C : view[q] = "pending"
      /\ view' = [q \in ToolQuestions |-> IF q \in C THEN "canceled" ELSE view[q]]
  <2> HIDE DEF C
  <2>1. C \in SUBSET ToolQuestions
    BY DEF C
  <2>2. \A q \in ToolQuestions : LifeOf(q)' = IF q \in C THEN "canceled" ELSE LifeOf(q)
    BY <1>5, <1>6
  <2> QED BY <1>6, <2>1, <2>2 DEF view
<1>8. Lifecycle!CancelAll(C)
  <2> HIDE DEF C
  <2> QED BY <1>7 DEF Lifecycle!CancelAll, view
<1> QED
  <2> HIDE DEF C
  <2> QED BY <1>7, <1>8 DEF Lifecycle!Next

(* A question is asked. *)
LEMMA AskIsAllowed ==
  ASSUME Known, Known', NEW r \in Requests, Announce(r)
  PROVE  Lifecycle!Next \/ view' = view
<1>0. \E q : /\ q = [turn |-> turn, request |-> r] /\ question' = q
             /\ announced' = announced \cup {q}
             /\ \/ \E e : pending' = pending \cup {e} /\ e.asked = q /\ e.decision = "none"
                \/ pending' = pending
  <2> DEFINE q == [turn |-> turn, request |-> r]
             new == [run |-> run, asked |-> q, decision |-> "none", late |-> FALSE]
  <2>1. new.asked = q /\ new.decision = "none"
    OBVIOUS
  <2>2. pending' = pending \cup {new} \/ pending' = pending
    BY DEF Announce
  <2> HIDE DEF new
  <2>3. question' = q /\ announced' = announced \cup {q}
    BY DEF Announce
  <2> QED BY <2>1, <2>2, <2>3
<1>1. PICK q : /\ q = [turn |-> turn, request |-> r] /\ question' = q
               /\ announced' = announced \cup {q}
               /\ \/ \E e : pending' = pending \cup {e} /\ e.asked = q /\ e.decision = "none"
                  \/ pending' = pending
  BY <1>0
<1>2. q \notin announced
  BY <1>1 DEF Announce, IdUnusedInTurn
<1>3. /\ UNCHANGED <<executed, resolved>> /\ workerPc = "cleared"
      /\ workerPc' \in {"announced", "deciding"}
  BY DEF Announce
<1>4. Now = {} /\ Now' = {}
  BY <1>3 DEF Now
<1>5. \A p : p # q => Untouched(p)
  BY <1>1, <1>3, <1>4 DEF Untouched
<1>6. LifeOf(q) = "unasked"
  BY <1>2 DEF LifeOf
<1>7. LifeOf(q)' = "pending"
  <2>1. CASE \E e : pending' = pending \cup {e} /\ e.asked = q /\ e.decision = "none"
    <3>1. PICK e : pending' = pending \cup {e} /\ e.asked = q /\ e.decision = "none"
      BY <2>1
    <3>2. e \in pending'
      BY <3>1
    <3>3. LifeOf(e.asked)' = StateOfVerdict(e.decision)
      BY <3>2, EntryLifePrimed
    <3> QED BY <3>1, <3>3 DEF StateOfVerdict
  <2>2. CASE pending' = pending
    <3>1. /\ \A e \in pending' : e.asked # q
          /\ \A v \in resolved' : v.asked # q
          /\ \A x \in executed' : x.asked # q
      BY <1>2, <1>3, <2>2 DEF Known, QueueInv, AskedInv, LifeInv
    <3> DEFINE now == Now'
    <3>2. q \in announced' /\ q \notin now
      BY <1>1, <1>4
    <3> HIDE DEF now
    <3>3. Life(q, announced', executed', now, resolved', pending') = "pending"
      BY <3>1, <3>2 DEF Life
    <3> QED BY <3>3, LifeOfIs DEF now
  <2> QED BY <1>1, <2>1, <2>2
<1>8. CASE q \notin ToolQuestions
  BY <1>5, <1>8, Stutter
<1>9. CASE q \in ToolQuestions
  <2>1. \A p \in ToolQuestions \ {q} : LifeOf(p)' = LifeOf(p)
    BY <1>5, UntouchedStays
  <2>2. view' = [view EXCEPT ![q] = "pending"] /\ view[q] = "unasked"
    BY <1>6, <1>7, <1>9, <2>1 DEF view
  <2>3. Lifecycle!Ask(q)
    BY <2>2 DEF Lifecycle!Ask, view
  <2> QED BY <1>9, <2>3 DEF Lifecycle!Next
<1> QED BY <1>8, <1>9

(* The operation that was approved starts, *)
LEMMA StartIsAllowed ==
  ASSUME Known, Known', StartTool
  PROVE  Lifecycle!Next \/ view' = view
<1>1. /\ workerPc = "approved" /\ workerPc' \in {"ended", "executing"}
      /\ UNCHANGED <<pending, question, announced, executed, resolved>>
  BY DEF StartTool, queueVars, historyVars
<1>2. PICK p : p = question
  OBVIOUS
<1>3. Now = {} /\ Now' = IF workerPc' = "executing" THEN {p} ELSE {}
  BY <1>1, <1>2 DEF Now
<1>4. \A q : q # p \/ workerPc' # "executing" => Untouched(q)
  BY <1>1, <1>3 DEF Untouched
<1>5. CASE p \notin ToolQuestions \/ workerPc' # "executing"
  BY <1>4, <1>5, Stutter
<1>6. CASE p \in ToolQuestions /\ workerPc' = "executing"
  <2>1. PICK r \in resolved : r.asked = p /\ Approval(r.kind)
    BY <1>1, <1>2 DEF Known, LifeInv
  <2>2. \A x \in executed : x.asked # p
    BY <1>1, <1>2 DEF Known, LifeInv
  <2>3. LifeOf(p) = StateOfVerdict(r.kind)
    BY <1>3, <2>1, <2>2, VerdictLife
  <2>4. LifeOf(p) = "approved"
    BY <2>1, <2>3 DEF StateOfVerdict, Approval
  <2>5. LifeOf(p)' = "executing"
    <3> DEFINE now == Now'
    <3>1. p \in now /\ p \in announced' /\ \A x \in executed' : x.asked # p
      BY <1>1, <1>3, <1>6, <2>1, <2>2 DEF Known, QueueInv, AskedInv
    <3> HIDE DEF now
    <3>2. Life(p, announced', executed', now, resolved', pending') = "executing"
      BY <3>1 DEF Life
    <3> QED BY <3>2, LifeOfIs DEF now
  <2>6. <<LifeOf(p), "executing">> \in Lifecycle!CanTransition
    BY <2>4 DEF Lifecycle!CanTransition
  <2>7. \A q \in ToolQuestions \ {p} : Untouched(q)
    BY <1>4
  <2> QED BY <1>6, <2>5, <2>6, <2>7, Moves
<1> QED BY <1>5, <1>6

(* and ends. *)
LEMMA FinishIsAllowed ==
  ASSUME Known, Known', NEW ok \in BOOLEAN, FinishTool(ok)
  PROVE  Lifecycle!Next \/ view' = view
<1>1. PICK p : p = question
  OBVIOUS
<1> DEFINE x == [asked |-> p, ok |-> ok]
<1>2. /\ workerPc = "executing" /\ workerPc' \in {"running", "ended"}
      /\ executed' = executed \cup {x} /\ x.asked = p
      /\ UNCHANGED <<pending, question, announced, resolved>>
  BY <1>1 DEF FinishTool, queueVars
<1>3. Now = {p} /\ Now' = {}
  BY <1>1, <1>2 DEF Now
<1> HIDE DEF x
<1>4. \A q : q # p => Untouched(q)
  BY <1>2, <1>3 DEF Untouched
<1>5. CASE p \notin ToolQuestions
  BY <1>4, <1>5, Stutter
<1>6. CASE p \in ToolQuestions
  <2>1. (\A y \in executed : y.asked # p) /\ p \in announced
    BY <1>1, <1>2 DEF Known, LifeInv, QueueInv, WorkerInv
  <2>2. LifeOf(p) = "executing"
    <3> DEFINE now == Now
    <3>1. p \in now
      BY <1>3
    <3> HIDE DEF now
    <3>2. Life(p, announced, executed, now, resolved, pending) = "executing"
      BY <2>1, <3>1 DEF Life
    <3> QED BY <3>2, LifeOfIs DEF now
  <2>3. LifeOf(p)' = IF ok = TRUE THEN "completed" ELSE "failed"
    <3> DEFINE done == [asked |-> p, ok |-> TRUE]
    <3>1. p \in announced' /\ \E y \in executed' : y.asked = p
      BY <1>2, <2>1
    <3>2. done \in executed' <=> ok = TRUE
      <4>1. done \notin executed
        BY <2>1
      <4>2. done = x <=> ok = TRUE
        BY DEF x
      <4> QED BY <1>2, <4>1, <4>2
    <3>3. Life(p, announced', executed', Now', resolved', pending')
            = IF done \in executed' THEN "completed" ELSE "failed"
      BY <3>1 DEF Life
    <3> QED BY <3>2, <3>3, LifeOfIs
  <2>4. \A b \in {"completed", "failed"} : <<LifeOf(p), b>> \in Lifecycle!CanTransition
    BY <2>2 DEF Lifecycle!CanTransition
  <2>5. \A q \in ToolQuestions \ {p} : Untouched(q)
    BY <1>4
  <2>6. PICK b \in {"completed", "failed"} : LifeOf(p)' = b
    BY <2>3
  <2> QED BY <1>6, <2>4, <2>5, <2>6, Moves
<1> QED BY <1>5, <1>6

(* A restart of the server: the questions of the old process are gone.     *)
LEMMA RestartIsAllowed ==
  ASSUME Restart PROVE Lifecycle!Next
<1>1. announced' = {}
  BY DEF Restart
<1>2. \A q \in ToolQuestions : LifeOf(q)' = "unasked"
  BY <1>1 DEF LifeOf
<1>3. view' = [q \in ToolQuestions |-> "unasked"]
  BY <1>2 DEF view
<1> QED BY <1>3 DEF Lifecycle!Next, Lifecycle!Restart, view

(* A step that leaves the history of all questions as it is. *)
LEMMA NothingHappens ==
  ASSUME Known, Known', UNCHANGED <<pending, announced, executed, resolved>>,
         workerPc # "executing", workerPc' # "executing"
  PROVE  view' = view
<1>1. Now = {} /\ Now' = {}
  BY DEF Now
<1>2. \A q \in ToolQuestions : Untouched(q)
  BY <1>1 DEF Untouched
<1> QED BY <1>2, Stutter

(* A step of the request loop that leaves the entries as they are.         *)
LEMMA WorkerRests ==
  ASSUME Known, Known', UNCHANGED <<pending, announced, executed, resolved, workerPc, question>>
  PROVE  view' = view
<1>1. Now' = Now
  BY DEF Now
<1>2. \A q \in ToolQuestions : Untouched(q)
  BY <1>1 DEF Untouched
<1> QED BY <1>2, Stutter

(* Every step is one of the lifecycle or a stutter.                        *)
LEMMA LifecycleStep ==
  ASSUME Known, Known', HandlingInv, [Next]_vars
  PROVE  Lifecycle!Next \/ view' = view
<1> USE DEF queueVars, mainVars, workerVars, historyVars
<1>1. CASE \/ Initialize \/ TruncateFile \/ WriteFile \/ WriteFails
           \/ CommitGone \/ Remember \/ CancelToken \/ UNCHANGED vars
           \/ \E about \in announced, answer \in Answer : BeginAnswer(about, answer)
  BY <1>1, WorkerRests DEF Initialize, TruncateFile, WriteFile, WriteFails,
     CommitGone, Remember, CancelToken, vars, BeginAnswer
<1>2. CASE \/ CheckToken \/ Proceed \/ Finish \/ RecheckToken \/ Park \/ WakeAtDeadline
           \/ WakeSpuriously \/ ReportWorkerError
           \/ \E r \in Requests : AnnounceConflicts(r)
           \/ \E r \in Runs : StartTurn(r)
  BY <1>2, NothingHappens DEF CheckToken, Proceed, Finish, RecheckToken, Park,
     WakeAtDeadline, WakeSpuriously, ReportWorkerError, AnnounceConflicts, StartTurn
<1>3. CASE Commit
  <2>1. PICK e \in pending :
          Undecided(e) /\ pending' = Replace(e, [e EXCEPT !.decision = handling.answer.kind])
    BY <1>3 DEF Commit
  <2>2. handling.answer.kind \in {"approved", "approvedHunks", "rejected"}
    BY <1>3, AnswerType DEF HandlingInv, Answering, Commit, Handling
  <2>3. PICK d \in {"approved", "approvedHunks", "rejected", "expired"} :
          pending' = Replace(e, [e EXCEPT !.decision = d])
    BY <2>1, <2>2
  <2>4. UNCHANGED <<announced, executed, resolved, question>> /\ workerPc' = Notified
    BY <1>3 DEF Commit
  <2> QED BY <2>1, <2>3, <2>4, CommitIsAllowed
<1>4. CASE CommitTooLate
  <2>1. PICK e \in pending :
          Undecided(e) /\ pending' = Replace(e, [e EXCEPT !.decision = "expired"])
    BY <1>4 DEF CommitTooLate
  <2>2. UNCHANGED <<announced, executed, resolved, question>> /\ workerPc' = Notified
    BY <1>4 DEF CommitTooLate
  <2> QED BY <2>1, <2>2, CommitIsAllowed
<1>5. CASE CancelPending
  BY <1>5, CancelIsAllowed
<1>6. ASSUME NEW r \in Requests, Announce(r) PROVE Lifecycle!Next \/ view' = view
  BY <1>6, AskIsAllowed
<1>7. CASE TakeDecision
  <2>1. PICK e \in pending : Own(e) /\ ~Undecided(e) /\ Take(e, e.decision)
    BY <1>7 DEF TakeDecision
  <2>2. e.decision \in Verdict
    BY <2>1 DEF Known, TypeOK, Entry, Undecided
  <2>3. workerPc = "deciding"
    BY <1>7 DEF TakeDecision
  <2> QED BY <2>1, <2>2, <2>3, TakeIsAllowed
<1>8. CASE TakePersistent
  BY <1>8, TakeIsAllowed DEF TakePersistent, Verdict
<1>9. CASE TakeExpired
  BY <1>9, TakeIsAllowed DEF TakeExpired, Verdict
<1>10. CASE StartTool
  BY <1>10, StartIsAllowed
<1>11. ASSUME NEW ok \in BOOLEAN, FinishTool(ok) PROVE Lifecycle!Next \/ view' = view
  BY <1>11, FinishIsAllowed
<1>12. CASE Tick
  <2>1. PICK e \in pending : Undecided(e) /\ pending' = Replace(e, [e EXCEPT !.late = TRUE])
    BY <1>12 DEF Tick
  <2> DEFINE f == [e EXCEPT !.late = TRUE]
  <2>2. f.asked = e.asked /\ f.decision = e.decision
    BY LateType DEF Known, TypeOK
  <2>3. pending' = (pending \ {e}) \cup {f}
    BY <2>1 DEF Replace
  <2> HIDE DEF f
  <2>4. UNCHANGED <<announced, executed, resolved, workerPc, question>>
    BY <1>12 DEF Tick
  <2>5. Now' = Now
    BY <2>4 DEF Now
  <2>6. \A q \in ToolQuestions : Untouched(q)
    BY <2>2, <2>3, <2>4, <2>5 DEF Untouched
  <2> QED BY <2>6, Stutter
<1>13. CASE Restart
  BY <1>13, RestartIsAllowed
<1> QED
  BY <1>1, <1>2, <1>3, <1>4, <1>5, <1>6, <1>7, <1>8, <1>9, <1>10, <1>11, <1>12, <1>13
  DEF Next, MainStep, WorkerStep

(* Every question goes through the states of ApprovalState along the edges *)
(* of can_transition_to, whatever the loop, the worker, the clock and the  *)
(* cancellations do to the entries in the map.                             *)
THEOREM Refinement == Spec => ImplementsLifecycle
<1>1. Init => Lifecycle!Init
  <2> SUFFICES ASSUME Init PROVE Lifecycle!Init
    OBVIOUS
  <2>1. announced = {}
    BY DEF Init
  <2>2. \A q \in ToolQuestions : LifeOf(q) = "unasked"
    BY <2>1 DEF LifeOf
  <2> QED BY <2>2 DEF Lifecycle!Init
<1>2. IInv /\ IInv' /\ LifeInv /\ LifeInv' /\ [Next]_vars => [Lifecycle!Next]_view
  BY LifecycleStep DEF Known, IInv, GrantInv
<1> QED
  BY <1>1, <1>2, Invariance, LifeInvariance, PTL
     DEF Spec, ImplementsLifecycle, Lifecycle!Spec, view
=============================================================================
