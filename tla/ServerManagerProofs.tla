------------------------ MODULE ServerManagerProofs ------------------------
(***************************************************************************)
(* For any requests, any number of servers and any output: no server is    *)
(* forgotten, and requests are answered by the server they were sent to.   *)
(***************************************************************************)
EXTENDS ServerManager, FiniteSetTheorems, TLAPS

Id    == {"initialize", "request", "none"} \X Nat
Chunk == [id : Id, ok : BOOLEAN, part : {"whole", "head", "tail"}]

TypeInv ==
  /\ child \in {0} \cup Servers
  /\ initializeId \in Id /\ nextRequestId \in Nat \ {0}
  /\ caller \in [Requests -> {"idle", "starting", "due", "pending", "resolved",
                              "rejected"}]
  /\ idOf \in [Requests -> Id]
  /\ sentTo \in [Requests -> {0} \cup Servers]
  /\ answeredBy \in [Requests -> {0} \cup Servers]
  /\ process \in [Servers -> {"unborn", "running", "ending", "gone"}]
  /\ requests \in [Servers -> Seq(Id)] /\ output \in [Servers -> Seq(Chunk)]

(* The ids that are with a server: to be answered, or in its output. *)
Carried(s) == {requests[s][i] : i \in 1..Len(requests[s])} \cup
              {output[s][i].id : i \in 1..Len(output[s])}

(* Ids were given before, and are with the server they were given for. *)
IdsInv ==
  /\ \A s \in Servers : \A id \in Carried(s) : id[2] < nextRequestId
  /\ \A r \in Requests : idOf[r][2] < nextRequestId
  /\ \A r \in Requests : \A s \in Servers :
       idOf[r] # NoId /\ idOf[r] \in Carried(s) => s = sentTo[r]
  /\ \A r \in Requests : caller[r] \in {"idle", "starting", "due"} => idOf[r] = NoId
  /\ \A r \in Requests : idOf[r][1] # "initialize"

(* Who has a server that reported no error waits for it, or is served. *)
ChildInv ==
  \/ child = 0 \/ child \in erred
  \/ starting /\ status = "starting"
  \/ ready /\ status = "ready"

IInv == TypeInv /\ IdsInv /\ ChildInv /\ AnswersAreOwn /\ NoServerIsForgotten
-----------------------------------------------------------------------------
(* Servers are numbered from 1.                                            *)
LEMMA ServersType == MaxServers \in Nat /\ Servers \subseteq Nat /\ 0 \notin Servers
BY ManagerAssumption DEF Servers

(* The ids that rpcServerManager.ts makes.                                 *)
LEMMA IdTypes == /\ NoId \in Id
                 /\ \A n \in Nat : InitializeId(n) \in Id /\ RequestId(n) \in Id
BY DEF Id, NoId, InitializeId, RequestId

(* Nothing runs and nothing is pending at first.                           *)
LEMMA InitIInv == Init => IInv
<1> SUFFICES ASSUME Init PROVE IInv
  OBVIOUS
<1>1. TypeInv
  BY IdTypes DEF Init, TypeInv
<1>2. \A s \in Servers : Carried(s) = {}
  BY DEF Init, Carried
<1>3. IdsInv
  BY <1>2 DEF Init, IdsInv, NoId
<1>4. AnswersAreOwn /\ NoServerIsForgotten /\ ChildInv
  BY DEF Init, AnswersAreOwn, NoServerIsForgotten, ChildInv
<1> QED BY <1>1, <1>3, <1>4 DEF IInv
-----------------------------------------------------------------------------
(* What servers do to the ids they carry. *)

(* What a server carries are ids,                                          *)
LEMMA CarriedType ==
  ASSUME TypeInv, NEW s \in Servers PROVE Carried(s) \subseteq Id
<1>1. requests[s] \in Seq(Id) /\ output[s] \in Seq(Chunk)
  BY DEF TypeInv
<1>2. \A i \in 1..Len(requests[s]) : requests[s][i] \in Id
  BY <1>1
<1>3. \A i \in 1..Len(output[s]) : output[s][i].id \in Id
  <2>1. \A i \in 1..Len(output[s]) : output[s][i] \in Chunk
    BY <1>1
  <2> QED BY <2>1 DEF Chunk
<1> QED BY <1>2, <1>3 DEF Carried

(* the same ones when no channel changes,                                  *)
LEMMA CarriedSame ==
  ASSUME UNCHANGED <<requests, output>>
  PROVE  \A s \in Servers : Carried(s)' \subseteq Carried(s)
BY DEF Carried

(* and fewer when output is read or lost.                                  *)
LEMMA OutputCut ==
  ASSUME TypeInv, NEW s \in Servers, NEW rest \in Seq(Chunk),
         \A i \in 1..Len(rest) : \E j \in 1..Len(output[s]) : rest[i] = output[s][j],
         output' = [output EXCEPT ![s] = rest], requests' = requests
  PROVE  /\ output' \in [Servers -> Seq(Chunk)]
         /\ \A t \in Servers : Carried(t)' \subseteq Carried(t)
<1>1. output' \in [Servers -> Seq(Chunk)]
  BY DEF TypeInv
<1>2. ASSUME NEW t \in Servers PROVE Carried(t)' \subseteq Carried(t)
  BY DEF TypeInv, Carried
<1> QED BY <1>1, <1>2

(* A server prints a line about one id.                                    *)
LEMMA PrintCarries ==
  ASSUME TypeInv, NEW s \in Servers, NEW id \in Id, NEW ok \in BOOLEAN,
         WriteLine(s, id, ok)
  PROVE  /\ output' \in [Servers -> Seq(Chunk)]
         /\ \A t \in Servers \ {s} : output'[t] = output[t]
         /\ \A i \in 1..Len(output'[s]) :
              \/ output'[s][i].id = id
              \/ \E j \in 1..Len(output[s]) : output'[s][i] = output[s][j]
<1>1. PICK parts \in {<<"whole">>, <<"head", "tail">>} :
        output' = [output EXCEPT ![s] = @ \o
          [n \in DOMAIN parts |-> [id |-> id, ok |-> ok, part |-> parts[n]]]]
  BY DEF WriteLine
<1> DEFINE more == [n \in DOMAIN parts |-> [id |-> id, ok |-> ok, part |-> parts[n]]]
<1>2. /\ Len(parts) \in Nat /\ DOMAIN parts = 1..Len(parts)
      /\ \A n \in 1..Len(parts) : parts[n] \in {"whole", "head", "tail"}
  <2>1. CASE parts = <<"whole">>
    BY <2>1
  <2>2. CASE parts = <<"head", "tail">>
    BY <2>2
  <2> QED BY <2>1, <2>2
<1>3. more \in Seq(Chunk) /\ \A n \in 1..Len(more) : more[n].id = id
  <2>1. \A n \in 1..Len(parts) : more[n] \in Chunk /\ more[n].id = id
    BY <1>2 DEF Chunk
  <2>2. more = [n \in 1..Len(parts) |-> more[n]]
    BY <1>2
  <2> QED BY <1>2, <2>1, <2>2
<1> HIDE DEF more
<1>4. output' = [output EXCEPT ![s] = output[s] \o more]
  BY <1>1 DEF more
<1>5. output[s] \in Seq(Chunk)
  BY DEF TypeInv
<1>6. output[s] \o more \in Seq(Chunk)
  BY <1>3, <1>5
<1>7. output' \in [Servers -> Seq(Chunk)] /\ output'[s] = output[s] \o more
  BY <1>4, <1>6 DEF TypeInv
<1>8. \A t \in Servers \ {s} : output'[t] = output[t]
  BY <1>4 DEF TypeInv
<1>9. ASSUME NEW i \in 1..Len(output[s] \o more)
      PROVE  \/ (output[s] \o more)[i].id = id
             \/ \E j \in 1..Len(output[s]) : (output[s] \o more)[i] = output[s][j]
  <2>1. CASE i <= Len(output[s])
    BY <2>1, <1>3, <1>5
  <2>2. CASE i > Len(output[s])
    <3>1. i - Len(output[s]) \in 1..Len(more)
      BY <2>2, <1>3, <1>5
    <3>2. (output[s] \o more)[i] = more[i - Len(output[s])]
      BY <2>2, <1>3, <1>5
    <3> QED BY <3>1, <3>2, <1>3
  <2> QED BY <2>1, <2>2, <1>3, <1>5
<1> QED BY <1>7, <1>8, <1>9

(* An answer is about a request that the server had.                       *)
LEMMA AnswerCarries ==
  ASSUME TypeInv, NEW s \in Servers, Answer(s)
  PROVE  /\ output' \in [Servers -> Seq(Chunk)]
         /\ requests' \in [Servers -> Seq(Id)]
         /\ \A t \in Servers : Carried(t)' \subseteq Carried(t)
<1>1. PICK ok \in BOOLEAN : WriteLine(s, Head(requests[s]), ok)
  BY DEF Answer
<1>2. requests[s] \in Seq(Id) /\ requests[s] # <<>>
  BY DEF Answer, TypeInv
<1> DEFINE id == Head(requests[s])
<1>3. id \in Id /\ id = requests[s][1] /\ 1 \in 1..Len(requests[s])
  BY <1>2
<1>4. Tail(requests[s]) \in Seq(Id)
  BY <1>2
<1>5. \A i \in 1..Len(Tail(requests[s])) :
        i + 1 \in 1..Len(requests[s]) /\ Tail(requests[s])[i] = requests[s][i + 1]
  BY <1>2
<1>6. requests' = [requests EXCEPT ![s] = Tail(requests[s])]
  BY DEF Answer
<1>7. requests' \in [Servers -> Seq(Id)]
  BY <1>4, <1>6 DEF TypeInv
<1> HIDE DEF id
<1>8. /\ output' \in [Servers -> Seq(Chunk)]
      /\ \A t \in Servers \ {s} : output'[t] = output[t]
      /\ \A i \in 1..Len(output'[s]) :
           \/ output'[s][i].id = id
           \/ \E j \in 1..Len(output[s]) : output'[s][i] = output[s][j]
  BY <1>1, <1>3, PrintCarries DEF id
<1>9. ASSUME NEW t \in Servers \ {s} PROVE Carried(t)' \subseteq Carried(t)
  BY <1>6, <1>8 DEF Carried, TypeInv
<1>10. Carried(s)' \subseteq Carried(s)
  <2>1. requests'[s] = Tail(requests[s])
    BY <1>6 DEF TypeInv
  <2>2. \A i \in 1..Len(requests'[s]) : requests'[s][i] \in Carried(s)
    BY <2>1, <1>5 DEF Carried
  <2>3. id \in Carried(s)
    BY <1>3 DEF Carried
  <2>4. \A i \in 1..Len(output'[s]) : output'[s][i].id \in Carried(s)
    BY <1>8, <2>3 DEF Carried
  <2> QED BY <2>2, <2>4 DEF Carried
<1> QED BY <1>7, <1>8, <1>9, <1>10
-----------------------------------------------------------------------------
(* What callbacks do to the callers of sendRequest. *)

Early == {"idle", "starting", "due"}

(* No call is settled by a response, and none goes back. *)
NoAnswer == \A r \in Requests :
              /\ caller'[r] \in Early => caller[r] \in Early
              /\ caller'[r] = "resolved" => caller[r] = "resolved"

(* Steps that give out no id: the ids stay with the server they were given *)
(* for.                                                                    *)
LEMMA IdsKept ==
  ASSUME IInv, UNCHANGED <<idOf, sentTo>>,
         \A r \in Requests : caller'[r] \in Early => caller[r] \in Early,
         nextRequestId' \in Nat, nextRequestId' >= nextRequestId,
         \A s \in Servers : Carried(s)' \subseteq Carried(s)
  PROVE  IdsInv'
<1>1. \A s \in Servers : \A id \in Carried(s)' : id[2] < nextRequestId'
  <2> SUFFICES ASSUME NEW s \in Servers, NEW id \in Carried(s)'
               PROVE  id[2] < nextRequestId'
    OBVIOUS
  <2>1. id \in Carried(s) /\ id[2] < nextRequestId
    BY DEF IInv, IdsInv
  <2>2. id \in Id
    BY <2>1, CarriedType DEF IInv
  <2>3. id[2] \in Nat
    BY <2>2 DEF Id
  <2> QED BY <2>1, <2>3 DEF IInv, TypeInv
<1>2. \A r \in Requests : idOf'[r][2] < nextRequestId'
  <2>1. \A r \in Requests : idOf[r][2] \in Nat
    BY DEF IInv, TypeInv, Id
  <2> QED BY <2>1 DEF IInv, IdsInv, TypeInv
<1>3. \A r \in Requests : \A s \in Servers :
        idOf'[r] # NoId /\ idOf'[r] \in Carried(s)' => s = sentTo'[r]
  BY DEF IInv, IdsInv
<1>4. \A r \in Requests : caller'[r] \in Early => idOf'[r] = NoId
  BY DEF IInv, IdsInv, Early
<1>5. \A r \in Requests : idOf'[r][1] # "initialize"
  BY DEF IInv, IdsInv
<1> QED BY <1>1, <1>2, <1>3, <1>4, <1>5 DEF IdsInv, Early

(* Every waiting caller is rejected and the server is let go.              *)
LEMMA GiveUpEffect ==
  ASSUME IInv, NEW as, GiveUp(as)
  PROVE  /\ child' \in {0} \cup Servers /\ NoAnswer /\ ChildInv'
         /\ caller' \in [Requests -> {"idle", "starting", "due", "pending",
                                      "resolved", "rejected"}]
         /\ process' \in [Servers -> {"unborn", "running", "ending", "gone"}]
         /\ \A s \in Servers : process'[s] = "running" => s \in erred
<1>1. /\ caller' \in [Requests -> {"idle", "starting", "due", "pending",
                                   "resolved", "rejected"}]
      /\ NoAnswer
  BY DEF GiveUp, Reject, IInv, TypeInv, NoAnswer, Early
<1>2. process' \in [Servers -> {"unborn", "running", "ending", "gone"}]
  BY DEF GiveUp, End, IInv, TypeInv
<1>3. \A s \in Servers : process'[s] = "running" => s \in erred
  BY DEF GiveUp, End, IInv, TypeInv, NoServerIsForgotten
<1>4. child' = 0
  BY DEF GiveUp
<1> QED BY <1>1, <1>2, <1>3, <1>4 DEF ChildInv

(* What is left to show of a callback that gives no answers and sends no   *)
(* requests. *)
LEMMA Callback ==
  ASSUME IInv, UNCHANGED <<idOf, sentTo, answeredBy>>, NoAnswer,
         nextRequestId' \in Nat, nextRequestId' >= nextRequestId,
         initializeId' \in Id, child' \in {0} \cup Servers,
         caller' \in [Requests -> {"idle", "starting", "due", "pending",
                                   "resolved", "rejected"}],
         process' \in [Servers -> {"unborn", "running", "ending", "gone"}],
         requests' \in [Servers -> Seq(Id)], output' \in [Servers -> Seq(Chunk)],
         \A s \in Servers : Carried(s)' \subseteq Carried(s),
         ChildInv', NoServerIsForgotten'
  PROVE  IInv'
<1>1. TypeInv'
  BY DEF IInv, TypeInv
<1>2. IdsInv'
  BY IdsKept DEF NoAnswer
<1>3. AnswersAreOwn'
  BY DEF IInv, AnswersAreOwn, NoAnswer
<1> QED BY <1>1, <1>2, <1>3 DEF IInv

(* Steps that do not touch the server that is held.                        *)
LEMMA ChildKept ==
  ASSUME IInv, UNCHANGED <<child, status, ready, starting, erred>> PROVE ChildInv'
BY Zenon DEF IInv, ChildInv

(* The extension stops the server.                                         *)
LEMMA StopStep == IInv /\ Stop => IInv'
<1> SUFFICES ASSUME IInv, Stop PROVE IInv'
  OBVIOUS
<1>1. NoServerIsForgotten'
  BY GiveUpEffect DEF Stop, NoServerIsForgotten
<1> QED BY <1>1, GiveUpEffect, CarriedSame, Callback DEF Stop, IInv, TypeInv

(* A caller finds a server ready, or waits for the start that is under     *)
(* way.                                                                    *)
LEMMA JoinStep ==
  ASSUME IInv, NEW r \in Requests, caller[r] = "idle", NEW to \in {"due", "starting"},
         caller' = [caller EXCEPT ![r] = to],
         UNCHANGED <<managerVars, idOf, sentTo, answeredBy, serverVars>>
  PROVE  IInv'
<1>1. NoAnswer
  BY DEF NoAnswer, Early, IInv, TypeInv
<1>2. NoServerIsForgotten'
  BY DEF NoServerIsForgotten, IInv, managerVars, serverVars
<1>3. ChildInv'
  BY ChildKept DEF managerVars, serverVars
<1> QED
  BY <1>1, <1>2, <1>3, CarriedSame, Callback
  DEF IInv, TypeInv, managerVars, serverVars

(* The process cannot be started.                                          *)
LEMMA SpawnFailsStep ==
  ASSUME IInv, NEW r \in Requests, ~IsReady, ~starting, SpawnFails(r)
  PROVE  IInv'
<1>1. NoAnswer
  BY DEF NoAnswer, Early, IInv, TypeInv, SpawnFails
<1>2. NoServerIsForgotten'
  BY DEF NoServerIsForgotten, IInv, SpawnFails, serverVars
<1>3. ChildInv'
  <2>1. child = 0 \/ child \in erred
    BY Zenon DEF IInv, ChildInv, IsReady
  <2> QED BY <2>1 DEF ChildInv, SpawnFails, serverVars
<1> QED
  BY <1>1, <1>2, <1>3, CarriedSame, Callback, IdTypes
  DEF IInv, TypeInv, SpawnFails, serverVars, FirstId

(* A server ends, with its output cut at any point.                        *)
LEMMA ExitStep == ASSUME IInv, NEW s \in Servers, Exit(s) PROVE IInv'
<1>1. PICK n \in 0..Len(output[s]) : output' = [output EXCEPT ![s] = SubSeq(@, 1, n)]
  BY DEF Exit
<1>2. output[s] \in Seq(Chunk)
  BY DEF IInv, TypeInv
<1> DEFINE rest == SubSeq(output[s], 1, n)
<1>3. /\ rest \in Seq(Chunk)
      /\ \A i \in 1..Len(rest) : i \in 1..Len(output[s]) /\ rest[i] = output[s][i]
  BY <1>2
<1> HIDE DEF rest
<1>4. output' = [output EXCEPT ![s] = rest] /\ requests' = requests
  BY <1>1 DEF rest, Exit
<1>5. /\ output' \in [Servers -> Seq(Chunk)]
      /\ \A t \in Servers : Carried(t)' \subseteq Carried(t)
  BY <1>3, <1>4, OutputCut DEF IInv
<1>6. NoServerIsForgotten'
  BY DEF NoServerIsForgotten, IInv, TypeInv, Exit, managerVars
<1>7. NoAnswer
  BY DEF NoAnswer, Exit, callerVars
<1>8. ChildInv'
  BY ChildKept DEF Exit, managerVars
<1> QED
  BY <1>5, <1>6, <1>7, <1>8, Callback DEF IInv, TypeInv, Exit, managerVars, callerVars

(* A server answers the oldest request it has.                             *)
LEMMA AnswerStep == ASSUME IInv, NEW s \in Servers, Answer(s) PROVE IInv'
<1>1. NoServerIsForgotten'
  BY DEF NoServerIsForgotten, IInv, Answer, managerVars
<1>2. NoAnswer
  BY DEF NoAnswer, Answer, callerVars
<1>3. /\ output' \in [Servers -> Seq(Chunk)] /\ requests' \in [Servers -> Seq(Id)]
      /\ \A t \in Servers : Carried(t)' \subseteq Carried(t)
  BY AnswerCarries DEF IInv
<1>4. UNCHANGED <<child, initializeId, nextRequestId, caller, idOf, sentTo,
                  answeredBy, process>>
  BY DEF Answer, managerVars, callerVars
<1>5. ChildInv'
  BY ChildKept DEF Answer, managerVars
<1> QED
  BY <1>1, <1>2, <1>3, <1>4, <1>5, Callback DEF IInv, TypeInv

(* Nonsense has no id, so that it says nothing of a request. *)
LEMMA BabbleStep == ASSUME IInv, NEW s \in Servers, Babble(s) PROVE IInv'
<1>1. /\ output' \in [Servers -> Seq(Chunk)]
      /\ \A t \in Servers \ {s} : output'[t] = output[t]
      /\ \A i \in 1..Len(output'[s]) :
           \/ output'[s][i].id = NoId
           \/ \E j \in 1..Len(output[s]) : output'[s][i] = output[s][j]
  BY PrintCarries, IdTypes DEF Babble, IInv
<1>2. UNCHANGED <<child, initializeId, nextRequestId, caller, idOf, sentTo,
                  answeredBy, process, requests, erred>>
  BY DEF Babble, managerVars, callerVars
<1>3. TypeInv'
  BY <1>1, <1>2 DEF IInv, TypeInv
<1>4. \A t \in Servers : Carried(t)' \subseteq Carried(t) \cup {NoId}
  <2>1. Carried(s)' \subseteq Carried(s) \cup {NoId}
    BY <1>1, <1>2 DEF Carried
  <2>2. ASSUME NEW t \in Servers \ {s} PROVE Carried(t)' \subseteq Carried(t)
    BY <1>1, <1>2 DEF Carried
  <2> QED BY <2>1, <2>2
<1>5. NoId[2] < nextRequestId'
  BY <1>3 DEF NoId, TypeInv
<1>6. IdsInv'
  BY <1>2, <1>4, <1>5 DEF IInv, IdsInv
<1>7. AnswersAreOwn' /\ NoServerIsForgotten'
  BY <1>2 DEF IInv, AnswersAreOwn, NoServerIsForgotten
<1>8. ChildInv'
  BY ChildKept DEF Babble, managerVars
<1> QED BY <1>3, <1>6, <1>7, <1>8 DEF IInv

(* The exit of a server reaches the manager, also of one it has replaced.  *)
LEMMA HandleExitStep ==
  ASSUME IInv, NEW s \in Servers, HandleExit(s) PROVE IInv'
<1>1. UNCHANGED <<initializeId, nextRequestId, idOf, sentTo, answeredBy,
                  requests, output, erred>>
  BY DEF HandleExit
<1>2. /\ child' \in {0} \cup Servers /\ NoAnswer
      /\ ChildInv' /\ NoServerIsForgotten'
      /\ caller' \in [Requests -> {"idle", "starting", "due", "pending",
                                   "resolved", "rejected"}]
      /\ process' \in [Servers -> {"unborn", "running", "ending", "gone"}]
  <2>1. CASE child = s /\ status = "starting" /\ FailStarting
    BY <2>1, <1>1, GiveUpEffect DEF FailStarting, NoServerIsForgotten
  <2>2. CASE /\ child = s /\ child' = 0 /\ RejectPendingRequests
             /\ UNCHANGED process
    <3>1. NoServerIsForgotten'
      BY <2>2, <1>1 DEF HandleExit, NoServerIsForgotten, IInv, TypeInv
    <3> QED
      BY <2>2, <3>1 DEF ChildInv, RejectPendingRequests, Reject, NoAnswer, Early, IInv, TypeInv
  <2>3. CASE Unheeded
    <3>1. ChildInv'
      BY <2>3, <1>1, ChildKept DEF Unheeded
    <3> QED
      BY <2>3, <1>1, <3>1 DEF Unheeded, NoAnswer, IInv, TypeInv, NoServerIsForgotten
  <2> QED BY <2>1, <2>2, <2>3 DEF HandleExit
<1> QED BY <1>1, <1>2, CarriedSame, Callback DEF IInv, TypeInv

(* So does an error of the process.                                        *)
LEMMA HandleProcessErrorStep ==
  ASSUME IInv, NEW s \in Servers, HandleProcessError(s) PROVE IInv'
<1>1. /\ UNCHANGED <<initializeId, nextRequestId, idOf, sentTo, answeredBy,
                     requests, output>>
      /\ erred \subseteq erred'
  BY DEF HandleProcessError
<1>2. /\ child' \in {0} \cup Servers /\ NoAnswer
      /\ ChildInv' /\ NoServerIsForgotten'
      /\ caller' \in [Requests -> {"idle", "starting", "due", "pending",
                                   "resolved", "rejected"}]
      /\ process' \in [Servers -> {"unborn", "running", "ending", "gone"}]
  <2>1. CASE child = s /\ status = "starting" /\ FailStarting
    BY <2>1, <1>1, GiveUpEffect DEF FailStarting, NoServerIsForgotten
  <2>2. CASE /\ child = s /\ RejectPendingRequests
             /\ UNCHANGED <<child, process>>
    <3>1. NoServerIsForgotten'
      BY <2>2, <1>1 DEF NoServerIsForgotten, IInv
    <3>2. child' \in erred'
      BY <2>2 DEF HandleProcessError
    <3> QED
      BY <2>2, <3>1, <3>2 DEF ChildInv, RejectPendingRequests, Reject, NoAnswer, Early, IInv, TypeInv
  <2>3. CASE Unheeded
    <3>1. ChildInv'
      <4>1. UNCHANGED <<child, status, ready, starting>>
        BY <2>3 DEF Unheeded
      <4> QED BY <4>1, <1>1, Zenon DEF IInv, ChildInv
    <3> QED
      BY <2>3, <1>1, <3>1 DEF Unheeded, NoAnswer, IInv, TypeInv, NoServerIsForgotten
  <2> QED BY <2>1, <2>2, <2>3 DEF HandleProcessError
<1> QED BY <1>1, <1>2, CarriedSame, Callback DEF IInv, TypeInv

(* A chunk of output is read: it may settle the caller of its id, of the   *)
(* server it was sent to.                                                  *)
LEMMA HandleStdoutStep ==
  ASSUME IInv, NEW s \in Servers, HandleStdout(s) PROVE IInv'
<1> DEFINE chunk == Head(output[s])
<1>1. output[s] \in Seq(Chunk) /\ output[s] # <<>>
  BY DEF HandleStdout, IInv, TypeInv
<1>2. /\ Tail(output[s]) \in Seq(Chunk)
      /\ \A i \in 1..Len(Tail(output[s])) :
           i + 1 \in 1..Len(output[s]) /\ Tail(output[s])[i] = output[s][i + 1]
  BY <1>1
<1>3. chunk \in Chunk /\ chunk = output[s][1] /\ 1 \in 1..Len(output[s])
  BY <1>1
<1>4. chunk.id \in Carried(s)
  BY <1>3 DEF Carried
<1> HIDE DEF chunk
<1>5. UNCHANGED <<initializeId, nextRequestId, idOf, sentTo, requests, erred>>
  BY DEF HandleStdout
<1>6. output' = [output EXCEPT ![s] = Tail(output[s])]
  BY DEF HandleStdout
<1>7. /\ output' \in [Servers -> Seq(Chunk)]
      /\ \A t \in Servers : Carried(t)' \subseteq Carried(t)
  BY <1>2, <1>5, <1>6, OutputCut DEF IInv
<1>8. CASE /\ child' \in {0} \cup Servers /\ NoAnswer
           /\ ChildInv' /\ NoServerIsForgotten'
           /\ caller' \in [Requests -> {"idle", "starting", "due", "pending",
                                        "resolved", "rejected"}]
           /\ process' \in [Servers -> {"unborn", "running", "ending", "gone"}]
           /\ UNCHANGED answeredBy
  BY <1>5, <1>7, <1>8, Callback DEF IInv, TypeInv
<1>9. CASE UNCHANGED <<child, status, ready, starting, caller, answeredBy, process>>
  <2>1. ChildInv'
    BY <1>5, <1>9, ChildKept
  <2> QED BY <1>5, <1>8, <1>9, <2>1 DEF IInv, TypeInv, NoAnswer, NoServerIsForgotten
<1>10. CASE FailStarting /\ UNCHANGED answeredBy
  BY <1>5, <1>8, <1>10, GiveUpEffect DEF FailStarting, NoServerIsForgotten
<1>11. CASE Initialized
  <2>1. NoAnswer /\ NoServerIsForgotten'
    BY <1>5, <1>11 DEF Initialized, NoAnswer, Early, NoServerIsForgotten, IInv, TypeInv
  <2>2. ChildInv'
    BY <1>11, Zenon DEF Initialized, ChildInv
  <2> QED BY <1>8, <1>11, <2>1, <2>2 DEF Initialized, IInv, TypeInv
<1>12. CASE MakesSense(chunk) /\ Settle(chunk.id, s)
  <2>1. chunk.id # NoId
    BY <1>12 DEF MakesSense
  <2> DEFINE settled == {r \in Requests : /\ idOf[r] = chunk.id
                                          /\ chunk.id \in pendingRequests
                                          /\ caller[r] = "pending"}
  <2>2. /\ caller' = [r \in Requests |-> IF r \in settled THEN "resolved"
                                         ELSE caller[r]]
        /\ answeredBy' = [r \in Requests |-> IF r \in settled THEN s
                                             ELSE answeredBy[r]]
        /\ UNCHANGED <<child, process>>
    BY <1>12 DEF Settle
  <2>3. TypeInv'
    BY <2>2, <1>5, <1>7 DEF IInv, TypeInv
  <2>4. \A r \in Requests : caller'[r] \in Early => caller[r] \in Early
    BY <2>2 DEF Early
  <2>5. IdsInv'
    BY <2>3, <2>4, <1>5, <1>7, IdsKept DEF IInv, TypeInv
  <2>6. AnswersAreOwn'
    <3> SUFFICES ASSUME NEW r \in Requests, caller'[r] = "resolved"
                 PROVE  answeredBy'[r] = sentTo'[r]
      BY DEF AnswersAreOwn
    <3>1. CASE r \in settled
      BY <3>1, <2>1, <2>2, <1>4, <1>5 DEF IInv, IdsInv
    <3>2. CASE r \notin settled
      BY <3>2, <2>2, <1>5 DEF IInv, AnswersAreOwn
    <3> QED BY <3>1, <3>2
  <2>7. NoServerIsForgotten'
    BY <2>2, <1>5 DEF IInv, NoServerIsForgotten
  <2>8. ChildInv'
    BY <1>5, <1>12, ChildKept DEF Settle
  <2> QED BY <2>3, <2>5, <2>6, <2>7, <2>8 DEF IInv
<1> QED
  BY <1>9, <1>10, <1>11, <1>12 DEF HandleStdout, HandleLine, chunk

(* The next server is one of Servers.                                      *)
LEMMA SpawnedServer ==
  ASSUME Unborn # {} PROVE 1 + Cardinality(Servers \ Unborn) \in Servers
<1>1. IsFiniteSet(Servers) /\ Cardinality(Servers) = MaxServers
  BY FS_Interval, ManagerAssumption DEF Servers
<1>2. Servers \ Unborn \subseteq Servers /\ Servers \ Unborn # Servers
  BY DEF Unborn
<1>3. /\ Cardinality(Servers \ Unborn) \in Nat
      /\ Cardinality(Servers \ Unborn) <= MaxServers
      /\ Cardinality(Servers \ Unborn) # MaxServers
  BY <1>1, <1>2, FS_Subset, FS_CardinalityType
<1> QED BY <1>3, ManagerAssumption DEF Servers

(* A new server, with the request that initializes it.                     *)
LEMMA SpawnStep ==
  ASSUME IInv, NEW r \in Requests, NEW s \in Servers, caller[r] = "idle",
         ~IsReady, ~starting, Spawn(r, s)
  PROVE  IInv'
<1> DEFINE id == InitializeId(nextRequestId)
<1>1. /\ nextRequestId \in Nat /\ nextRequestId' = nextRequestId + 1
      /\ id \in Id /\ id[1] = "initialize" /\ id[2] = nextRequestId
  BY IdTypes DEF IInv, TypeInv, Spawn, FirstId, InitializeId
<1>2. /\ requests' = [requests EXCEPT ![s] = <<id>>]
      /\ initializeId' = id /\ child' = s
      /\ UNCHANGED <<idOf, sentTo, answeredBy, output, erred>>
      /\ caller' = [caller EXCEPT ![r] = "starting"]
      /\ process' = [process EXCEPT ![s] = "running"]
  BY DEF Spawn, FirstId
<1> HIDE DEF id
<1>3. TypeInv'
  BY <1>1, <1>2 DEF IInv, TypeInv
<1>4. \A t \in Servers : Carried(t)' \subseteq Carried(t) \cup {id}
  <2>1. Carried(s)' \subseteq Carried(s) \cup {id}
    <3>1. requests'[s] = <<id>> /\ output'[s] = output[s]
      BY <1>2 DEF IInv, TypeInv
    <3> QED BY <3>1 DEF Carried
  <2>2. ASSUME NEW t \in Servers \ {s} PROVE Carried(t)' \subseteq Carried(t)
    BY <1>2 DEF Carried, IInv, TypeInv
  <2> QED BY <2>1, <2>2
<1>5. IdsInv'
  <2>1. \A t \in Servers : \A i \in Carried(t)' : i[2] < nextRequestId'
    <3> SUFFICES ASSUME NEW t \in Servers, NEW i \in Carried(t)'
                 PROVE  i[2] < nextRequestId'
      OBVIOUS
    <3>1. CASE i = id
      BY <3>1, <1>1
    <3>2. CASE i \in Carried(t)
      <4>1. i[2] \in Nat /\ i[2] < nextRequestId
        BY <3>2, CarriedType DEF IInv, IdsInv, Id
      <4> QED BY <4>1, <1>1
    <3> QED BY <3>1, <3>2, <1>4
  <2>2. \A q \in Requests : idOf'[q][2] < nextRequestId'
    <3>1. \A q \in Requests : idOf[q][2] \in Nat
      BY DEF IInv, TypeInv, Id
    <3> QED BY <3>1, <1>1, <1>2 DEF IInv, IdsInv
  <2>3. \A q \in Requests : idOf[q] # id
    BY <1>1 DEF IInv, IdsInv
  <2> QED BY <2>1, <2>2, <2>3, <1>2, <1>4 DEF IInv, IdsInv, TypeInv
<1>6. AnswersAreOwn'
  BY <1>2 DEF IInv, TypeInv, AnswersAreOwn
<1>7. NoServerIsForgotten'
  <2>1. child = 0 \/ child \in erred
    BY Zenon DEF IInv, ChildInv, IsReady
  <2> QED BY <2>1, <1>2, ServersType DEF IInv, TypeInv, NoServerIsForgotten
<1>8. ChildInv'
  <2>1. starting' = TRUE /\ status' = "starting"
    BY DEF Spawn
  <2>2. starting' /\ status' = "starting"
    BY <2>1
  <2> QED BY <2>2 DEF ChildInv
<1> QED BY <1>3, <1>5, <1>6, <1>7, <1>8 DEF IInv

(* The first request cannot be written: the start fails.                   *)
LEMMA InitializeFailsStep ==
  ASSUME IInv, NEW r \in Requests, NEW s \in Servers, caller[r] = "idle",
         ~IsReady, ~starting, InitializeFails(r, s)
  PROVE  IInv'
<1>1. NoAnswer
  BY DEF InitializeFails, NoAnswer, Early, IInv, TypeInv
<1>2. NoServerIsForgotten'
  <2>1. child = 0 \/ child \in erred
    BY Zenon DEF IInv, ChildInv, IsReady
  <2> QED
    BY <2>1, ServersType
    DEF InitializeFails, IInv, TypeInv, NoServerIsForgotten
<1>3. ChildInv' /\ child' = 0
  BY DEF InitializeFails, ChildInv
<1>4. /\ nextRequestId' \in Nat /\ nextRequestId' >= nextRequestId
      /\ initializeId' \in Id
  BY IdTypes DEF InitializeFails, FirstId, IInv, TypeInv
<1>5. UNCHANGED <<idOf, sentTo, answeredBy, requests, output>>
  BY DEF InitializeFails
<1>6. /\ caller' \in [Requests -> {"idle", "starting", "due", "pending",
                                   "resolved", "rejected"}]
      /\ process' \in [Servers -> {"unborn", "running", "ending", "gone"}]
  BY DEF InitializeFails, IInv, TypeInv
<1> QED
  BY <1>1, <1>2, <1>3, <1>4, <1>5, <1>6, CarriedSame, Callback DEF IInv, TypeInv

(* A call of sendRequest.                                                  *)
LEMMA SendRequestStep ==
  ASSUME IInv, NEW r \in Requests, SendRequest(r) PROVE IInv'
<1>1. caller[r] = "idle"
  BY DEF SendRequest
<1>2. CASE /\ caller' = [caller EXCEPT ![r] = IF IsReady THEN "due" ELSE "starting"]
           /\ UNCHANGED <<managerVars, idOf, sentTo, answeredBy, serverVars>>
  <2>1. CASE IsReady
    BY <1>1, <1>2, <2>1, JoinStep
  <2>2. CASE ~IsReady
    BY <1>1, <1>2, <2>2, JoinStep
  <2> QED BY <2>1, <2>2
<1>3. CASE /\ ~IsReady /\ ~starting /\ Unborn # {}
           /\ LET s == 1 + Cardinality(Servers \ Unborn) IN
                Spawn(r, s) \/ SpawnFails(r) \/ InitializeFails(r, s)
  BY <1>1, <1>3, SpawnedServer, SpawnStep, SpawnFailsStep, InitializeFailsStep
<1> QED BY <1>2, <1>3 DEF SendRequest

(* The request gets an id that no message and no other request has. *)
LEMMA WriteRequestStep ==
  ASSUME IInv, NEW r \in Requests, WriteRequest(r) PROVE IInv'
<1>1. /\ caller[r] = "due"
      /\ UNCHANGED <<child, status, ready, starting, initializeId, answeredBy,
                     process, output, erred>>
  BY DEF WriteRequest
<1>2. ChildInv' /\ NoServerIsForgotten'
  BY <1>1, ChildKept DEF IInv, NoServerIsForgotten
<1>3. CASE /\ caller' = [caller EXCEPT ![r] = "rejected"]
           /\ nextRequestId' \in {nextRequestId, nextRequestId + 1}
           /\ UNCHANGED <<requests, idOf, sentTo>>
  <2>1. NoAnswer
    BY <1>3 DEF NoAnswer, Early, IInv, TypeInv
  <2> QED
    BY <1>1, <1>2, <1>3, <2>1, CarriedSame, Callback DEF IInv, TypeInv
<1>4. CASE /\ child # 0 /\ nextRequestId' = nextRequestId + 1
           /\ requests' = [requests EXCEPT ![child] =
                             Append(@, RequestId(nextRequestId))]
           /\ idOf' = [idOf EXCEPT ![r] = RequestId(nextRequestId)]
           /\ sentTo' = [sentTo EXCEPT ![r] = child]
           /\ caller' = [caller EXCEPT ![r] = "pending"]
  <2> DEFINE id == RequestId(nextRequestId)
  <2>1. /\ nextRequestId \in Nat /\ id \in Id /\ id # NoId
        /\ id[1] = "request" /\ id[2] = nextRequestId
    BY IdTypes DEF IInv, TypeInv, RequestId, NoId
  <2>2. /\ child \in Servers /\ idOf' = [idOf EXCEPT ![r] = id]
        /\ requests' = [requests EXCEPT ![child] = Append(@, id)]
    BY <1>4 DEF IInv, TypeInv
  <2> HIDE DEF id
  <2>3. TypeInv'
    BY <2>1, <2>2, <1>1, <1>4 DEF IInv, TypeInv
  <2>4. \A t \in Servers \ {child} : Carried(t)' \subseteq Carried(t)
    BY <2>2, <1>1 DEF Carried, IInv, TypeInv
  <2>5. ASSUME NEW t \in Servers, t = child
        PROVE  Carried(t)' \subseteq Carried(t) \cup {id}
    <3>1. requests[t] \in Seq(Id)
      BY DEF IInv, TypeInv
    <3>2. requests'[t] = Append(requests[t], id)
      BY <2>2, <2>5 DEF IInv, TypeInv
    <3>3. \A i \in 1..Len(Append(requests[t], id)) :
            \/ Append(requests[t], id)[i] = id
            \/ i \in 1..Len(requests[t])
               /\ Append(requests[t], id)[i] = requests[t][i]
      BY <3>1, <2>1
    <3> QED BY <3>2, <3>3, <1>1 DEF Carried
  <2>14. \A t \in Servers : Carried(t)' \subseteq Carried(t) \cup {id}
    BY <2>4, <2>5
  <2>6. \A t \in Servers : \A i \in Carried(t) : i[2] \in Nat /\ i[2] < nextRequestId
    BY CarriedType DEF IInv, IdsInv, Id
  <2>7. \A q \in Requests : idOf[q][2] \in Nat /\ idOf[q][2] < nextRequestId
    BY DEF IInv, TypeInv, IdsInv, Id
  <2>8. \A t \in Servers : \A i \in Carried(t)' : i[2] < nextRequestId'
    <3> SUFFICES ASSUME NEW t \in Servers, NEW i \in Carried(t)'
                 PROVE  i[2] < nextRequestId'
      OBVIOUS
    <3>1. CASE i = id
      BY <3>1, <2>1, <1>4
    <3>2. CASE i \in Carried(t)
      BY <3>2, <2>1, <2>6, <1>4
    <3> QED BY <3>1, <3>2, <2>14
  <2>9. \A q \in Requests : idOf'[q][2] < nextRequestId' /\ idOf'[q][1] # "initialize"
    BY <2>1, <2>2, <2>7, <1>4 DEF IInv, TypeInv, IdsInv
  <2>10. ASSUME NEW q \in Requests, NEW t \in Servers,
                idOf'[q] # NoId, idOf'[q] \in Carried(t)'
         PROVE  t = sentTo'[q]
    <3>1. CASE q = r
      <4>1. idOf'[q] = id /\ sentTo'[q] = child /\ id \notin Carried(t)
        BY <3>1, <2>1, <2>2, <2>6, <1>4 DEF IInv, TypeInv
      <4> QED BY <4>1, <2>4, <2>10
    <3>2. CASE q # r
      <4>1. idOf'[q] = idOf[q] /\ sentTo'[q] = sentTo[q] /\ idOf[q] # id
        BY <3>2, <2>1, <2>2, <2>7, <1>4 DEF IInv, TypeInv
      <4>2. idOf[q] \in Carried(t)
        BY <4>1, <2>14, <2>10
      <4> QED BY <4>1, <4>2, <2>10 DEF IInv, IdsInv
    <3> QED BY <3>1, <3>2
  <2>11. \A q \in Requests : caller'[q] \in Early => idOf'[q] = NoId
    BY <2>2, <1>4 DEF IInv, TypeInv, IdsInv, Early
  <2>12. IdsInv'
    BY <2>8, <2>9, <2>10, <2>11 DEF IdsInv, Early
  <2>13. AnswersAreOwn'
    BY <1>1, <1>4 DEF IInv, TypeInv, AnswersAreOwn
  <2> QED BY <2>3, <2>12, <2>13, <1>2 DEF IInv
<1> QED BY <1>3, <1>4 DEF WriteRequest

(* Nothing happens.                                                        *)
LEMMA StutterStep == IInv /\ UNCHANGED vars => IInv'
<1> SUFFICES ASSUME IInv, UNCHANGED vars PROVE IInv'
  OBVIOUS
<1>1. /\ UNCHANGED <<child, status, ready, starting, initializeId, nextRequestId>>
      /\ UNCHANGED <<caller, idOf, sentTo, answeredBy, process, requests, output,
                     erred>>
  BY DEF vars, managerVars, callerVars, serverVars
<1>2. ChildInv' /\ NoServerIsForgotten' /\ NoAnswer
  BY <1>1, ChildKept DEF IInv, NoServerIsForgotten, NoAnswer
<1> QED BY <1>1, <1>2, CarriedSame, Callback DEF IInv, TypeInv

(* Every step keeps the invariant.                                         *)
LEMMA StepIInv == IInv /\ [Next]_vars => IInv'
BY StopStep, SendRequestStep, WriteRequestStep, HandleStdoutStep, HandleExitStep,
   HandleProcessErrorStep, AnswerStep, BabbleStep, ExitStep, StutterStep
DEF Next

(* The inductive invariant. *)
THEOREM Invariance == Spec => []IInv
BY InitIInv, StepIInv, PTL DEF Spec

(* Late output of an old server never answers a request to the new one.   *)
THEOREM AnswersAreFromTheServerAsked == Spec => []AnswersAreOwn
BY Invariance, PTL DEF IInv

(* However a server is given up, it is told to end.                        *)
THEOREM ServersAreTracked == Spec => []NoServerIsForgotten
BY Invariance, PTL DEF IInv
=============================================================================
