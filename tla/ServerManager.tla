--------------------------- MODULE ServerManager ---------------------------
(***************************************************************************)
(* The extension's view of its server processes: RpcServerManager of       *)
(* vscode/extension/src/rpcServer.ts.  It starts a server when a request   *)
(* needs one, initializes it, matches responses with requests by their     *)
(* ids, and gives a server up when it exits, fails, talks nonsense or is   *)
(* stopped.  Each callback runs to its end, but callbacks of an old server *)
(* (late output, its exit) come in among those of its successor.           *)
(***************************************************************************)
EXTENDS Integers, Sequences, FiniteSets

CONSTANTS
  Requests,     \* the calls of sendRequest
  MaxServers,   \* bound: servers ever spawned
  MaxOutput     \* bound: chunks a server has written and nobody read

ASSUME ManagerAssumption ==
  IsFiniteSet(Requests) /\ MaxServers \in Nat /\ MaxOutput \in Nat \ {0}

Servers == 1..MaxServers

VARIABLES
  child,            \* the current server, 0 for none
  status,           \* currentStatus
  ready,            \* readyState is set
  starting,         \* startPromise is there, with resolveStart, rejectStart
  intentionalStop,
  initializeId,     \* initializeRequestId
  nextRequestId,
  pendingRequests,  \* ids that wait for their response
  buffer,           \* stdoutBuffer: chunks without a newline
  \* the callers of sendRequest
  caller,           \* how far each call is
  idOf,             \* the id it was sent with
  sentTo,           \* the server it was written to
  answeredBy,       \* the server whose response settled it
  \* the server processes
  process, requests, output, noticed,
  erred             \* history: servers that reported an error

managerVars == <<child, status, ready, starting, intentionalStop,
                 initializeId, nextRequestId, pendingRequests, buffer>>
callerVars  == <<caller, idOf, sentTo, answeredBy>>
serverVars  == <<process, requests, output, noticed, erred>>
vars == <<managerVars, callerVars, serverVars>>

InitializeId(n) == <<"initialize", n>>
RequestId(n)    == <<"request", n>>
NoId            == <<"none", 0>>

Init ==
  /\ child = 0 /\ status = "stopped" /\ ready = FALSE /\ starting = FALSE
  /\ intentionalStop = FALSE /\ initializeId = NoId /\ nextRequestId = 1
  /\ pendingRequests = {} /\ buffer = <<>>
  /\ caller = [r \in Requests |-> "idle"]
  /\ idOf = [r \in Requests |-> NoId]
  /\ sentTo = [r \in Requests |-> 0] /\ answeredBy = [r \in Requests |-> 0]
  /\ process = [s \in Servers |-> "unborn"]
  /\ requests = [s \in Servers |-> <<>>]
  /\ output = [s \in Servers |-> <<>>]
  /\ noticed = [s \in Servers |-> FALSE] /\ erred = {}
-----------------------------------------------------------------------------
(* What a call of sendRequest becomes when the start it waits for, or the  *)
(* response, comes to nothing.                                             *)
Reject(states) ==
  caller' = [r \in Requests |-> IF caller[r] \in states THEN "rejected"
                                ELSE caller[r]]

(* Mutant: the requests are forgotten, and their callers wait on. *)
ForgetPendingRequests == pendingRequests' = {} /\ UNCHANGED caller

RejectPendingRequests == pendingRequests' = {} /\ Reject({"pending"})

(* Mutant: the child is forgotten before it is ended. *)
EndForgotten(s) == UNCHANGED process

(* child.stdin.end, child.kill: of a server that may be gone already.      *)
End(s) ==
  process' = [t \in Servers |-> IF t = s /\ process[t] = "running" THEN "ending"
                               ELSE process[t]]

(* The current server, if there is one, is given up, and who waits for it. *)
GiveUp(as) ==
  /\ starting' = FALSE /\ ready' = FALSE /\ status' = as
  /\ pendingRequests' = {} /\ Reject({"starting", "pending"})
  /\ child' = 0 /\ End(child) /\ intentionalStop' = TRUE

FailStarting == GiveUp("failed")

Stop ==
  /\ GiveUp("stopped")
  /\ UNCHANGED <<initializeId, nextRequestId, buffer, idOf, sentTo,
                 answeredBy, requests, output, noticed, erred>>
-----------------------------------------------------------------------------
(* start: who calls it goes on at once, waits with the others, or spawns.  *)
IsReady == ready /\ status = "ready"
Unborn  == {s \in Servers : process[s] = "unborn"}

(* Mutant: the ids begin again with every server. *)
FirstIdAgain == 1

(* The ids of a new server go on where those of the last one ended. *)
FirstId == nextRequestId

(* The new server is given the request to initialize. *)
Spawn(r, s) ==
  /\ child' = s /\ status' = "starting" /\ starting' = TRUE
  /\ intentionalStop' = FALSE /\ buffer' = <<>>
  /\ initializeId' = InitializeId(FirstId)
  /\ nextRequestId' = FirstId + 1
  /\ process' = [process EXCEPT ![s] = "running"]
  /\ requests' = [requests EXCEPT ![s] = <<InitializeId(FirstId)>>]
  /\ caller' = [caller EXCEPT ![r] = "starting"]
  /\ UNCHANGED <<ready, pendingRequests, idOf, sentTo, answeredBy, output,
                 noticed, erred>>

(* spawn throws: the last server, if there is one, stays. *)
SpawnFails(r) ==
  /\ status' = "failed" /\ intentionalStop' = FALSE /\ buffer' = <<>>
  /\ initializeId' = InitializeId(FirstId)
  /\ nextRequestId' = FirstId + 1
  /\ caller' = [caller EXCEPT ![r] = "rejected"]
  /\ UNCHANGED <<child, ready, starting, pendingRequests, idOf, sentTo,
                 answeredBy, serverVars>>

(* The request to initialize cannot be written: failStarting has cleared   *)
(* the promise that start then returns, so that its caller goes on.        *)
InitializeFails(r, s) ==
  /\ child' = 0 /\ status' = "failed" /\ ready' = FALSE
  /\ intentionalStop' = TRUE /\ buffer' = <<>>
  /\ initializeId' = InitializeId(FirstId)
  /\ nextRequestId' = FirstId + 1 /\ pendingRequests' = {}
  /\ process' = [process EXCEPT ![s] = "ending"]
  /\ caller' = [caller EXCEPT ![r] = "due"]
  /\ UNCHANGED <<starting, idOf, sentTo, answeredBy, requests, output,
                 noticed, erred>>

Due == \E r \in Requests : caller[r] = "due"

(* sendRequest, up to its await. *)
SendRequest(r) ==
  /\ caller[r] = "idle"
  /\ \/ /\ IsReady \/ starting
        /\ caller' = [caller EXCEPT ![r] = IF IsReady THEN "due" ELSE "starting"]
        /\ UNCHANGED <<managerVars, idOf, sentTo, answeredBy, serverVars>>
     \/ /\ ~IsReady /\ ~starting /\ Unborn # {}
        /\ LET s == 1 + Cardinality(Servers \ Unborn) IN
             Spawn(r, s) \/ SpawnFails(r) \/ InitializeFails(r, s)

(* sendRequest, after its await. *)
WriteRequest(r) ==
  /\ caller[r] = "due"
  /\ \/ /\ child # 0 /\ status = "ready"
        /\ nextRequestId' = nextRequestId + 1
        /\ \/ /\ pendingRequests' = pendingRequests \cup {RequestId(nextRequestId)}
              /\ requests' = [requests EXCEPT ![child] =
                                Append(@, RequestId(nextRequestId))]
              /\ idOf' = [idOf EXCEPT ![r] = RequestId(nextRequestId)]
              /\ sentTo' = [sentTo EXCEPT ![r] = child]
              /\ caller' = [caller EXCEPT ![r] = "pending"]
           \/ /\ caller' = [caller EXCEPT ![r] = "rejected"]  \* write throws
              /\ UNCHANGED <<pendingRequests, requests, idOf, sentTo>>
     \/ /\ child = 0 \/ status # "ready"
        /\ caller' = [caller EXCEPT ![r] = "rejected"]
        /\ UNCHANGED <<nextRequestId, pendingRequests, requests, idOf, sentTo>>
  /\ UNCHANGED <<child, status, ready, starting, intentionalStop, initializeId,
                 buffer, answeredBy, process, output, noticed, erred>>
-----------------------------------------------------------------------------
(* The output of servers. *)

(* A line is complete when its newline comes, and makes sense when what    *)
(* precedes it is its own beginning.                                       *)
Complete(chunk) == chunk.part # "head"
MakesSense(chunk) ==
  /\ chunk.id # NoId
  /\ buffer = IF chunk.part = "whole" THEN <<>>
              ELSE <<[chunk EXCEPT !.part = "head"]>>

Initialized ==
  /\ ready' = TRUE /\ status' = "ready" /\ starting' = FALSE
  /\ caller' = [r \in Requests |-> IF caller[r] = "starting" THEN "due"
                                   ELSE caller[r]]
  /\ UNCHANGED <<child, intentionalStop, pendingRequests, answeredBy, process>>

(* handleRequestResponse: nobody may wait for it any more. *)
Settle(id, s) ==
  /\ pendingRequests' = pendingRequests \ {id}
  /\ LET settled == {r \in Requests : idOf[r] = id /\ id \in pendingRequests
                                      /\ caller[r] = "pending"} IN
       /\ caller' = [r \in Requests |-> IF r \in settled THEN "resolved"
                                        ELSE caller[r]]
       /\ answeredBy' = [r \in Requests |-> IF r \in settled THEN s
                                            ELSE answeredBy[r]]
  /\ UNCHANGED <<child, status, ready, starting, intentionalStop, process>>

(* handleStdoutLine *)
HandleLine(chunk, s) ==
  \/ /\ ~MakesSense(chunk) /\ FailStarting /\ UNCHANGED answeredBy
  \/ /\ MakesSense(chunk) /\ chunk.id = initializeId
     /\ IF chunk.ok THEN Initialized ELSE FailStarting /\ UNCHANGED answeredBy
  \/ /\ MakesSense(chunk) /\ chunk.id # initializeId /\ Settle(chunk.id, s)

(* handleStdoutData: of any server, however old. *)
HandleStdout(s) ==
  /\ output[s] # <<>>
  /\ output' = [output EXCEPT ![s] = Tail(@)]
  /\ LET chunk == Head(output[s]) IN
       IF Complete(chunk) THEN HandleLine(chunk, s) /\ buffer' = <<>>
       ELSE /\ buffer' = Append(buffer, chunk)
            /\ UNCHANGED <<child, status, ready, starting, intentionalStop,
                           pendingRequests, caller, answeredBy, process>>
  /\ UNCHANGED <<initializeId, nextRequestId, idOf, sentTo, requests, noticed,
                 erred>>

(* What an old server tells changes nothing. *)
Unheeded == UNCHANGED <<child, status, ready, starting, intentionalStop,
                        pendingRequests, caller, process>>

(* handleExit: Node tells of it once, maybe before the last output. *)
HandleExit(s) ==
  /\ process[s] = "gone" /\ ~noticed[s] /\ ~Due
  /\ noticed' = [noticed EXCEPT ![s] = TRUE]
  /\ \/ /\ child = s /\ status = "starting" /\ FailStarting
     \/ /\ child = s /\ status # "starting"
        /\ child' = 0 /\ ready' = FALSE
        /\ RejectPendingRequests
        /\ status' = IF intentionalStop /\ status # "failed" THEN "stopped"
                     ELSE IF status = "stopped" THEN status ELSE "failed"
        /\ UNCHANGED <<starting, intentionalStop, process>>
     \/ child # s /\ Unheeded
  /\ UNCHANGED <<initializeId, nextRequestId, buffer, idOf, sentTo, answeredBy,
                 requests, output, erred>>

(* handleProcessError *)
HandleProcessError(s) ==
  /\ process[s] \notin {"unborn", "gone"} /\ s \notin erred /\ ~Due
  /\ erred' = erred \cup {s}
  /\ \/ child = s /\ status = "starting" /\ FailStarting
     \/ /\ child = s /\ status # "starting"
        /\ ready' = FALSE /\ status' = "failed"
        /\ RejectPendingRequests
        /\ UNCHANGED <<child, starting, intentionalStop, process>>
     \/ child # s /\ Unheeded
  /\ UNCHANGED <<initializeId, nextRequestId, buffer, idOf, sentTo, answeredBy,
                 requests, output, noticed>>
-----------------------------------------------------------------------------
(* The servers: requests are answered in order, while they run. *)
WriteLine(s, id, ok) ==
  \E parts \in {<<"whole">>, <<"head", "tail">>} :
    output' = [output EXCEPT ![s] = @ \o
      [n \in DOMAIN parts |-> [id |-> id, ok |-> ok, part |-> parts[n]]]]

Answer(s) ==
  /\ process[s] \in {"running", "ending"}
  /\ requests[s] # <<>> /\ Len(output[s]) < MaxOutput
  /\ requests' = [requests EXCEPT ![s] = Tail(@)]
  /\ \E ok \in BOOLEAN : WriteLine(s, Head(requests[s]), ok)
  /\ UNCHANGED <<managerVars, callerVars, process, noticed, erred>>

(* A message of a library on stdout. *)
Babble(s) ==
  /\ process[s] \in {"running", "ending"} /\ output[s] = <<>>
  /\ WriteLine(s, NoId, FALSE)
  /\ UNCHANGED <<managerVars, callerVars, process, requests, noticed, erred>>

(* In the middle of a line, too: what follows is lost. *)
Exit(s) ==
  /\ process[s] \in {"running", "ending"}
  /\ process' = [process EXCEPT ![s] = "gone"]
  /\ \E n \in 0..Len(output[s]) : output' = [output EXCEPT ![s] = SubSeq(@, 1, n)]
  /\ UNCHANGED <<managerVars, callerVars, requests, noticed, erred>>

Next ==
  \/ Stop
  \/ \E r \in Requests : SendRequest(r) \/ WriteRequest(r)
  \/ \E s \in Servers :
       \/ HandleStdout(s) \/ HandleExit(s) \/ HandleProcessError(s)
       \/ Answer(s) \/ Babble(s) \/ Exit(s)

Spec == Init /\ [][Next]_vars

(* Node runs every callback.  A server answers what it was sent, as        *)
(* RequestsAreHandled of StdioLoop says, or it exits; one that was told to *)
(* end does end.                                                           *)
Fairness ==
  /\ \A r \in Requests : WF_vars(WriteRequest(r))
  /\ \A s \in Servers :
       /\ WF_vars(HandleStdout(s)) /\ WF_vars(HandleExit(s))
       /\ WF_vars(Answer(s))
       /\ WF_vars(process[s] = "ending" /\ Exit(s))

FairSpec == Spec /\ Fairness
-----------------------------------------------------------------------------
(* Properties. *)

(* A request is answered by the server it was sent to, however long the    *)
(* output of a server that was stopped, failed or replaced goes on         *)
(* (handleRequestResponse, nextRequestId).                                 *)
AnswersAreOwn ==
  \A r \in Requests : caller[r] = "resolved" => answeredBy[r] = sentTo[r]

(* No server is left running unknown to the manager, by whatever way it    *)
(* was given up: it is the current one or was told to end (stop,           *)
(* failStarting).  Servers that reported an error stay (handleProcessError). *)
NoServerIsForgotten ==
  \A s \in Servers : process[s] = "running" => s = child \/ s \in erred

(* Every request comes to its end, also when its server is stopped, exits, *)
(* fails, or is replaced, or when late output makes the manager take a     *)
(* server for ready that is gone (docs/vscode-extension.md: pending        *)
(* requests are rejected when the server stops, exits or fails).           *)
RequestsSettle ==
  \A r \in Requests :
    caller[r] # "idle" ~> caller[r] \in {"resolved", "rejected"}
=============================================================================
