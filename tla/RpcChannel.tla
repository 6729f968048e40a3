------------------------------ MODULE RpcChannel ------------------------------
(***************************************************************************)
(* The JSON-RPC channel between the extension and the sidecar: one         *)
(* SidecarClient (client.ts) at one end, RpcServer (server.cpp) at the     *)
(* other, and two byte pipes between them.  The client is single threaded  *)
(* and asynchronous; the server handles one line completely before it      *)
(* reads the next.  The process may die at any moment.                     *)
(*                                                                         *)
(* The module starts where SidecarLifecycle.start returns the client, i.e. *)
(* after the "ready" notification.  A line is its request id; the payload  *)
(* and the method name are abstracted to what the server answers.          *)
(***************************************************************************)
EXTENDS Naturals, Sequences, Functions

CONSTANT MaxRequests        \* bound on the ids one client allocates

ASSUME MaxRequestsAssumption == MaxRequests \in Nat

Ids  == 1..MaxRequests
None == 0                   \* no request is being handled

VARIABLES
  nextId,      \* _nextId: the id the next request takes
  pending,     \* _pending: the ids that have a resolve/reject pair
  outcome,     \* what happened to the promise request() returned
  writeBuf,    \* lines Node has accepted but not yet written to the pipe
  toServer,    \* lines in the sidecar's stdin
  handling,    \* the request whose handler is on the stack, or None
  toClient,    \* response lines in the sidecar's stdout
  ran,         \* ran[i]: how often a handler was entered for i
  alive        \* the sidecar process exists

clientVars == <<nextId, pending, outcome>>
pipes      == <<writeBuf, toServer, toClient>>
vars       == <<clientVars, pipes, handling, ran, alive>>

ServerAnswers == {"result", "InternalError", "MethodNotFound"}
Outcomes      == ServerAnswers \cup
                 {"idle", "open", "declined", "aborted", "writeError"}
Response      == [id : Ids, kind : ServerAnswers]

Init == /\ nextId   = 1
        /\ pending  = {}
        /\ outcome  = [i \in Ids |-> "idle"]
        /\ writeBuf = <<>> /\ toServer = <<>> /\ toClient = <<>>
        /\ handling = None
        /\ ran      = [i \in Ids |-> 0]
        /\ alive    = TRUE

-----------------------------------------------------------------------------
(* The client.                                                             *)

\* A promise settles once: a second resolve or reject has no effect.
Settle(i, how) ==
  outcome' = [outcome EXCEPT ![i] = IF @ = "open" THEN how ELSE @]

\* request(): takes an id, registers the promise, hands the line to Node.
\* Nothing here looks at whether the process is still alive.
Request ==
  /\ nextId \in Ids
  /\ nextId'   = nextId + 1
  /\ pending'  = pending \cup {nextId}
  /\ outcome'  = [outcome EXCEPT ![nextId] = "open"]
  /\ writeBuf' = Append(writeBuf, nextId)
  /\ UNCHANGED <<toServer, toClient, handling, ran, alive>>

\* request() with a signal that is already aborted: the id is used up.
RequestPreAborted ==
  /\ nextId \in Ids
  /\ nextId'  = nextId + 1
  /\ outcome' = [outcome EXCEPT ![nextId] = "declined"]
  /\ UNCHANGED <<pending, pipes, handling, ran, alive>>

\* The abort listener: forget the promise and reject it.  It stays installed
\* after the request settled, when it changes nothing.
Abort(i) ==
  /\ outcome[i] \notin {"idle", "declined", "aborted"}
  /\ pending' = pending \ {i}
  /\ Settle(i, "aborted")
  /\ UNCHANGED <<nextId, pipes, handling, ran, alive>>

\* Mutant: write() without a callback.
WriteError_Unheard ==
  /\ ~alive /\ writeBuf # <<>>
  /\ writeBuf' = Tail(writeBuf)
  /\ UNCHANGED <<clientVars, toServer, toClient, handling, ran, alive>>

\* The write callback with an error: Node could not write the line, because
\* the process is gone.
WriteError ==
  /\ ~alive /\ writeBuf # <<>>
  /\ writeBuf' = Tail(writeBuf)
  /\ pending'  = pending \ {Head(writeBuf)}
  /\ Settle(Head(writeBuf), "writeError")
  /\ UNCHANGED <<nextId, toServer, toClient, handling, ran, alive>>

\* Mutant: the entry of a request that was answered stays in _pending.
OnLine_KeepsEntry ==
  /\ toClient # <<>>
  /\ toClient' = Tail(toClient)
  /\ IF Head(toClient).id \in pending
       THEN Settle(Head(toClient).id, Head(toClient).kind)
       ELSE UNCHANGED outcome
  /\ UNCHANGED <<nextId, pending, writeBuf, toServer, handling, ran, alive>>

\* The 'line' listener: a response whose id is not pending is dropped.
OnLine ==
  /\ toClient # <<>>
  /\ toClient' = Tail(toClient)
  /\ LET msg == Head(toClient) IN
       IF msg.id \in pending
         THEN /\ pending' = pending \ {msg.id}
              /\ Settle(msg.id, msg.kind)
         ELSE UNCHANGED <<pending, outcome>>
  /\ UNCHANGED <<nextId, writeBuf, toServer, handling, ran, alive>>

-----------------------------------------------------------------------------
(* The pipes and the process.                                              *)

FlushWrite ==
  /\ alive /\ writeBuf # <<>>
  /\ toServer' = Append(toServer, Head(writeBuf))
  /\ writeBuf' = Tail(writeBuf)
  /\ UNCHANGED <<clientVars, toClient, handling, ran, alive>>

\* The process dies.  What it had not read is lost, what it had written can
\* still be read.
Crash ==
  /\ alive
  /\ alive'    = FALSE
  /\ toServer' = <<>>
  /\ handling' = None
  /\ UNCHANGED <<clientVars, writeBuf, toClient, ran>>

-----------------------------------------------------------------------------
(* The server.  A handler runs on the thread that reads stdin.             *)

\* Mutant: a response overtakes those still in the pipe.
Respond_Overtakes(i, kind) == toClient' = <<[id |-> i, kind |-> kind]>> \o toClient

Respond(i, kind) == toClient' = Append(toClient, [id |-> i, kind |-> kind])

\* handle_message: no handler is registered under the method's name.
ReadUnknownMethod ==
  /\ alive /\ handling = None /\ toServer # <<>>
  /\ toServer' = Tail(toServer)
  /\ Respond(Head(toServer), "MethodNotFound")
  /\ UNCHANGED <<clientVars, writeBuf, handling, ran, alive>>

\* Mutant: the line is handled and left in the pipe.
EnterHandler_Peeks ==
  /\ alive /\ handling = None /\ toServer # <<>>
  /\ handling' = Head(toServer)
  /\ ran'      = [ran EXCEPT ![Head(toServer)] = @ + 1]
  /\ UNCHANGED <<clientVars, pipes, alive>>

\* handle_message: the handler is entered.
EnterHandler ==
  /\ alive /\ handling = None /\ toServer # <<>>
  /\ toServer' = Tail(toServer)
  /\ handling' = Head(toServer)
  /\ ran'      = [ran EXCEPT ![Head(toServer)] = @ + 1]
  /\ UNCHANGED <<clientVars, writeBuf, toClient, alive>>

\* Mutant: an exception is logged and not answered.
LeaveHandler_OnlyLogs(kind) ==
  /\ alive /\ handling # None
  /\ kind \in {"result", "InternalError"}
  /\ IF kind = "result" THEN Respond(handling, kind) ELSE UNCHANGED toClient
  /\ handling' = None
  /\ UNCHANGED <<clientVars, writeBuf, toServer, ran, alive>>

\* The handler returns a result, or throws a std::exception.
LeaveHandler(kind) ==
  /\ alive /\ handling # None
  /\ kind \in {"result", "InternalError"}
  /\ Respond(handling, kind)
  /\ handling' = None
  /\ UNCHANGED <<clientVars, writeBuf, toServer, ran, alive>>

-----------------------------------------------------------------------------

Next == \/ Request \/ RequestPreAborted
        \/ \E i \in Ids : Abort(i)
        \/ WriteError \/ OnLine
        \/ FlushWrite \/ Crash
        \/ ReadUnknownMethod \/ EnterHandler
        \/ \E kind \in {"result", "InternalError"} : LeaveHandler(kind)

Spec == Init /\ [][Next]_vars

\* Node keeps writing and reading, the server keeps reading, and a handler
\* returns (it calls compilers, whose termination is an assumption).
Fairness == /\ WF_vars(FlushWrite) /\ WF_vars(WriteError) /\ WF_vars(OnLine)
            /\ WF_vars(ReadUnknownMethod \/ EnterHandler)
            /\ WF_vars(\E kind \in {"result", "InternalError"} :
                         LeaveHandler(kind))

FairSpec == Spec /\ Fairness

-----------------------------------------------------------------------------
(* Properties.                                                             *)

\* The types client.ts and server.cpp give the variables.
TypeOK ==
  /\ nextId \in 1..(MaxRequests + 1)
  /\ pending \subseteq Ids
  /\ outcome \in [Ids -> Outcomes]
  /\ writeBuf \in Seq(Ids) /\ toServer \in Seq(Ids)
  /\ toClient \in Seq(Response)
  /\ handling \in Ids \cup {None}
  /\ ran \in [Ids -> Nat]
  /\ alive \in BOOLEAN

OpenArePending == pending = {i \in Ids : outcome[i] = "open"}

\* The variables have their types, and _pending holds exactly the promises
\* nobody settled: each of the four places that reject or resolve also deletes
\* the entry, whichever of abort, response and write error comes first
\* (client.ts:35-46, 79-89).
PendingIsOpen == TypeOK /\ OpenArePending

\* Responses arrive in request order: when a request is answered, no earlier
\* one is still waiting.  The diagnostics and panels rely on it, they take
\* the last response to be the newest (server.cpp:21-32).
AnswersInOrder ==
  \A i, j \in Ids :
    i < j /\ outcome[j] \in ServerAnswers => outcome[i] # "open"

\* The channel keeps the contract: one run, one truthful outcome per request
\* through aborts, write errors and a crash.
Contract == INSTANCE RequestContract
ImplementsContract == Contract!Spec

\* A request settles as long as the process lives: no path of the server
\* drops a request it has read (server.cpp:34-64).
SettlesWhileAlive ==
  \A i \in Ids : outcome[i] = "open" ~> (outcome[i] # "open" \/ ~alive)

\* A line Node still holds when the process is dead is rejected, not lost: so
\* is every request made on a client that outlived its process.
UnwrittenIsRejected ==
  \A i \in Ids :
    (~alive /\ i \in Range(writeBuf)) ~> (outcome[i] # "open")
=============================================================================
