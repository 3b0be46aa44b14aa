-------------------------- MODULE OrchestratorServer --------------------------
(***************************************************************************)
(* server.js: the table of executions, the requests to stop one or to ask   *)
(* for its status, and the WebSocket connections that subscribe to its      *)
(* events.  The execution itself is PipelineExecutor's.                     *)
(*                                                                         *)
(* An execution's id is random: a client can name it only after it has read *)
(* it in an answer of the server.                                           *)
(***************************************************************************)
EXTENDS Integers, FiniteSets

CONSTANTS
    Execution,      \* the ids that may be handed out
    Socket,
    NoExecution,
    MaxEvents       \* bound: the events an execution emits

VARIABLES
    serving,
    executorTable,  \* the Map `executors': the executions in it
    requests,       \* execution -> state of its request, events it has emitted
    known,          \* the ids clients have been told
    connections,    \* the Map of the sockets the server sends to
    subscription,   \* socket -> ws.executionId
    received,       \* history: the <<socket, execution>> of events delivered
    answers         \* history: what stop and status requests got

serverVars == <<serving, executorTable, requests, known, connections, subscription,
                received, answers>>

ASSUME ServerAssumption == NoExecution \notin Execution /\ MaxEvents \in Nat

RequestState == {"new", "executing", "answered", "lost"}

ServerInit ==
    /\ serving = TRUE
    /\ executorTable = {}
    /\ requests = [e \in Execution |-> [state |-> "new", events |-> 0]]
    /\ known = {}
    /\ connections = {}
    /\ subscription = [s \in Socket |-> NoExecution]
    /\ received = {}
    /\ answers = {}

\* POST /api/pipeline/execute, up to the await of execute().
PostExecute(e) ==
    /\ serving /\ requests[e].state = "new"
    /\ executorTable' = executorTable \cup {e}
    /\ requests' = [requests EXCEPT ![e].state = "executing"]
    /\ UNCHANGED <<serving, known, connections, subscription, received, answers>>

\* Who broadcast(message, e) sends to.
broadcast(e) == {s \in connections : subscription[s] = e}

\* An event of the executor, forwarded by setupExecutorEvents().
ForwardEvent(e) ==
    /\ requests[e].state = "executing" /\ requests[e].events < MaxEvents
    /\ requests' = [requests EXCEPT ![e].events = @ + 1]
    /\ received' = received \cup (broadcast(e) \X {e})
    /\ UNCHANGED <<serving, executorTable, known, connections, subscription, answers>>

\* Mutant: the entry of an answered request is not deleted.
AnswerKeepsEntry(e) ==
    /\ requests[e].state = "executing"
    /\ requests' = [requests EXCEPT ![e].state = "answered"]
    /\ known' = known \cup {e}
    /\ UNCHANGED <<serving, executorTable, connections, subscription, received, answers>>

\* execute() has returned, with a success or a failure: it does not throw, for
\* its 'error' event has a listener.
AnswerExecute(e) ==
    /\ requests[e].state = "executing"
    /\ executorTable' = executorTable \ {e}
    /\ requests' = [requests EXCEPT ![e].state = "answered"]
    /\ known' = known \cup {e}
    /\ UNCHANGED <<serving, connections, subscription, received, answers>>

Found(e) == IF e \in executorTable THEN "200" ELSE "404"

\* POST /api/pipeline/stop/:executionId; stop() lets the execution go on.
PostStop(e) ==
    /\ serving /\ e \in known
    /\ answers' = answers \cup {<<"stop", Found(e)>>}
    /\ UNCHANGED <<serving, executorTable, requests, known, connections, subscription, received>>

\* GET /api/pipeline/status/:executionId.
GetStatus(e) ==
    /\ serving /\ e \in known
    /\ answers' = answers \cup {<<"status", Found(e)>>}
    /\ UNCHANGED <<serving, executorTable, requests, known, connections, subscription, received>>

Connect(s) ==
    /\ serving /\ s \notin connections
    /\ connections' = connections \cup {s}
    /\ subscription' = [subscription EXCEPT ![s] = NoExecution]
    /\ UNCHANGED <<serving, executorTable, requests, known, received, answers>>

\* The socket closes, or has an error.
Disconnect(s) ==
    /\ s \in connections
    /\ connections' = connections \ {s}
    /\ UNCHANGED <<serving, executorTable, requests, known, subscription, received, answers>>

\* The message 'subscribe': the last one counts.
Subscribe(s, e) ==
    /\ s \in connections /\ e \in known /\ subscription[s] # e
    /\ subscription' = [subscription EXCEPT ![s] = e]
    /\ UNCHANGED <<serving, executorTable, requests, known, connections, received, answers>>

\* SIGINT: stop() and process.exit(), without waiting for any answer.
StopServer ==
    /\ serving
    /\ serving' = FALSE
    /\ executorTable' = {} /\ connections' = {}
    /\ requests' = [e \in Execution |->
           IF requests[e].state = "executing" THEN [requests[e] EXCEPT !.state = "lost"]
           ELSE requests[e]]
    /\ UNCHANGED <<known, subscription, received, answers>>

ServerNext ==
    \/ \E e \in Execution :
          \/ PostExecute(e) \/ ForwardEvent(e) \/ AnswerExecute(e)
          \/ PostStop(e) \/ GetStatus(e)
    \/ \E s \in Socket :
          \/ Connect(s) \/ Disconnect(s)
          \/ \E e \in Execution : Subscribe(s, e)
    \/ StopServer

ServerTypeOK ==
    /\ serving \in BOOLEAN
    /\ executorTable \subseteq Execution
    /\ requests \in [Execution -> [state : RequestState, events : 0..MaxEvents]]
    /\ known \subseteq Execution
    /\ connections \subseteq Socket
    /\ subscription \in [Socket -> Execution \cup {NoExecution}]
    /\ received \subseteq Socket \X Execution
    /\ answers \subseteq {"stop", "status"} \X {"200", "404"}

\* No executor leaks and none is dropped too early: through answers, stops,
\* subscriptions and the shutdown, the table holds exactly the executions whose
\* requests await their answer.  (server.js:123-155, 311-337)
TableHoldsTheUnanswered == executorTable = {e \in Execution : requests[e].state = "executing"}
=============================================================================
