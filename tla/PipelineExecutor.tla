-------------------------- MODULE PipelineExecutor --------------------------
(***************************************************************************)
(* Local execution of pipelines: class PipelineExecutor of                  *)
(* engine/pipeline-executor.js on the adapterManager of adapters/index.js.  *)
(*                                                                         *)
(* A call of execute() is a process.  Calls on one executor (the local mode *)
(* of PremiumOrchestrator) share its `running' flag and its nodeResults;    *)
(* calls on different executors (the server, index.js) share only the       *)
(* adapterManager.  Every await is a step boundary.  A node's result is     *)
(* abstracted to the call that produced it.                                 *)
(***************************************************************************)
EXTENDS TopologicalSort

CONSTANTS
    Call,           \* calls of execute()
    Executor,       \* PipelineExecutor objects
    executorOf,     \* the executor a call is made on
    Pipeline,       \* the pipelines a call may be given
    adapterOf,      \* the adapter a node needs, or NoAdapter, or NoSuchType
    Fragile,        \* nodes whose code may fail
    Unreliable,     \* adapters whose init() may fail
    Listening,      \* executors with a listener for the event 'error'
    Stoppable,      \* executors somebody calls stop() of
    NoAdapter, NoSuchType, None

\* The order in which AdapterManager.init() registers the adapters.
AdapterOrder == <<"python", "javascript", "sql">>

Node == UNION {NodeSet(p) : p \in Pipeline}

\* What buildExecutionOrder() returns for each pipeline, if it returns.
executionOrder == [p \in Pipeline |-> Sorted(p)]

ASSUME EngineAssumption ==
    /\ \A p \in Pipeline : IsGraph(p)
    /\ executorOf \in [Call -> Executor]
    /\ adapterOf \in [Node -> Range(AdapterOrder) \cup {NoAdapter, NoSuchType}]
    /\ {NoAdapter, NoSuchType, None} \cap (Call \cup Range(AdapterOrder)) = {}

VARIABLES
    running,      \* executor -> the flag `running'
    nodeResults,  \* executor -> node -> the call that stored its result, or None
    initialized,  \* adapterManager.initialized
    adapters,     \* the adapters registered
    failedInit,   \* the adapters whose registration failed, as logged
    callState,    \* call -> where it is
    pipeline,     \* call -> its argument
    position,     \* call -> adapters registered, then nodes executed
    inputData,    \* call -> what the node being executed was given
    output        \* call -> the results it returned

engineVars == <<running, nodeResults, initialized, adapters, failedInit,
                callState, pipeline, position, inputData, output>>

NoResults == [n \in Node |-> None]

InProgress(c) ==
    callState[c] \in {"registering", "initializing", "running", "awaiting", "refused"}

CallState == {"idle", "registering", "initializing", "running", "awaiting",
              "refused", "returned", "failed", "rejected", "threw"}

EngineTypeOK ==
    /\ running \in [Executor -> BOOLEAN]
    /\ nodeResults \in [Executor -> [Node -> Call \cup {None}]]
    /\ initialized \in BOOLEAN
    /\ adapters \subseteq Range(AdapterOrder)
    /\ failedInit \subseteq Unreliable
    /\ callState \in [Call -> CallState]
    /\ \A c \in Call : callState[c] = "idle" \/ pipeline[c] \in Pipeline
    /\ \A c \in Call : callState[c] \in {"running", "awaiting", "refused"} =>
          position[c] \in 0..Len(pipeline[c].nodes)

Init ==
    /\ running = [e \in Executor |-> FALSE]
    /\ nodeResults = [e \in Executor |-> NoResults]
    /\ initialized = FALSE
    /\ adapters = {}
    /\ failedInit = {}
    /\ callState = [c \in Call |-> "idle"]
    /\ pipeline = [c \in Call |-> None]
    /\ position = [c \in Call |-> 0]
    /\ inputData = [c \in Call |-> {}]
    /\ output = [c \in Call |-> NoResults]

-----------------------------------------------------------------------------
(* execute()                                                               *)

\* Mutant: the check is inside the try block, whose finally clears the flag.
RejectInTry(c) ==
    /\ callState[c] = "idle"
    /\ running[executorOf[c]]
    /\ running' = [running EXCEPT ![executorOf[c]] = FALSE]
    /\ \E p \in Pipeline : pipeline' = [pipeline EXCEPT ![c] = p]
    /\ callState' = [callState EXCEPT ![c] = "rejected"]
    /\ UNCHANGED <<nodeResults, initialized, adapters, failedInit,
                   position, inputData, output>>

\* execute() while the flag is set: 'Pipeline already running' is thrown
\* before the try block.
Reject(c) ==
    /\ callState[c] = "idle"
    /\ running[executorOf[c]]
    /\ \E p \in Pipeline : pipeline' = [pipeline EXCEPT ![c] = p]
    /\ callState' = [callState EXCEPT ![c] = "rejected"]
    /\ UNCHANGED <<running, nodeResults, initialized, adapters, failedInit,
                   position, inputData, output>>

\* Mutant: the results of the last execution are kept.
BeginKeepingResults(c) ==
    LET e == executorOf[c]
    IN  /\ callState[c] = "idle"
        /\ ~running[e]
        /\ running' = [running EXCEPT ![e] = TRUE]
        /\ \E p \in Pipeline : pipeline' = [pipeline EXCEPT ![c] = p]
        /\ callState' = [callState EXCEPT ![c] =
                            IF initialized THEN "initializing" ELSE "registering"]
        /\ UNCHANGED <<nodeResults, initialized, adapters, failedInit, position,
                       inputData, output>>

\* execute() up to the await of init(), which registers the adapters unless
\* somebody has finished doing so.
Begin(c) ==
    LET e == executorOf[c]
    IN  /\ callState[c] = "idle"
        /\ ~running[e]
        /\ running' = [running EXCEPT ![e] = TRUE]
        /\ nodeResults' = [nodeResults EXCEPT ![e] = NoResults]
        /\ \E p \in Pipeline : pipeline' = [pipeline EXCEPT ![c] = p]
        /\ callState' = [callState EXCEPT ![c] =
                            IF initialized THEN "initializing" ELSE "registering"]
        /\ UNCHANGED <<initialized, adapters, failedInit, position, inputData, output>>

\* Mutant: AdapterManager.init() sets `initialized' before it awaits.
RegisterEagerly(c) ==
    LET k == position[c] + 1
    IN  /\ callState[c] = "registering"
        /\ \/ /\ adapters' = adapters \cup {AdapterOrder[k]}
              /\ UNCHANGED failedInit
           \/ /\ AdapterOrder[k] \in Unreliable
              /\ failedInit' = failedInit \cup {AdapterOrder[k]}
              /\ UNCHANGED adapters
        /\ position' = [position EXCEPT ![c] = IF k < Len(AdapterOrder) THEN k ELSE 0]
        /\ initialized' = TRUE
        /\ callState' = [callState EXCEPT ![c] =
                            IF k < Len(AdapterOrder) THEN @ ELSE "initializing"]
        /\ UNCHANGED <<running, nodeResults, pipeline, inputData, output>>

\* AdapterManager.init(): one registerAdapter(), which catches the failure of
\* the adapter's init(); after the last one the manager is initialized.
Register(c) ==
    LET k == position[c] + 1
    IN  /\ callState[c] = "registering"
        /\ \/ /\ adapters' = adapters \cup {AdapterOrder[k]}
              /\ UNCHANGED failedInit
           \/ /\ AdapterOrder[k] \in Unreliable
              /\ failedInit' = failedInit \cup {AdapterOrder[k]}
              /\ UNCHANGED adapters
        /\ position' = [position EXCEPT ![c] = IF k < Len(AdapterOrder) THEN k ELSE 0]
        /\ initialized' = (initialized \/ k = Len(AdapterOrder))
        /\ callState' = [callState EXCEPT ![c] =
                            IF k < Len(AdapterOrder) THEN @ ELSE "initializing"]
        /\ UNCHANGED <<running, nodeResults, pipeline, inputData, output>>

\* The catch and finally blocks of execute(): emit('error') throws if nobody
\* listens, and then execute() rejects instead of returning the error.
CatchFinally(c) ==
    LET e == executorOf[c]
    IN  /\ callState' = [callState EXCEPT ![c] = IF e \in Listening THEN "failed" ELSE "threw"]
        /\ running' = [running EXCEPT ![e] = FALSE]

\* After init(): the execution order is built.
Order(c) ==
    /\ callState[c] = "initializing"
    /\ Len(executionOrder[pipeline[c]]) = Len(pipeline[c].nodes)
    /\ callState' = [callState EXCEPT ![c] = "running"]
    /\ UNCHANGED <<running, nodeResults, initialized, adapters, failedInit,
                   pipeline, position, inputData, output>>

\* After init(): 'Pipeline contains cycles'.
RejectCycle(c) ==
    /\ callState[c] = "initializing"
    /\ Len(executionOrder[pipeline[c]]) # Len(pipeline[c].nodes)
    /\ CatchFinally(c)
    /\ UNCHANGED <<nodeResults, initialized, adapters, failedInit,
                   pipeline, position, inputData, output>>

\* The positions of the connections to n.
Into(p, n) == {k \in DOMAIN p.connections : p.connections[k].to = n}

\* The node call c executes next, or is executing.
CurrentNode(c) == executionOrder[pipeline[c]][position[c] + 1]

\* getNodeInput(): the result of the source of the first connection to n, as a
\* set of at most one source with the call that stored its result.
GetNodeInput(e, p, n) ==
    {<<p.connections[k].from, nodeResults[e][p.connections[k].from]>> :
        k \in {k \in Into(p, n) : \A l \in Into(p, n) : k <= l}}

\* Is there code to execute node n?  Otherwise getAdapter() or the default
\* branch of executeNode() throws.
Executable(n) == adapterOf[n] \in adapters \cup {NoAdapter}

\* executeNode() up to the await of the node's code, or of the rejected promise
\* of a node that has none.
StartNode(c) ==
    LET n == CurrentNode(c)
    IN  /\ callState[c] = "running"
        /\ position[c] < Len(pipeline[c].nodes)
        /\ inputData' = [inputData EXCEPT ![c] =
                            GetNodeInput(executorOf[c], pipeline[c], n)]
        /\ callState' = [callState EXCEPT ![c] =
                            IF Executable(n) THEN "awaiting" ELSE "refused"]
        /\ UNCHANGED <<running, nodeResults, initialized, adapters, failedInit,
                       pipeline, position, output>>

\* The node's code returned a result.
FinishNode(c) ==
    LET n == CurrentNode(c)
    IN  /\ callState[c] = "awaiting"
        /\ nodeResults' = [nodeResults EXCEPT ![executorOf[c]][n] = c]
        /\ position' = [position EXCEPT ![c] = @ + 1]
        /\ inputData' = [inputData EXCEPT ![c] = {}]
        /\ callState' = [callState EXCEPT ![c] = "running"]
        /\ UNCHANGED <<running, initialized, adapters, failedInit, pipeline, output>>

\* Mutant: a failing node is retried.
FailNodeRetries(c) ==
    /\ \/ callState[c] = "refused"
       \/ callState[c] = "awaiting" /\ CurrentNode(c) \in Fragile
    /\ callState' = [callState EXCEPT ![c] = "running"]
    /\ inputData' = [inputData EXCEPT ![c] = {}]
    /\ UNCHANGED <<running, nodeResults, initialized, adapters, failedInit,
                   pipeline, position, output>>

\* A node fails, and with it the pipeline.
FailNode(c) ==
    /\ \/ callState[c] = "refused"
       \/ callState[c] = "awaiting" /\ CurrentNode(c) \in Fragile
    /\ CatchFinally(c)
    /\ inputData' = [inputData EXCEPT ![c] = {}]
    /\ UNCHANGED <<nodeResults, initialized, adapters, failedInit,
                   pipeline, position, output>>

\* The last node is done: the results are returned.
Complete(c) ==
    LET e == executorOf[c]
    IN  /\ callState[c] = "running"
        /\ position[c] = Len(pipeline[c].nodes)
        /\ output' = [output EXCEPT ![c] = nodeResults[e]]
        /\ running' = [running EXCEPT ![e] = FALSE]
        /\ callState' = [callState EXCEPT ![c] = "returned"]
        /\ UNCHANGED <<nodeResults, initialized, adapters, failedInit,
                       pipeline, position, inputData>>

\* stop(): clears the flag and announces that the pipeline is stopped.
Stop(e) ==
    /\ e \in Stoppable
    /\ running[e]
    /\ running' = [running EXCEPT ![e] = FALSE]
    /\ UNCHANGED <<nodeResults, initialized, adapters, failedInit, callState,
                   pipeline, position, inputData, output>>

Continue(c) ==
    \/ Register(c) \/ Order(c) \/ RejectCycle(c)
    \/ StartNode(c) \/ FinishNode(c) \/ FailNode(c) \/ Complete(c)

Next ==
    \/ \E c \in Call : Reject(c) \/ Begin(c) \/ Continue(c)
    \/ \E e \in Executor : Stop(e)

\* Awaited promises settle, and their continuations run.
EngineFairness == \A c \in Call : WF_engineVars(Continue(c))

Spec == Init /\ [][Next]_engineVars /\ EngineFairness

-----------------------------------------------------------------------------
(* Properties.                                                             *)

\* 'Pipeline already running': an executor executes one pipeline at a time.
ExclusiveExecution ==
    \A c, d \in Call :
        executorOf[c] = executorOf[d] /\ InProgress(c) /\ InProgress(d) => c = d

\* A rejected or failed call does not disturb the one that is running, and the
\* flag is never left behind: as long as nobody calls stop() of an executor, it
\* runs one pipeline at a time and accepts the next one when that has ended.
ExclusiveUnlessStopped ==
    \A e \in Executor \ Stoppable :
        /\ running[e] <=> \E c \in Call : executorOf[c] = e /\ InProgress(c)
        /\ \A c, d \in Call : executorOf[c] = e /\ executorOf[d] = e
                              /\ InProgress(c) /\ InProgress(d) => c = d

\* As long as nobody calls stop(), a node is given the result that the source
\* of its first connection produced in the same execution, however executions
\* follow each other; a node without a connection is given nothing.
InputsAreOwn ==
    \A c \in Call : callState[c] \in {"awaiting", "refused"} /\ executorOf[c] \notin Stoppable =>
        /\ \A s \in inputData[c] : s[2] = c
        /\ inputData[c] = {} <=> Into(pipeline[c], CurrentNode(c)) = {}

\* As long as nobody calls stop(), a successful execution returns a result for
\* each node of its pipeline, all produced by itself, and no other result.
SuccessIsOwn ==
    \A c \in Call : callState[c] = "returned" /\ executorOf[c] \notin Stoppable =>
        output[c] = [n \in Node |-> IF n \in NodeSet(pipeline[c]) THEN c ELSE None]

\* 'Unknown adapter type' is thrown for an adapter of the manager only if its
\* initialization failed, never because another call is still initializing it.
MissingMeansFailed ==
    \A c \in Call :
        callState[c] = "refused" /\ adapterOf[CurrentNode(c)] \in Range(AdapterOrder) =>
            adapterOf[CurrentNode(c)] \in failedInit

\* Every execution that begins ends, whatever fails and whoever calls stop().
ExecutionsEnd == \A c \in Call : InProgress(c) ~> ~InProgress(c)
=============================================================================
