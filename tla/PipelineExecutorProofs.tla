----------------------- MODULE PipelineExecutorProofs -----------------------
(***************************************************************************)
(* Theorems about PipelineExecutor for any calls, executors and pipelines, *)
(* whatever fails.                                                         *)
(***************************************************************************)
EXTENDS PipelineExecutor, TopologicalSortProofs

-----------------------------------------------------------------------------
(* The inductive invariant.                                                *)

\* The Maps of the calls have an entry for every call.
MapsTypeOK ==
    /\ callState \in [Call -> CallState]
    /\ pipeline = [c \in Call |-> pipeline[c]]
    /\ position \in [Call -> Nat]
    /\ inputData = [c \in Call |-> inputData[c]]
    /\ output = [c \in Call |-> output[c]]

\* How far call c is: position counts the adapters it has registered, and then
\* the nodes of its order, which is complete.
Progress(c) ==
    /\ callState[c] \in {"idle", "initializing"} => position[c] = 0
    /\ callState[c] = "registering" => position[c] \in 0..2
    /\ callState[c] \in {"running", "awaiting", "refused"} =>
         Len(executionOrder[pipeline[c]]) = Len(pipeline[c].nodes)
    /\ callState[c] \in {"awaiting", "refused"} =>
         position[c] < Len(pipeline[c].nodes)

\* An adapter whose turn has passed is registered or has failed: after init()
\* all, and during it those the call has come to.
AdaptersTried(c) ==
    /\ callState[c] = "registering" =>
         \A k \in 1..position[c] : AdapterOrder[k] \in adapters \cup failedInit
    /\ callState[c] \in {"initializing", "running", "awaiting", "refused"} =>
         initialized

AllTried == initialized => Range(AdapterOrder) \subseteq adapters \cup failedInit

\* The nodes call c has executed.
Done(c) == {executionOrder[pipeline[c]][k] : k \in 1..position[c]}

\* Unless somebody calls stop(), the results of an executor are those of the
\* call in progress, one of every node it has executed.
OwnResults(c) ==
    executorOf[c] \notin Stoppable =>
      /\ callState[c] \in {"registering", "initializing"} =>
           nodeResults[executorOf[c]] = NoResults
      /\ callState[c] \in {"running", "awaiting", "refused"} =>
           nodeResults[executorOf[c]] =
             [n \in Node |-> IF n \in Done(c) THEN c ELSE None]

TypesInv == EngineTypeOK /\ MapsTypeOK /\ \A c \in Call : Progress(c)

AdaptersInv ==
    /\ AllTried /\ MissingMeansFailed
    /\ \A c \in Call : AdaptersTried(c)

ResultsInv ==
    /\ ExclusiveUnlessStopped
    /\ \A c \in Call : OwnResults(c)

EngineInv == TypesInv /\ AdaptersInv /\ ResultsInv /\ InputsAreOwn /\ SuccessIsOwn
-----------------------------------------------------------------------------
(* Orders and steps.                                                       *)

\* A complete order has every node once, sources first.
LEMMA CompleteOrder ==
    ASSUME NEW p \in Pipeline, Len(executionOrder[p]) = Len(p.nodes)
    PROVE  LET o == executionOrder[p]
           IN  /\ Len(p.nodes) \in Nat
               /\ o \in Seq(Node) /\ DOMAIN o = 1..Len(p.nodes)
               /\ \A x, y \in DOMAIN o : o[x] = o[y] => x = y
               /\ Range(o) = NodeSet(p)
               /\ SourcesBefore(p, o)
<1> DEFINE o == executionOrder[p]
<1>1. IsGraph(p) /\ o = Sorted(p)
  BY EngineAssumption DEF executionOrder
<1>2. /\ o \in Seq(NodeSet(p))
      /\ \A x, y \in DOMAIN o : o[x] = o[y] => x = y
      /\ SourcesBefore(p, o)
      /\ Range(o) = NodeSet(p)
  BY <1>1, SortedIsTopological
<1>3. NodeSet(p) \subseteq Node
  BY DEF Node
<1> HIDE DEF o
<1>4. o \in Seq(Node) /\ DOMAIN o = 1..Len(o) /\ Len(o) \in Nat
  BY <1>2, <1>3
<1>5. QED
  BY <1>2, <1>4 DEF o

\* The step c takes by itself: execute() is called or goes on.
CallStep(c) == Reject(c) \/ Begin(c) \/ Continue(c)

\* Such a step leaves the Maps of the other calls alone.
OtherCalls(c) ==
    \A d \in Call \ {c} :
        /\ callState'[d] = callState[d]
        /\ pipeline'[d] = pipeline[d]
        /\ position'[d] = position[d]
        /\ inputData'[d] = inputData[d]
        /\ output'[d] = output[d]

LEMMA StepMaps ==
    ASSUME EngineTypeOK, MapsTypeOK, NEW c \in Call, CallStep(c)
    PROVE  MapsTypeOK' /\ OtherCalls(c)
<1> USE DEF MapsTypeOK, OtherCalls, CallState
<1>1. CASE Reject(c)
  BY <1>1 DEF Reject
<1>2. CASE Begin(c)
  BY <1>2 DEF Begin
<1>3. CASE Register(c)
  BY <1>3 DEF Register
<1>4. CASE Order(c) \/ RejectCycle(c)
  BY <1>4 DEF Order, RejectCycle, CatchFinally
<1>5. CASE StartNode(c)
  BY <1>5 DEF StartNode
<1>6. CASE FinishNode(c)
  <2>1. /\ position' = [position EXCEPT ![c] = position[c] + 1]
        /\ inputData' = [inputData EXCEPT ![c] = {}]
        /\ callState' = [callState EXCEPT ![c] = "running"]
        /\ UNCHANGED <<pipeline, output>>
    BY <1>6 DEF FinishNode
  <2>2. position[c] + 1 \in Nat
    OBVIOUS
  <2>3. QED
    BY <2>1, <2>2
<1>7. CASE FailNode(c)
  BY <1>7 DEF FailNode, CatchFinally
<1>8. CASE Complete(c)
  BY <1>8 DEF Complete
<1>9. QED
  BY <1>1, <1>2, <1>3, <1>4, <1>5, <1>6, <1>7, <1>8 DEF CallStep, Continue
-----------------------------------------------------------------------------
(* Type correctness.                                                       *)

\* The part of TypesInv about one call.
CallTypeOK(c) ==
    /\ callState[c] = "idle" \/ pipeline[c] \in Pipeline
    /\ callState[c] \in {"running", "awaiting", "refused"} =>
          position[c] \in 0..Len(pipeline[c].nodes)
    /\ Progress(c)

\* The part about the executors and the adapters.
SharedTypeOK ==
    /\ running \in [Executor -> BOOLEAN]
    /\ nodeResults \in [Executor -> [Node -> Call \cup {None}]]
    /\ initialized \in BOOLEAN
    /\ adapters \subseteq Range(AdapterOrder)
    /\ failedInit \subseteq Unreliable

LEMMA TypesPerCall ==
    TypesInv <=> MapsTypeOK /\ SharedTypeOK /\ \A c \in Call : CallTypeOK(c)
BY DEF TypesInv, EngineTypeOK, MapsTypeOK, SharedTypeOK, CallTypeOK

\* A call in progress has a pipeline with a number of nodes.
LEMMA PipelineOf ==
    ASSUME TypesInv, NEW c \in Call, callState[c] # "idle"
    PROVE  pipeline[c] \in Pipeline /\ Len(pipeline[c].nodes) \in Nat
<1>1. pipeline[c] \in Pipeline
  BY DEF TypesInv, EngineTypeOK
<1>2. IsGraph(pipeline[c])
  BY <1>1, EngineAssumption
<1>3. QED
  BY <1>1, <1>2 DEF IsGraph

\* The adapters are three.
LEMMA ThreeAdapters ==
    /\ Len(AdapterOrder) = 3
    /\ \A k \in 1..3 : AdapterOrder[k] \in Range(AdapterOrder)
    /\ \A a \in Range(AdapterOrder) : \E k \in 1..3 : AdapterOrder[k] = a
<1>1. Len(AdapterOrder) = 3 /\ DOMAIN AdapterOrder = 1..3
  BY DEF AdapterOrder
<1>2. QED
  BY <1>1 DEF Range

LEMMA StepTypes ==
    ASSUME TypesInv, NEW c \in Call, CallStep(c)
    PROVE  TypesInv'
<1>1. MapsTypeOK' /\ OtherCalls(c)
  BY StepMaps DEF TypesInv
<1>2. EngineTypeOK /\ MapsTypeOK /\ \A d \in Call : CallTypeOK(d)
  BY TypesPerCall DEF TypesInv
<1>3. executorOf[c] \in Executor /\ callState[c] \in CallState /\ position[c] \in Nat
  BY <1>2, EngineAssumption DEF MapsTypeOK
<1>4. SUFFICES SharedTypeOK' /\ CallTypeOK(c)'
  <2>1. \A d \in Call \ {c} : CallTypeOK(d)'
    BY <1>1, <1>2 DEF OtherCalls, CallTypeOK, Progress
  <2>2. QED
    BY <1>1, <1>4, <2>1
    DEF TypesInv, EngineTypeOK, MapsTypeOK, SharedTypeOK, CallTypeOK
<1>5. CASE Reject(c)
  <2>1. callState'[c] = "rejected" /\ pipeline'[c] \in Pipeline
    BY <1>2, <1>5 DEF Reject, MapsTypeOK
  <2>2. QED
    BY <1>2, <1>5, <2>1
    DEF Reject, SharedTypeOK, EngineTypeOK, CallTypeOK, Progress
<1>6. CASE Begin(c)
  <2>1. /\ callState'[c] \in {"initializing", "registering"}
        /\ pipeline'[c] \in Pipeline /\ position'[c] = 0
    BY <1>2, <1>6 DEF Begin, MapsTypeOK, CallTypeOK, Progress
  <2>2. NoResults \in [Node -> Call \cup {None}]
    BY DEF NoResults
  <2>3. SharedTypeOK'
    BY <1>2, <1>3, <1>6, <2>2 DEF Begin, SharedTypeOK, EngineTypeOK
  <2>4. QED
    BY <2>1, <2>3 DEF CallTypeOK, Progress
<1>7. CASE Register(c)
  <2> DEFINE k == position[c] + 1
  <2>1. position[c] \in 0..2 /\ callState[c] = "registering"
    BY <1>2, <1>7 DEF Register, CallTypeOK, Progress
  <2>2. k \in 1..3 /\ AdapterOrder[k] \in Range(AdapterOrder)
    BY <2>1, ThreeAdapters
  <2>3. SharedTypeOK'
    BY <1>2, <1>7, <2>2 DEF Register, SharedTypeOK, EngineTypeOK
  <2>4. /\ position'[c] = IF k < 3 THEN k ELSE 0
        /\ callState'[c] = IF k < 3 THEN "registering" ELSE "initializing"
        /\ pipeline' = pipeline
    BY <1>2, <1>7, <2>1, ThreeAdapters DEF Register, MapsTypeOK
  <2>5. QED
    BY <1>2, <2>1, <2>2, <2>3, <2>4 DEF CallTypeOK, Progress
<1>8. CASE Order(c)
  <2>1. /\ callState[c] = "initializing" /\ callState'[c] = "running"
        /\ Len(executionOrder[pipeline[c]]) = Len(pipeline[c].nodes)
        /\ pipeline' = pipeline /\ position' = position
    BY <1>2, <1>8 DEF Order, MapsTypeOK
  <2>2. Len(pipeline[c].nodes) \in Nat
    BY <2>1, PipelineOf
  <2>3. SharedTypeOK'
    BY <1>2, <1>8 DEF Order, SharedTypeOK, EngineTypeOK
  <2>4. QED
    BY <1>2, <2>1, <2>2, <2>3 DEF CallTypeOK, Progress
<1>9. ASSUME CatchFinally(c), callState[c] # "idle",
             UNCHANGED <<nodeResults, initialized, adapters, failedInit,
                         pipeline, position>>
      PROVE  SharedTypeOK' /\ CallTypeOK(c)'
  <2>1. callState'[c] \in {"failed", "threw"}
    BY <1>2, <1>9 DEF CatchFinally, MapsTypeOK
  <2>2. SharedTypeOK'
    BY <1>2, <1>3, <1>9 DEF CatchFinally, SharedTypeOK, EngineTypeOK
  <2>3. QED
    BY <1>2, <1>9, <2>1, <2>2 DEF CallTypeOK, Progress
<1>10. CASE RejectCycle(c)
  BY <1>9, <1>10 DEF RejectCycle
<1>11. CASE FailNode(c)
  BY <1>9, <1>11 DEF FailNode
<1>12. CASE StartNode(c)
  <2>1. /\ callState[c] = "running" /\ callState'[c] \in {"awaiting", "refused"}
        /\ position[c] < Len(pipeline[c].nodes)
        /\ pipeline' = pipeline /\ position' = position
    BY <1>2, <1>12 DEF StartNode, MapsTypeOK
  <2>2. SharedTypeOK'
    BY <1>2, <1>12 DEF StartNode, SharedTypeOK, EngineTypeOK
  <2>3. QED
    BY <1>2, <2>1, <2>2 DEF CallTypeOK, Progress
<1>13. CASE FinishNode(c)
  <2> DEFINE e == executorOf[c]
             n == CurrentNode(c)
  <2>1. /\ callState[c] = "awaiting" /\ callState'[c] = "running"
        /\ position'[c] = position[c] + 1
        /\ pipeline' = pipeline
    BY <1>2, <1>13 DEF FinishNode, MapsTypeOK
  <2>2. Len(pipeline[c].nodes) \in Nat
    BY <2>1, PipelineOf
  <2>3. nodeResults' = [nodeResults EXCEPT ![e] = [nodeResults[e] EXCEPT ![n] = c]]
    BY <1>13 DEF FinishNode
  <2>4. [nodeResults[e] EXCEPT ![n] = c] \in [Node -> Call \cup {None}]
    <3>1. nodeResults[e] \in [Node -> Call \cup {None}]
      BY <1>2, <1>3 DEF EngineTypeOK
    <3> HIDE DEF e, n
    <3>2. QED
      BY <3>1
  <2> HIDE DEF e, n
  <2>5. nodeResults' \in [Executor -> [Node -> Call \cup {None}]]
    BY <1>2, <2>3, <2>4 DEF EngineTypeOK
  <2>6. SharedTypeOK'
    BY <1>2, <1>13, <2>5 DEF FinishNode, SharedTypeOK, EngineTypeOK
  <2>7. QED
    BY <1>2, <1>3, <2>1, <2>2, <2>6, SMTT(30) DEF CallTypeOK, Progress
<1>14. CASE Complete(c)
  <2>1. callState'[c] = "returned" /\ pipeline' = pipeline /\ callState[c] = "running"
    BY <1>2, <1>14 DEF Complete, MapsTypeOK
  <2>2. SharedTypeOK'
    BY <1>2, <1>3, <1>14 DEF Complete, SharedTypeOK, EngineTypeOK
  <2>3. QED
    BY <1>2, <2>1, <2>2 DEF CallTypeOK, Progress
<1>15. QED
  BY <1>5, <1>6, <1>7, <1>8, <1>10, <1>11, <1>12, <1>13, <1>14
  DEF CallStep, Continue

LEMMA InitTypes == Init => TypesInv
<1> SUFFICES ASSUME Init PROVE TypesInv
  OBVIOUS
<1>1. NoResults \in [Node -> Call \cup {None}]
  BY DEF NoResults
<1>2. MapsTypeOK
  BY DEF Init, MapsTypeOK, CallState
<1>3. EngineTypeOK
  BY <1>1 DEF Init, EngineTypeOK, CallState
<1>4. \A c \in Call : Progress(c)
  BY DEF Init, Progress
<1>5. QED
  BY <1>2, <1>3, <1>4 DEF TypesInv

LEMMA StopTypes ==
    ASSUME TypesInv, NEW e \in Executor, Stop(e)
    PROVE  TypesInv'
BY DEF TypesInv, EngineTypeOK, MapsTypeOK, Progress, Stop

LEMMA StutterTypes ==
    ASSUME TypesInv, UNCHANGED engineVars
    PROVE  TypesInv'
BY DEF TypesInv, EngineTypeOK, MapsTypeOK, Progress, engineVars

\* The state keeps its type: in particular a call whose order is complete never
\* goes beyond its last node, though it counts adapters and nodes in the same
\* variable.
THEOREM EngineTypeCorrect == Spec => []EngineTypeOK
<1>1. TypesInv /\ [Next]_engineVars => TypesInv'
  BY StepTypes, StopTypes, StutterTypes DEF Next, CallStep
<1>2. TypesInv => EngineTypeOK
  BY DEF TypesInv
<1>3. QED
  BY InitTypes, <1>1, <1>2, PTL DEF Spec
-----------------------------------------------------------------------------
(* What a step does to its executor.                                       *)

\* The step of call c leaves the other executors alone; to its own it does one
\* of four things.
StepKind(c) ==
    LET e == executorOf[c]
    IN  /\ \A f \in Executor \ {e} : /\ running'[f] = running[f]
                                     /\ nodeResults'[f] = nodeResults[f]
        /\ \/ /\ ~InProgress(c) /\ ~InProgress(c)'        \* it is rejected
              /\ running'[e] = running[e] /\ nodeResults' = nodeResults
           \/ /\ ~InProgress(c) /\ InProgress(c)'         \* it begins
              /\ ~running[e] /\ running'[e]
           \/ /\ InProgress(c) /\ InProgress(c)'          \* it goes on
              /\ running'[e] = running[e]
           \/ /\ InProgress(c) /\ ~InProgress(c)'         \* it ends
              /\ ~running'[e] /\ nodeResults' = nodeResults

LEMMA StepKinds ==
    ASSUME TypesInv, NEW c \in Call, CallStep(c)
    PROVE  StepKind(c)
<1> DEFINE e == executorOf[c]
<1>1. /\ running \in [Executor -> BOOLEAN]
      /\ nodeResults \in [Executor -> [Node -> Call \cup {None}]]
      /\ callState \in [Call -> CallState] /\ e \in Executor
  BY EngineAssumption DEF TypesInv, EngineTypeOK
<1>2. CASE Reject(c)
  BY <1>1, <1>2 DEF Reject, StepKind, InProgress
<1>3. CASE Begin(c)
  <2>1. callState'[c] \in {"initializing", "registering"} /\ callState[c] = "idle"
    BY <1>1, <1>3 DEF Begin
  <2>2. /\ ~running[e] /\ running'[e]
        /\ \A f \in Executor \ {e} : /\ running'[f] = running[f]
                                     /\ nodeResults'[f] = nodeResults[f]
    BY <1>1, <1>3 DEF Begin
  <2>3. ~InProgress(c) /\ InProgress(c)'
    BY <2>1 DEF InProgress
  <2>4. QED
    BY <2>2, <2>3 DEF StepKind
<1>4. ASSUME callState[c] \in {"registering", "initializing", "running", "awaiting"},
             callState'[c] \in {"registering", "initializing", "running",
                                "awaiting", "refused"},
             running' = running,
             \A f \in Executor \ {e} : nodeResults'[f] = nodeResults[f]
      PROVE  StepKind(c)
  <2>1. InProgress(c) /\ InProgress(c)'
    BY <1>4 DEF InProgress
  <2>2. QED
    BY <1>4, <2>1 DEF StepKind
<1>5. CASE Register(c)
  BY <1>1, <1>4, <1>5 DEF Register
<1>6. CASE Order(c)
  BY <1>1, <1>4, <1>6 DEF Order
<1>7. CASE StartNode(c)
  BY <1>1, <1>4, <1>7 DEF StartNode
<1>8. CASE FinishNode(c)
  <2>1. \A f \in Executor \ {e} : nodeResults'[f] = nodeResults[f]
    BY <1>1, <1>8 DEF FinishNode
  <2>2. /\ callState[c] = "awaiting" /\ callState'[c] = "running"
        /\ running' = running
    BY <1>1, <1>8 DEF FinishNode
  <2>3. QED
    BY <1>4, <2>1, <2>2
<1>9. ASSUME callState[c] \in {"initializing", "running", "awaiting", "refused"},
             callState'[c] \in {"failed", "threw", "returned"},
             running' = [running EXCEPT ![e] = FALSE],
             nodeResults' = nodeResults
      PROVE  StepKind(c)
  <2>1. InProgress(c) /\ ~InProgress(c)'
    BY <1>9 DEF InProgress
  <2>2. QED
    BY <1>1, <1>9, <2>1 DEF StepKind
<1>10. CASE RejectCycle(c)
  BY <1>1, <1>9, <1>10 DEF RejectCycle, CatchFinally
<1>11. CASE FailNode(c)
  BY <1>1, <1>9, <1>11 DEF FailNode, CatchFinally
<1>12. CASE Complete(c)
  BY <1>1, <1>9, <1>12 DEF Complete
<1>13. QED
  BY <1>2, <1>3, <1>5, <1>6, <1>7, <1>8, <1>10, <1>11, <1>12
  DEF CallStep, Continue

\* The other calls are as far as they were.
LEMMA OthersStay ==
    ASSUME NEW c \in Call, OtherCalls(c), NEW d \in Call, d # c
    PROVE  /\ InProgress(d)' <=> InProgress(d)
           /\ Done(d)' = Done(d) /\ CurrentNode(d)' = CurrentNode(d)
BY DEF OtherCalls, InProgress, Done, CurrentNode

LEMMA StepExclusive ==
    ASSUME TypesInv, ExclusiveUnlessStopped, NEW c \in Call, CallStep(c)
    PROVE  ExclusiveUnlessStopped'
<1>1. StepKind(c) /\ executorOf[c] \in Executor
      /\ running' \in [Executor -> BOOLEAN] /\ running \in [Executor -> BOOLEAN]
  BY StepKinds, StepTypes, EngineAssumption DEF TypesInv, EngineTypeOK
<1>2. \A d \in Call \ {c} : InProgress(d)' <=> InProgress(d)
  BY StepMaps, OthersStay DEF TypesInv
<1>3. SUFFICES ASSUME NEW e \in Executor \ Stoppable
               PROVE  /\ running'[e] <=> \E d \in Call : executorOf[d] = e /\ InProgress(d)'
                      /\ \A x, y \in Call :
                           executorOf[x] = e /\ executorOf[y] = e
                           /\ InProgress(x)' /\ InProgress(y)' => x = y
  BY DEF ExclusiveUnlessStopped
<1>4. /\ running[e] <=> \E d \in Call : executorOf[d] = e /\ InProgress(d)
      /\ \A x, y \in Call : executorOf[x] = e /\ executorOf[y] = e
                            /\ InProgress(x) /\ InProgress(y) => x = y
  BY DEF ExclusiveUnlessStopped
<1>5. CASE e # executorOf[c]
  <2>1. running'[e] = running[e]
    BY <1>1, <1>5 DEF StepKind
  <2>2. \A d \in Call : executorOf[d] = e => (InProgress(d)' <=> InProgress(d))
    BY <1>2, <1>5
  <2> HIDE DEF ExclusiveUnlessStopped
  <2>3. QED
    BY <1>4, <2>1, <2>2
<1>6. CASE e = executorOf[c]
  <2>1. CASE InProgress(c)' <=> InProgress(c)
    <3>1. running'[e] = running[e]
      BY <1>1, <1>6, <2>1 DEF StepKind
    <3>2. \A d \in Call : InProgress(d)' <=> InProgress(d)
      BY <1>2, <2>1
    <3>3. QED
      BY <1>4, <3>1, <3>2
  <2>2. CASE ~InProgress(c) /\ InProgress(c)'
    <3>1. ~running[e] /\ running'[e]
      BY <1>1, <1>6, <2>2 DEF StepKind
    <3>2. \A d \in Call \ {c} : executorOf[d] = e => ~InProgress(d)'
      BY <1>2, <1>4, <3>1
    <3>3. QED
      BY <1>6, <2>2, <3>1, <3>2
  <2>3. CASE InProgress(c) /\ ~InProgress(c)'
    <3>1. ~running'[e]
      BY <1>1, <1>6, <2>3 DEF StepKind
    <3>2. \A d \in Call \ {c} : executorOf[d] = e => ~InProgress(d)'
      BY <1>2, <1>4, <1>6, <2>3
    <3>3. QED
      BY <2>3, <3>1, <3>2
  <2>4. QED
    BY <2>1, <2>2, <2>3
<1>7. QED
  BY <1>5, <1>6

\* Nobody else stores into the results of an executor while a call is in
\* progress on it, unless somebody calls stop().
LEMMA ResultsStay ==
    ASSUME TypesInv, ExclusiveUnlessStopped, NEW c \in Call, CallStep(c),
           NEW d \in Call, d # c, InProgress(d), executorOf[d] \notin Stoppable
    PROVE  nodeResults'[executorOf[d]] = nodeResults[executorOf[d]]
<1>1. StepKind(c) /\ executorOf[c] \in Executor /\ executorOf[d] \in Executor
  BY StepKinds, EngineAssumption
<1>2. CASE executorOf[d] # executorOf[c]
  BY <1>1, <1>2 DEF StepKind
<1>3. CASE executorOf[d] = executorOf[c]
  <2>1. running[executorOf[c]] /\ ~InProgress(c)
    BY <1>1, <1>3 DEF ExclusiveUnlessStopped
  <2>2. QED
    BY <1>1, <1>3, <2>1 DEF StepKind
<1>4. QED
  BY <1>2, <1>3
-----------------------------------------------------------------------------
(* Adapters.                                                               *)

\* No step takes an adapter away or forgets a failure.
AdaptersGrow ==
    /\ adapters \subseteq adapters' /\ failedInit \subseteq failedInit'
    /\ initialized => initialized'

LEMMA StepAdaptersGrow ==
    ASSUME NEW c \in Call, CallStep(c)
    PROVE  AdaptersGrow
<1>1. CASE Register(c)
  <2>1. adapters \subseteq adapters' /\ failedInit \subseteq failedInit'
    BY <1>1 DEF Register
  <2>2. initialized => initialized'
    BY <1>1 DEF Register
  <2>3. QED
    BY <2>1, <2>2 DEF AdaptersGrow
<1>2. CASE ~Register(c)
  <2>1. UNCHANGED <<initialized, adapters, failedInit>>
    BY <1>2 DEF CallStep, Continue, Reject, Begin, Order, RejectCycle, StartNode,
                FinishNode, FailNode, Complete
  <2>2. QED
    BY <2>1 DEF AdaptersGrow
<1>3. QED
  BY <1>1, <1>2

\* The adapter of a node of a pipeline being run is a known type, or none.
LEMMA CurrentNodeIsANode ==
    ASSUME TypesInv, NEW c \in Call,
           callState[c] \in {"running", "awaiting", "refused"},
           position[c] < Len(pipeline[c].nodes)
    PROVE  /\ position[c] + 1 \in 1..Len(pipeline[c].nodes)
           /\ DOMAIN executionOrder[pipeline[c]] = 1..Len(pipeline[c].nodes)
           /\ CurrentNode(c) \in Node /\ CurrentNode(c) \in NodeSet(pipeline[c])
<1>1. /\ position[c] \in Nat /\ pipeline[c] \in Pipeline
      /\ Len(executionOrder[pipeline[c]]) = Len(pipeline[c].nodes)
  BY DEF TypesInv, MapsTypeOK, EngineTypeOK, Progress
<1> DEFINE o == executionOrder[pipeline[c]]
           n == Len(pipeline[c].nodes)
<1>2. /\ n \in Nat /\ o \in Seq(Node) /\ DOMAIN o = 1..n
      /\ Range(o) = NodeSet(pipeline[c])
  BY <1>1, CompleteOrder
<1>3. CurrentNode(c) = o[position[c] + 1]
  BY DEF CurrentNode
<1> HIDE DEF o
<1>4. position[c] + 1 \in DOMAIN o
  BY <1>1, <1>2
<1>5. o[position[c] + 1] \in Node /\ o[position[c] + 1] \in Range(o)
  BY <1>2, <1>4 DEF Range
<1>6. QED
  BY <1>2, <1>3, <1>4, <1>5 DEF o

LEMMA StepAdapters ==
    ASSUME TypesInv, AdaptersInv, NEW c \in Call, CallStep(c)
    PROVE  AdaptersInv'
<1>1. AdaptersGrow /\ OtherCalls(c) /\ TypesInv'
  BY StepAdaptersGrow, StepMaps, StepTypes DEF TypesInv
<1>2. /\ callState \in [Call -> CallState] /\ position \in [Call -> Nat]
      /\ pipeline = [d \in Call |-> pipeline[d]] /\ Progress(c)
  BY DEF TypesInv, MapsTypeOK
<1>3. ASSUME NEW d \in Call \ {c} PROVE AdaptersTried(d)'
  BY <1>1 DEF AdaptersInv, AdaptersTried, AdaptersGrow, OtherCalls
<1>4. ASSUME NEW d \in Call \ {c}, callState'[d] = "refused",
             adapterOf[CurrentNode(d)'] \in Range(AdapterOrder)
      PROVE  adapterOf[CurrentNode(d)'] \in failedInit'
  <2>1. callState[d] = "refused" /\ CurrentNode(d)' = CurrentNode(d)
    BY <1>1, <1>4, OthersStay DEF OtherCalls
  <2>2. QED
    BY <1>1, <1>4, <2>1 DEF AdaptersInv, MissingMeansFailed, AdaptersGrow
<1>5. SUFFICES /\ AllTried' /\ AdaptersTried(c)'
               /\ callState'[c] = "refused"
                  /\ adapterOf[CurrentNode(c)'] \in Range(AdapterOrder) =>
                     adapterOf[CurrentNode(c)'] \in failedInit'
  BY <1>3, <1>4 DEF AdaptersInv, MissingMeansFailed
<1>6. CASE Register(c)
  <2> DEFINE k == position[c] + 1
  <2>1. position[c] \in 0..2 /\ callState[c] = "registering"
    BY <1>2, <1>6 DEF Register, Progress
  <2>2. /\ position'[c] = IF k < 3 THEN k ELSE 0
        /\ callState'[c] = IF k < 3 THEN "registering" ELSE "initializing"
        /\ initialized' = (initialized \/ k = 3)
        /\ AdapterOrder[k] \in adapters' \cup failedInit'
    BY <1>2, <1>6, <2>1, ThreeAdapters DEF Register
  <2>3. \A j \in 1..k : AdapterOrder[j] \in adapters' \cup failedInit'
    <3>1. \A j \in 1..position[c] : AdapterOrder[j] \in adapters \cup failedInit
      BY <2>1 DEF AdaptersInv, AdaptersTried
    <3>2. \A j \in 1..k : j \in 1..position[c] \/ j = k
      BY <2>1
    <3>3. QED
      BY <1>1, <2>2, <3>1, <3>2 DEF AdaptersGrow
  <2>4. k = 3 => Range(AdapterOrder) \subseteq adapters' \cup failedInit'
    BY <2>3, ThreeAdapters
  <2>5. AllTried'
    BY <1>1, <2>2, <2>4 DEF AdaptersInv, AllTried, AdaptersGrow
  <2>6. AdaptersTried(c)'
    <3>1. CASE k < 3
      <4>1. callState'[c] = "registering" /\ position'[c] = k
        BY <2>2, <3>1
      <4>2. QED
        BY <2>3, <4>1 DEF AdaptersTried
    <3>2. CASE k = 3
      <4>1. callState'[c] = "initializing"
        BY <2>2, <3>2
      <4>2. initialized'
        BY <1>6, <3>2, ThreeAdapters DEF Register
      <4>3. QED
        BY <4>1, <4>2 DEF AdaptersTried
    <3>3. QED
      BY <2>1, <3>1, <3>2
  <2>7. QED
    BY <2>2, <2>5, <2>6
<1>7. ASSUME UNCHANGED <<initialized, adapters, failedInit>>,
             callState'[c] \in {"initializing", "running", "awaiting", "refused"} => initialized,
             callState'[c] = "registering" => position'[c] = 0,
             callState'[c] # "refused"
      PROVE  AllTried' /\ AdaptersTried(c)'
  BY <1>7 DEF AdaptersInv, AllTried, AdaptersTried
<1>8. CASE Reject(c)
  <2>1. callState'[c] = "rejected" /\ UNCHANGED <<initialized, adapters, failedInit>>
    BY <1>2, <1>8 DEF Reject
  <2>2. QED
    BY <1>7, <2>1
<1>9. CASE Begin(c)
  <2>1. /\ callState'[c] = IF initialized THEN "initializing" ELSE "registering"
        /\ UNCHANGED <<initialized, adapters, failedInit>>
        /\ position'[c] = 0
    BY <1>2, <1>9 DEF Begin, Progress
  <2>2. QED
    BY <1>7, <2>1
<1>10. CASE Order(c) \/ RejectCycle(c) \/ FinishNode(c) \/ FailNode(c) \/ Complete(c)
  <2>1. /\ UNCHANGED <<initialized, adapters, failedInit>>
        /\ callState[c] \in {"initializing", "running", "awaiting", "refused"}
        /\ callState'[c] \in {"running", "failed", "threw", "returned"}
    BY <1>2, <1>10
    DEF Order, RejectCycle, FinishNode, FailNode, Complete, CatchFinally
  <2>2. initialized
    BY <2>1 DEF AdaptersInv, AdaptersTried
  <2>3. QED
    BY <1>7, <2>1, <2>2
<1>11. CASE StartNode(c)
  <2> DEFINE n == CurrentNode(c)
  <2>1. /\ UNCHANGED <<initialized, adapters, failedInit>>
        /\ callState[c] = "running" /\ position[c] < Len(pipeline[c].nodes)
        /\ callState'[c] = IF Executable(n) THEN "awaiting" ELSE "refused"
        /\ CurrentNode(c)' = n
    BY <1>2, <1>11 DEF StartNode, CurrentNode
  <2>2. initialized /\ Range(AdapterOrder) \subseteq adapters \cup failedInit
    BY <2>1 DEF AdaptersInv, AdaptersTried, AllTried
  <2>3. AllTried' /\ AdaptersTried(c)'
    BY <2>1, <2>2 DEF AllTried, AdaptersTried
  <2>4. callState'[c] = "refused" => adapterOf[n] \notin adapters
    BY <2>1 DEF Executable
  <2>5. QED
    BY <2>1, <2>2, <2>3, <2>4
<1>12. QED
  BY <1>6, <1>8, <1>9, <1>10, <1>11 DEF CallStep, Continue
-----------------------------------------------------------------------------
(* Results.                                                                *)

\* A node that is finished is added to those that are done.
LEMMA DoneGrows ==
    ASSUME TypesInv, NEW c \in Call, callState[c] = "awaiting",
           position'[c] = position[c] + 1, pipeline'[c] = pipeline[c]
    PROVE  Done(c)' = Done(c) \cup {CurrentNode(c)}
<1>1. position[c] \in Nat
  BY DEF TypesInv, MapsTypeOK
<1>2. 1..(position[c] + 1) = (1..position[c]) \cup {position[c] + 1}
  BY <1>1
<1>3. Done(c)' = {executionOrder[pipeline[c]][k] : k \in 1..(position[c] + 1)}
  BY DEF Done
<1>4. QED
  BY <1>2, <1>3 DEF Done, CurrentNode

LEMMA StepResults ==
    ASSUME TypesInv, ResultsInv, NEW c \in Call, CallStep(c)
    PROVE  ResultsInv'
<1>1. ExclusiveUnlessStopped'
  BY StepExclusive DEF ResultsInv
<1>2. OtherCalls(c) /\ TypesInv'
  BY StepMaps, StepTypes DEF TypesInv
<1>3. ASSUME NEW d \in Call \ {c} PROVE OwnResults(d)'
  <2>1. /\ callState'[d] = callState[d] /\ Done(d)' = Done(d)
    BY <1>2, OthersStay DEF OtherCalls
  <2>2. InProgress(d) /\ executorOf[d] \notin Stoppable =>
          nodeResults'[executorOf[d]] = nodeResults[executorOf[d]]
    BY ResultsStay DEF ResultsInv
  <2>3. OwnResults(d)
    BY DEF ResultsInv
  <2>4. QED
    BY <2>1, <2>2, <2>3 DEF OwnResults, InProgress
<1>4. SUFFICES ASSUME executorOf[c] \notin Stoppable
               PROVE  OwnResults(c)'
  BY <1>1, <1>3 DEF ResultsInv, OwnResults
<1>5. /\ callState \in [Call -> CallState] /\ position \in [Call -> Nat]
      /\ pipeline = [d \in Call |-> pipeline[d]] /\ Progress(c)
      /\ nodeResults \in [Executor -> [Node -> Call \cup {None}]]
      /\ executorOf[c] \in Executor /\ OwnResults(c)
  BY EngineAssumption DEF TypesInv, MapsTypeOK, EngineTypeOK, ResultsInv
<1> DEFINE e == executorOf[c]
<1>6. CASE Reject(c)
  BY <1>5, <1>6 DEF Reject, OwnResults
<1>7. CASE Begin(c)
  <2>1. /\ callState'[c] \in {"initializing", "registering"}
        /\ nodeResults'[e] = NoResults
    BY <1>5, <1>7 DEF Begin
  <2>2. QED
    BY <2>1 DEF OwnResults
<1>8. CASE Register(c)
  <2>1. /\ callState[c] = "registering"
        /\ callState'[c] \in {"initializing", "registering"}
        /\ nodeResults' = nodeResults
    BY <1>5, <1>8 DEF Register
  <2>2. QED
    BY <1>4, <1>5, <2>1 DEF OwnResults
<1>9. CASE Order(c)
  <2>1. /\ callState[c] = "initializing" /\ callState'[c] = "running"
        /\ nodeResults' = nodeResults /\ position'[c] = 0
    BY <1>5, <1>9 DEF Order, Progress
  <2>2. Done(c)' = {}
    BY <2>1 DEF Done
  <2>3. nodeResults'[e] = [n \in Node |-> IF n \in Done(c)' THEN c ELSE None]
    BY <1>4, <1>5, <2>1, <2>2 DEF OwnResults, NoResults
  <2>4. QED
    BY <2>1, <2>3 DEF OwnResults
<1>10. CASE StartNode(c)
  <2>1. /\ callState[c] = "running" /\ callState'[c] \in {"awaiting", "refused"}
        /\ UNCHANGED <<nodeResults, position, pipeline>>
    BY <1>5, <1>10 DEF StartNode
  <2>2. Done(c)' = Done(c)
    BY <2>1 DEF Done
  <2>3. QED
    BY <1>4, <1>5, <2>1, <2>2 DEF OwnResults
<1>11. CASE FinishNode(c)
  <2> DEFINE n == CurrentNode(c)
  <2>1. /\ callState[c] = "awaiting" /\ callState'[c] = "running"
        /\ position'[c] = position[c] + 1 /\ pipeline' = pipeline
        /\ nodeResults' = [nodeResults EXCEPT ![e] = [nodeResults[e] EXCEPT ![n] = c]]
    BY <1>5, <1>11 DEF FinishNode
  <2>2. n \in Node
    BY <1>5, <2>1, CurrentNodeIsANode DEF Progress
  <2>3. Done(c)' = Done(c) \cup {n}
    BY <2>1, DoneGrows
  <2>4. nodeResults[e] = [m \in Node |-> IF m \in Done(c) THEN c ELSE None]
    BY <1>4, <1>5, <2>1 DEF OwnResults
  <2> HIDE DEF n, e
  <2>5. nodeResults'[e] = [nodeResults[e] EXCEPT ![n] = c]
    BY <1>5, <2>1 DEF e
  <2>6. nodeResults'[e] = [m \in Node |-> IF m \in Done(c) \cup {n} THEN c ELSE None]
    BY <2>2, <2>4, <2>5
  <2>7. QED
    BY <2>1, <2>3, <2>6 DEF OwnResults, e
<1>12. CASE RejectCycle(c) \/ FailNode(c) \/ Complete(c)
  <2>1. callState'[c] \in {"failed", "threw", "returned"}
    BY <1>5, <1>12 DEF RejectCycle, FailNode, Complete, CatchFinally
  <2>2. QED
    BY <2>1 DEF OwnResults
<1>13. QED
  BY <1>6, <1>7, <1>8, <1>9, <1>10, <1>11, <1>12 DEF CallStep, Continue
-----------------------------------------------------------------------------
(* What nodes are given, and what calls return.                            *)

\* The source of a connection to the node whose turn it is has been executed.
LEMMA SourcesAreDone ==
    ASSUME TypesInv, NEW c \in Call, callState[c] = "running",
           position[c] < Len(pipeline[c].nodes),
           NEW k \in Into(pipeline[c], CurrentNode(c))
    PROVE  /\ pipeline[c].connections[k].from \in Done(c)
           /\ pipeline[c].connections[k].from \in Node
<1> DEFINE p == pipeline[c]
           o == executionOrder[p]
           from == p.connections[k].from
<1>1. /\ position[c] \in Nat /\ p \in Pipeline
      /\ Len(o) = Len(p.nodes)
  BY DEF TypesInv, MapsTypeOK, EngineTypeOK, Progress
<1>2. /\ Len(p.nodes) \in Nat /\ o \in Seq(Node) /\ DOMAIN o = 1..Len(p.nodes)
      /\ \A x, y \in DOMAIN o : o[x] = o[y] => x = y
      /\ Range(o) = NodeSet(p) /\ SourcesBefore(p, o)
  BY <1>1, CompleteOrder
<1>3. /\ position[c] + 1 \in DOMAIN o /\ CurrentNode(c) = o[position[c] + 1]
      /\ CurrentNode(c) \in Range(o)
  BY <1>1, <1>2, CurrentNodeIsANode DEF CurrentNode
<1>4. k \in DOMAIN p.connections /\ p.connections[k].to = CurrentNode(c)
  BY DEF Into
<1>5. Precedes(o, from, CurrentNode(c))
  BY <1>2, <1>3, <1>4 DEF SourcesBefore
<1> HIDE DEF o, from
<1>6. PICK x, y \in DOMAIN o : x < y /\ o[x] = from /\ o[y] = CurrentNode(c)
  BY <1>5 DEF Precedes
<1>7. y = position[c] + 1
  BY <1>2, <1>3, <1>6
<1>8. x \in 1..position[c]
  BY <1>1, <1>2, <1>6, <1>7
<1>9. from \in Node
  BY <1>2, <1>6
<1>10. o[x] \in Done(c)
  BY <1>8 DEF Done, o
<1>11. QED
  BY <1>6, <1>9, <1>10 DEF from

\* What getNodeInput() finds for it is the call's own.
LEMMA OwnInput ==
    ASSUME TypesInv, ResultsInv, NEW c \in Call, callState[c] = "running",
           position[c] < Len(pipeline[c].nodes), executorOf[c] \notin Stoppable
    PROVE  LET I == GetNodeInput(executorOf[c], pipeline[c], CurrentNode(c))
           IN  /\ \A s \in I : s[2] = c
               /\ I = {} <=> Into(pipeline[c], CurrentNode(c)) = {}
<1> DEFINE p == pipeline[c]
           In == Into(p, CurrentNode(c))
           I == GetNodeInput(executorOf[c], p, CurrentNode(c))
<1>1. I = {<<p.connections[k].from, nodeResults[executorOf[c]][p.connections[k].from]>> :
             k \in {k \in In : \A l \in In : k <= l}}
  BY DEF GetNodeInput
<1>2. nodeResults[executorOf[c]] = [n \in Node |-> IF n \in Done(c) THEN c ELSE None]
  BY DEF ResultsInv, OwnResults
<1>3. ASSUME NEW s \in I PROVE s[2] = c
  <2>1. PICK k \in In : s = <<p.connections[k].from,
                              nodeResults[executorOf[c]][p.connections[k].from]>>
    BY <1>1, <1>3
  <2>2. p.connections[k].from \in Done(c) /\ p.connections[k].from \in Node
    BY SourcesAreDone
  <2>3. QED
    BY <1>2, <2>1, <2>2
<1>4. ASSUME In # {} PROVE I # {}
  <2>1. Len(p.connections) \in Nat /\ DOMAIN p.connections = 1..Len(p.connections)
    <3>1. p \in Pipeline
      BY DEF TypesInv, EngineTypeOK
    <3>2. QED
      BY <3>1, EngineAssumption DEF IsGraph
  <2>2. In \in SUBSET (1..Len(p.connections))
    BY <2>1 DEF Into
  <2> HIDE DEF In
  <2>3. \E m \in In : \A x \in In : m <= x
    BY <1>4, <2>1, <2>2, MinOfPositions
  <2>4. QED
    BY <1>1, <2>3
<1>5. In = {} => I = {}
  BY <1>1
<1>6. QED
  BY <1>3, <1>4, <1>5

LEMMA StepInputs ==
    ASSUME TypesInv, ResultsInv, InputsAreOwn, NEW c \in Call, CallStep(c)
    PROVE  InputsAreOwn'
<1>1. OtherCalls(c)
  BY StepMaps DEF TypesInv
<1>2. /\ callState \in [Call -> CallState]
      /\ inputData = [d \in Call |-> inputData[d]]
  BY DEF TypesInv, MapsTypeOK
<1>3. SUFFICES ASSUME NEW d \in Call, callState'[d] \in {"awaiting", "refused"},
                      executorOf[d] \notin Stoppable
               PROVE  /\ \A s \in inputData'[d] : s[2] = d
                      /\ inputData'[d] = {} <=> Into(pipeline'[d], CurrentNode(d)') = {}
  BY DEF InputsAreOwn
<1>4. CASE d # c
  <2>1. /\ callState[d] \in {"awaiting", "refused"} /\ inputData'[d] = inputData[d]
        /\ pipeline'[d] = pipeline[d] /\ CurrentNode(d)' = CurrentNode(d)
    BY <1>1, <1>3, <1>4, OthersStay DEF OtherCalls
  <2>2. /\ \A s \in inputData[d] : s[2] = d
        /\ inputData[d] = {} <=> Into(pipeline[d], CurrentNode(d)) = {}
    BY <1>3, <2>1 DEF InputsAreOwn
  <2>3. QED
    BY <2>1, <2>2
<1>5. CASE d = c
  <2>1. StartNode(c)
    BY <1>2, <1>3, <1>5
    DEF CallStep, Continue, Reject, Begin, Register, Order, RejectCycle,
        FinishNode, FailNode, Complete, CatchFinally
  <2>2. /\ callState[c] = "running" /\ position[c] < Len(pipeline[c].nodes)
        /\ pipeline' = pipeline /\ position' = position
        /\ inputData'[c] = GetNodeInput(executorOf[c], pipeline[c], CurrentNode(c))
    BY <1>2, <2>1 DEF StartNode
  <2>3. CurrentNode(c)' = CurrentNode(c)
    BY <2>2 DEF CurrentNode
  <2>4. QED
    BY <1>3, <1>5, <2>2, <2>3, OwnInput
<1>6. QED
  BY <1>4, <1>5

LEMMA StepSuccess ==
    ASSUME TypesInv, ResultsInv, SuccessIsOwn, NEW c \in Call, CallStep(c)
    PROVE  SuccessIsOwn'
<1>1. OtherCalls(c)
  BY StepMaps DEF TypesInv
<1>2. /\ callState \in [Call -> CallState]
      /\ output = [d \in Call |-> output[d]]
  BY DEF TypesInv, MapsTypeOK
<1>3. SUFFICES ASSUME NEW d \in Call, callState'[d] = "returned",
                      executorOf[d] \notin Stoppable
               PROVE  output'[d] =
                        [n \in Node |-> IF n \in NodeSet(pipeline'[d]) THEN d ELSE None]
  BY DEF SuccessIsOwn
<1>4. CASE d # c
  BY <1>1, <1>3, <1>4 DEF OtherCalls, SuccessIsOwn
<1>5. CASE d = c
  <2>1. Complete(c)
    BY <1>2, <1>3, <1>5
    DEF CallStep, Continue, Reject, Begin, Register, Order, RejectCycle, StartNode,
        FinishNode, FailNode, CatchFinally
  <2>2. /\ callState[c] = "running" /\ position[c] = Len(pipeline[c].nodes)
        /\ pipeline' = pipeline
        /\ output'[c] = nodeResults[executorOf[c]]
    BY <1>2, <2>1 DEF Complete
  <2>3. /\ pipeline[c] \in Pipeline
        /\ Len(executionOrder[pipeline[c]]) = Len(pipeline[c].nodes)
    BY <2>2 DEF TypesInv, EngineTypeOK, Progress
  <2>4. Done(c) = NodeSet(pipeline[c])
    <3> DEFINE o == executionOrder[pipeline[c]]
    <3>1. DOMAIN o = 1..position[c] /\ Range(o) = NodeSet(pipeline[c])
      BY <2>2, <2>3, CompleteOrder
    <3>2. Done(c) = {o[k] : k \in DOMAIN o}
      BY <3>1 DEF Done
    <3>3. QED
      BY <3>1, <3>2 DEF Range
  <2>5. nodeResults[executorOf[c]] = [n \in Node |-> IF n \in Done(c) THEN c ELSE None]
    BY <1>3, <1>5, <2>2 DEF ResultsInv, OwnResults
  <2>6. QED
    BY <1>5, <2>2, <2>4, <2>5
<1>6. QED
  BY <1>4, <1>5
-----------------------------------------------------------------------------
(* The invariant, and what follows from it.                                *)

LEMMA InitEngine == Init => EngineInv
<1> SUFFICES ASSUME Init PROVE EngineInv
  OBVIOUS
<1>1. TypesInv
  BY InitTypes
<1>2. \A c \in Call : callState[c] = "idle" /\ executorOf[c] \in Executor
  BY EngineAssumption DEF Init
<1>3. AdaptersInv
  BY <1>2 DEF Init, AdaptersInv, AllTried, MissingMeansFailed, AdaptersTried
<1>4. ResultsInv
  BY <1>2 DEF Init, ResultsInv, ExclusiveUnlessStopped, InProgress, OwnResults
<1>5. InputsAreOwn /\ SuccessIsOwn
  BY <1>2 DEF InputsAreOwn, SuccessIsOwn
<1>6. QED
  BY <1>1, <1>3, <1>4, <1>5 DEF EngineInv

LEMMA StopEngine ==
    ASSUME EngineInv, NEW e \in Executor, Stop(e)
    PROVE  EngineInv'
<1>1. TypesInv'
  BY StopTypes DEF EngineInv
<1>2. /\ e \in Stoppable /\ running' = [running EXCEPT ![e] = FALSE]
      /\ UNCHANGED <<nodeResults, initialized, adapters, failedInit, callState,
                     pipeline, position, inputData, output>>
  BY DEF Stop
<1>3. \A c \in Call : /\ InProgress(c)' <=> InProgress(c)
                      /\ CurrentNode(c)' = CurrentNode(c) /\ Done(c)' = Done(c)
  BY <1>2 DEF InProgress, CurrentNode, Done
<1>4. AdaptersInv'
  BY <1>2, <1>3
  DEF EngineInv, AdaptersInv, AllTried, MissingMeansFailed, AdaptersTried
<1>5. ExclusiveUnlessStopped'
  <2>1. \A f \in Executor \ Stoppable : running'[f] = running[f]
    BY <1>2 DEF EngineInv, TypesInv, EngineTypeOK
  <2>2. QED
    BY <1>3, <2>1 DEF EngineInv, ResultsInv, ExclusiveUnlessStopped
<1>6. ResultsInv'
  BY <1>2, <1>3, <1>5 DEF EngineInv, ResultsInv, OwnResults
<1>7. InputsAreOwn' /\ SuccessIsOwn'
  BY <1>2, <1>3 DEF EngineInv, InputsAreOwn, SuccessIsOwn
<1>8. QED
  BY <1>1, <1>4, <1>6, <1>7 DEF EngineInv

LEMMA StutterEngine ==
    ASSUME EngineInv, UNCHANGED engineVars
    PROVE  EngineInv'
<1>1. TypesInv'
  BY StutterTypes DEF EngineInv
<1>2. \A c \in Call : /\ InProgress(c)' <=> InProgress(c)
                      /\ CurrentNode(c)' = CurrentNode(c) /\ Done(c)' = Done(c)
  BY DEF InProgress, CurrentNode, Done, engineVars
<1>3. AdaptersInv'
  BY <1>2 DEF EngineInv, AdaptersInv, AllTried, MissingMeansFailed, AdaptersTried,
              engineVars
<1>4. ResultsInv'
  BY <1>2 DEF EngineInv, ResultsInv, ExclusiveUnlessStopped, OwnResults, engineVars
<1>5. InputsAreOwn' /\ SuccessIsOwn'
  BY <1>2 DEF EngineInv, InputsAreOwn, SuccessIsOwn, engineVars
<1>6. QED
  BY <1>1, <1>3, <1>4, <1>5 DEF EngineInv

LEMMA StepEngine ==
    ASSUME EngineInv, NEW c \in Call, CallStep(c)
    PROVE  EngineInv'
BY StepTypes, StepAdapters, StepResults, StepInputs, StepSuccess DEF EngineInv

LEMMA EngineInvariance == Spec => []EngineInv
<1>1. EngineInv /\ [Next]_engineVars => EngineInv'
  BY StepEngine, StopEngine, StutterEngine DEF Next, CallStep
<1>2. QED
  BY InitEngine, <1>1, PTL DEF Spec

\* An executor that nobody stops runs one pipeline at a time, and its flag says
\* whether it does.
THEOREM ExecutorsAreExclusive == Spec => []ExclusiveUnlessStopped
<1>1. EngineInv => ExclusiveUnlessStopped
  BY DEF EngineInv, ResultsInv
<1>2. QED
  BY EngineInvariance, <1>1, PTL

\* An adapter that a node does not find has failed to initialize: no call
\* executes nodes while another one is still registering adapters.
THEOREM MissingAdaptersFailed == Spec => []MissingMeansFailed
<1>1. EngineInv => MissingMeansFailed
  BY DEF EngineInv, AdaptersInv
<1>2. QED
  BY EngineInvariance, <1>1, PTL

\* A node is given the result that its source produced in the same execution.
THEOREM NodesGetOwnInputs == Spec => []InputsAreOwn
<1>1. EngineInv => InputsAreOwn
  BY DEF EngineInv
<1>2. QED
  BY EngineInvariance, <1>1, PTL

\* A successful execution returns a result of its own for each of its nodes.
THEOREM SuccessesAreOwn == Spec => []SuccessIsOwn
<1>1. EngineInv => SuccessIsOwn
  BY DEF EngineInv
<1>2. QED
  BY EngineInvariance, <1>1, PTL
=============================================================================
