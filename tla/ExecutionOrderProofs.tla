------------------------ MODULE ExecutionOrderProofs ------------------------
(***************************************************************************)
(* The loop of buildExecutionOrder(), for every pipeline: its invariant is *)
(* that of TopologicalSortProofs, which every turn keeps.                  *)
(***************************************************************************)
EXTENDS ExecutionOrder, TopologicalSortProofs

-----------------------------------------------------------------------------
(* The inductive invariant.                                                *)

OInv ==
    /\ SortInv(graph, inDegree, queue, result)
    /\ NodeSet(graph) \subseteq PipelineNode

\* A step of the loop is a turn.
LEMMA TurnIsTurn ==
    ASSUME Turn
    PROVE  /\ IsTurn(graph, inDegree, queue, result, inDegree', queue', result')
           /\ graph' = graph
BY DEF Turn, IsTurn

LEMMA InitOInv == OrderInit => OInv
<1> SUFFICES ASSUME OrderInit PROVE OInv
  OBVIOUS
<1>1. /\ IsGraph(graph) /\ queue \in Sources(graph)
      /\ inDegree = InDegree(graph) /\ result = <<>>
  BY DEF OrderInit
<1>2. SortInv(graph, inDegree, queue, result)
  BY <1>1, LoopBegins
<1>3. NodeSet(graph) \subseteq PipelineNode
  BY DEF OrderInit, NodeSet, Range
<1>4. QED
  BY <1>2, <1>3 DEF OInv

LEMMA StepOInv == OInv /\ [OrderNext]_orderVars => OInv'
<1> SUFFICES ASSUME OInv, [OrderNext]_orderVars PROVE OInv'
  OBVIOUS
<1>1. CASE Turn
  <2>1. SortInv(graph, inDegree', queue', result') /\ graph' = graph
    BY <1>1, TurnIsTurn, TurnKeepsSortInv DEF OInv
  <2>2. QED
    BY <2>1 DEF OInv
<1>2. CASE UNCHANGED orderVars
  BY <1>2 DEF OInv, orderVars
<1>3. QED
  BY <1>1, <1>2 DEF OrderNext

\* OInv is an invariant of the loop of buildExecutionOrder().
THEOREM OrderInvariance == OrderSpec => []OInv
BY InitOInv, StepOInv, PTL DEF OrderSpec

-----------------------------------------------------------------------------
(* The properties.                                                         *)

\* For every pipeline: only nodes of the pipeline are ever pushed.
THEOREM OrderTypeCorrect == OrderSpec => []OrderTypeOK
<1>1. OInv => OrderTypeOK
  BY DEF OInv, SortInv, SortTypeOK, OrderTypeOK
<1>2. QED
  BY <1>1, OrderInvariance, PTL

\* For every pipeline: no node is executed before the nodes that feed it, and
\* none is executed twice (buildExecutionOrder(), "topological sort").
THEOREM OrdersAreTopological == OrderSpec => []OrderIsTopological
<1>1. OInv => OrderIsTopological
  <2> SUFFICES ASSUME OInv PROVE OrderIsTopological
    OBVIOUS
  <2>1. IsGraph(graph) /\ SortInv(graph, inDegree, queue, result)
    BY DEF OInv, SortInv, SortTypeOK
  <2>2. ASSUME NEW c \in DOMAIN graph.connections,
               graph.connections[c].to \in Range(queue)
        PROVE  graph.connections[c].from \in Range(result)
    <3> DEFINE b == graph.connections[c].to
    <3>1. b \in NodeSet(graph)
      BY <2>1, Endpoints
    <3>2. inDegree[b] = 0 /\ inDegree[b] = Cardinality(Open(graph, result, b))
      BY <2>1, <2>2, <3>1 DEF SortInv, ReadyMeansFree, InDegreeCounts
    <3>3. Open(graph, result, b) \in SUBSET DOMAIN graph.connections
      BY DEF Open
    <3>4. Open(graph, result, b) = {}
      BY <2>1, <3>2, <3>3, ConnectionsFinite
    <3>5. QED
      BY <3>4 DEF Open
  <2>3. \A a, b : Precedes(result, a, b) = Before(a, b)
    BY DEF Precedes, Before
  <2>4. QED
    BY <2>1, <2>2, <2>3 DEF OrderIsTopological, SortInv, SourcesBefore, NoRepeats
<1>2. QED
  BY <1>1, OrderInvariance, PTL

\* For every pipeline: buildExecutionOrder() throws 'Pipeline contains cycles'
\* only if every node left over has a connection from a node left over.
THEOREM OnlyCyclesAreRejected == OrderSpec => []RejectsOnlyCycles
<1>1. OInv => RejectsOnlyCycles
  <2> SUFFICES ASSUME OInv, queue = <<>> PROVE RejectsOnlyCycles
    BY DEF RejectsOnlyCycles
  <2>1. SortInv(graph, inDegree, <<>>, result)
    BY DEF OInv
  <2>2. /\ \A b \in NodeSet(graph) \ Range(result) :
             \E a \in NodeSet(graph) \ Range(result) : Edges(graph, a, b) # {}
        /\ Range(result) \subseteq NodeSet(graph)
        /\ Len(result) = Len(graph.nodes) <=> Range(result) = NodeSet(graph)
    BY <2>1, LeftOver
  <2>3. NodeSet(graph) \ Range(result) = {} <=> Range(result) = NodeSet(graph)
    BY <2>2
  <2>4. QED
    BY <2>2, <2>3 DEF RejectsOnlyCycles
<1>2. QED
  BY <1>1, OrderInvariance, PTL

-----------------------------------------------------------------------------
(* The loop computes the function Sorted, which the engine's model uses.   *)

\* The variables are those of some turn of the function.
AtTurn ==
    \E k \in 0..Len(graph.nodes) :
        Turns(graph)[k] =
          [inDegree |-> inDegree, queue |-> queue, result |-> result]

LoopComputesSorted == queue = <<>> => result = Sorted(graph)

LEMMA InitAtTurn == OrderInit => AtTurn
<1> SUFFICES ASSUME OrderInit PROVE AtTurn
  OBVIOUS
<1>1. IsGraph(graph) /\ 0 \in 0..Len(graph.nodes)
  BY DEF OrderInit, IsGraph
<1>2. queue = CHOOSE q \in Sources(graph) : TRUE
  BY <1>1, PushesAreDetermined DEF OrderInit
<1>3. BeforeLoop(graph) =
        [inDegree |-> inDegree, queue |-> queue, result |-> result]
  BY <1>2 DEF OrderInit, BeforeLoop
<1>4. QED
  BY <1>1, <1>3, TurnsAreTurns DEF AtTurn

LEMMA StepAtTurn == OInv /\ AtTurn /\ [OrderNext]_orderVars => AtTurn'
<1> SUFFICES ASSUME OInv, AtTurn, Turn PROVE AtTurn'
  BY DEF AtTurn, orderVars, OrderNext
<1>1. IsGraph(graph) /\ Len(graph.nodes) \in Nat /\ graph' = graph
  BY DEF OInv, SortInv, SortTypeOK, IsGraph, Turn
<1> DEFINE s == [inDegree |-> inDegree, queue |-> queue, result |-> result]
           a == Head(queue)
           f == CHOOSE x \in Freed(graph, inDegree, a) : TRUE
<1>2. PICK k \in 0..Len(graph.nodes) : Turns(graph)[k] = s
  BY DEF AtTurn
<1>3. k # Len(graph.nodes)
  <2>1. Turns(graph)[Len(graph.nodes)].queue = <<>>
    BY <1>1, LoopIsOver
  <2>2. s.queue # <<>>
    BY DEF Turn
  <2>3. QED
    BY <1>2, <2>1, <2>2
<1>4. k + 1 \in 1..Len(graph.nodes) /\ (k + 1) - 1 = k
  BY <1>1, <1>3
<1>5. Turns(graph)[k + 1] = AfterTurn(graph, s)
  BY <1>1, <1>2, <1>4, TurnsAreTurns
<1>6. AfterTurn(graph, s) =
        [inDegree |-> Decreased(graph, inDegree, a),
         queue    |-> Tail(queue) \o f,
         result   |-> Append(result, a)]
  BY DEF AfterTurn, Turn
<1>7. PICK freed \in Freed(graph, inDegree, a) : queue' = Tail(queue) \o freed
  BY DEF Turn
<1>8. freed = f
  BY <1>1, PushesAreDetermined
<1>9. AfterTurn(graph, s) =
        [inDegree |-> inDegree', queue |-> queue', result |-> result']
  BY <1>6, <1>7, <1>8 DEF Turn
<1>10. QED
  BY <1>1, <1>4, <1>5, <1>9 DEF AtTurn

\* For every pipeline: when the loop ends, its result is the one Sorted gives,
\* so that PipelineExecutor may use the function instead of the loop.
THEOREM LoopIsSorted == OrderSpec => []LoopComputesSorted
<1>1. OInv /\ AtTurn => LoopComputesSorted
  <2> SUFFICES ASSUME OInv, AtTurn, queue = <<>> PROVE result = Sorted(graph)
    BY DEF LoopComputesSorted
  <2>1. PICK k \in 0..Len(graph.nodes) :
           Turns(graph)[k] =
             [inDegree |-> inDegree, queue |-> queue, result |-> result]
    BY DEF AtTurn
  <2>2. IsGraph(graph)
    BY DEF OInv, SortInv, SortTypeOK
  <2>3. Turns(graph)[k].queue = <<>> /\ Turns(graph)[k].result = result
    BY <2>1
  <2>4. QED
    BY <2>2, <2>3, LoopStaysOver
<1>2. QED
  BY <1>1, InitAtTurn, StepAtTurn, OrderInvariance, PTL DEF OrderSpec
=============================================================================
