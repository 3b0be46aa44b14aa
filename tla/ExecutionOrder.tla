--------------------------- MODULE ExecutionOrder ---------------------------
(***************************************************************************)
(* The while loop of PipelineExecutor.buildExecutionOrder(), one turn a     *)
(* step, for every pipeline over the nodes PipelineNode with at most        *)
(* MaxConnections connections.                                             *)
(***************************************************************************)
EXTENDS TopologicalSort

CONSTANTS PipelineNode, MaxConnections

ASSUME OrderAssumption == IsFiniteSet(PipelineNode) /\ MaxConnections \in Nat

VARIABLES
    graph,    \* the pipeline
    inDegree, \* the number of connections to a node that are not visited yet
    queue,    \* the nodes that are ready
    result    \* the order so far

orderVars == <<graph, inDegree, queue, result>>

OrderTypeOK ==
    /\ IsGraph(graph) /\ NodeSet(graph) \subseteq PipelineNode
    /\ inDegree \in [NodeSet(graph) -> Int]
    /\ queue \in Seq(NodeSet(graph))
    /\ result \in Seq(NodeSet(graph))

Connections ==
    UNION {[1..k -> [from : PipelineNode, to : PipelineNode]] : k \in 0..MaxConnections}

OrderInit ==
    /\ \E k \in 0..Cardinality(PipelineNode) :
       \E s \in [1..k -> PipelineNode], c \in Connections :
          graph = [nodes |-> s, connections |-> c]
    /\ IsGraph(graph)
    /\ inDegree = InDegree(graph)
    /\ queue \in Sources(graph)
    /\ result = <<>>

\* Mutant: the freed neighbours are put before the other ready nodes.
TurnDepthFirst ==
    /\ queue # <<>>
    /\ result' = Append(result, Head(queue))
    /\ inDegree' = Decreased(graph, inDegree, Head(queue))
    /\ \E freed \in Freed(graph, inDegree, Head(queue)) :
          queue' = freed \o Tail(queue)
    /\ UNCHANGED graph

\* One turn: shift a node, append it, and visit its neighbours.
Turn ==
    /\ queue # <<>>
    /\ result' = Append(result, Head(queue))
    /\ inDegree' = Decreased(graph, inDegree, Head(queue))
    /\ \E freed \in Freed(graph, inDegree, Head(queue)) :
          queue' = Tail(queue) \o freed
    /\ UNCHANGED graph

OrderNext == Turn

OrderSpec == OrderInit /\ [][OrderNext]_orderVars /\ WF_orderVars(OrderNext)

-----------------------------------------------------------------------------
(* Properties.                                                             *)

\* Positions of the nodes ordered so far.
Before(a, b) == \E x, y \in DOMAIN result : x < y /\ result[x] = a /\ result[y] = b

\* No node is ordered, or ready, before all nodes with a connection to it are
\* ordered, and none is taken twice, even if connections are parallel.
OrderIsTopological ==
    /\ \A c \in DOMAIN graph.connections :
          LET a == graph.connections[c].from
              b == graph.connections[c].to
          IN  /\ b \in Range(result) => Before(a, b)
              /\ b \in Range(queue) => a \in Range(result)
    /\ \A x, y \in DOMAIN result : result[x] = result[y] => x = y
    /\ Range(queue) \cap Range(result) = {}

\* When the loop ends with nodes left over, which makes buildExecutionOrder()
\* throw 'Pipeline contains cycles', the pipeline has a cycle: every node left
\* over has a connection from a node left over.
RejectsOnlyCycles ==
    LET left == NodeSet(graph) \ Range(result)
    IN  queue = <<>> =>
          /\ \A b \in left : \E a \in left : Edges(graph, a, b) # {}
          /\ left = {} <=> Len(result) = Len(graph.nodes)

\* The loop ends, and its result is the one the function Sorted gives.
LoopEnds == <>[](queue = <<>> /\ result = Sorted(graph))
=============================================================================
