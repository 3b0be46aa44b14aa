-------------------------- MODULE TopologicalSort --------------------------
(***************************************************************************)
(* Kahn's algorithm as PipelineExecutor.buildExecutionOrder() of            *)
(* engine/pipeline-executor.js runs it: one operator per phase, each a      *)
(* function of the Maps and arrays of that method.  A graph is a pipeline   *)
(* with unique node ids whose connections join its nodes, which is what     *)
(* the graph editor saves.                                                  *)
(***************************************************************************)
EXTENDS Sequencing

\* The nodes of the graph g.
NodeSet(g) == Range(g.nodes)

\* A pipeline as the graph editor saves it: its node ids are unique, and its
\* connections join its nodes.
IsGraph(g) ==
    /\ g.nodes \in Seq(NodeSet(g))
    /\ \A a, b \in DOMAIN g.nodes : g.nodes[a] = g.nodes[b] => a = b
    /\ g.connections \in Seq([from : NodeSet(g), to : NodeSet(g)])

\* The positions of the connections from a to b: the editor may save several.
Edges(g, a, b) ==
    {c \in DOMAIN g.connections :
        g.connections[c].from = a /\ g.connections[c].to = b}

\* Mutant: parallel connections are counted once.
InDegreeDistinct(g) ==
    [n \in NodeSet(g) |-> Cardinality({a \in NodeSet(g) : Edges(g, a, n) # {}})]

\* The Map inDegree after the connections have been counted.
InDegree(g) ==
    [n \in NodeSet(g) |->
        Cardinality({c \in DOMAIN g.connections : g.connections[c].to = n})]

\* The queue the loop starts with, as a set of one: the nodes nothing leads to.
Sources(g) ==
    Subsequence(g.nodes, {i \in DOMAIN g.nodes : InDegree(g)[g.nodes[i]] = 0})

\* inDegree after the neighbours of a have been visited.
Decreased(g, d, a) == [n \in NodeSet(g) |-> d[n] - Cardinality(Edges(g, a, n))]

\* Mutant: every neighbour is pushed, whatever is left of its inDegree.
FreedAlways(g, d, a) ==
    LET last == {c \in DOMAIN g.connections :
                    /\ g.connections[c].from = a
                    /\ \A e \in Edges(g, a, g.connections[c].to) : e <= c}
    IN  Subsequence([c \in DOMAIN g.connections |-> g.connections[c].to], last)

\* The neighbours of a that its visit frees, as a set of one sequence: each is
\* pushed when the last connection from a to it brings its inDegree to zero.
Freed(g, d, a) ==
    LET last == {c \in DOMAIN g.connections :
                    /\ g.connections[c].from = a
                    /\ \A e \in Edges(g, a, g.connections[c].to) : e <= c}
        to   == [c \in DOMAIN g.connections |-> g.connections[c].to]
    IN  Subsequence(to, {c \in last : Decreased(g, d, a)[to[c]] = 0})

\* The Map and the arrays when the while loop begins.
BeforeLoop(g) ==
    [inDegree |-> InDegree(g),
     queue    |-> CHOOSE q \in Sources(g) : TRUE,
     result   |-> <<>>]

\* What the next turn of the loop, if there is one, makes of them.
AfterTurn(g, s) ==
    LET a == Head(s.queue)
    IN  IF s.queue = <<>> THEN s
        ELSE [inDegree |-> Decreased(g, s.inDegree, a),
              queue    |-> Tail(s.queue) \o
                             CHOOSE f \in Freed(g, s.inDegree, a) : TRUE,
              result   |-> Append(s.result, a)]

\* The Map and the arrays after k turns.
Turns(g) ==
    LET turn[k \in 0..Len(g.nodes)] ==
          IF k = 0 THEN BeforeLoop(g) ELSE AfterTurn(g, turn[k - 1])
    IN  turn

\* The result when the loop ends, which it does after at most one turn a node.
Sorted(g) == Turns(g)[Len(g.nodes)].result
=============================================================================
