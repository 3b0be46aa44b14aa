------------------------ MODULE MCPipelineExecutor ------------------------
(* The executor for TLC, and the loop that orders its nodes: a behaviour      *)
(* exercises one of the two, chosen at the start, and the other stays as it   *)
(* is.  The executor runs pipelines over four nodes: a chain with a join, one *)
(* with a node of an unknown type, and a cycle; the loop orders every         *)
(* pipeline over three nodes with up to four connections.                     *)
EXTENDS PipelineExecutor, ExecutionOrder, TLC

CONSTANTS c1, c2, c3, e1, e2, load, train, query, odd, Parts

VARIABLE part

checkedVars == <<part, engineVars, orderVars>>

CheckedInit ==
    /\ part \in Parts
    /\ Init
    /\ \/ part = "loop" /\ OrderInit
       \/ /\ part = "executor"
          /\ graph = [nodes |-> <<>>, connections |-> <<>>]
          /\ inDegree = InDegree(graph) /\ queue = <<>> /\ result = <<>>

CheckedNext ==
    /\ UNCHANGED part
    /\ \/ /\ part = "executor"
          /\ Next
          /\ UNCHANGED orderVars
       \/ /\ part = "loop"
          /\ OrderNext
          /\ UNCHANGED engineVars

CheckedSpec ==
    /\ CheckedInit /\ [][CheckedNext]_checkedVars
    /\ EngineFairness
    /\ WF_orderVars(OrderNext)

-----------------------------------------------------------------------------
Edge(a, b) == [from |-> a, to |-> b]

Join   == [nodes |-> <<train, load, query>>,
           connections |-> <<Edge(query, train), Edge(load, train), Edge(load, query)>>]
Odd    == [nodes |-> <<load, odd>>, connections |-> <<Edge(load, odd)>>]
Cyclic == [nodes |-> <<load, train, query>>,
           connections |-> <<Edge(train, query), Edge(query, train)>>]
Short  == [nodes |-> <<train>>, connections |-> <<>>]

Pipelines == {Join, Odd, Cyclic, Short}
Adapters == (load :> NoAdapter) @@ (train :> "python") @@ (query :> "sql")
              @@ (odd :> NoSuchType)

OnOneExecutor   == [c \in Call |-> e1]
OnTwoExecutors  == [c \in Call |-> IF c \in {c1, c2} THEN e1 ELSE e2]
=============================================================================
