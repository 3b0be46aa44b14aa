----------------------- MODULE MCDistributedPipeline -----------------------
(* Instances of DistributedPipeline for TLC: a pipeline j1 -> j2 and         *)
(* pipelines with the single nodes j3 and j4.                               *)
EXTENDS DistributedPipeline, TLC

CONSTANTS j1, j2, j3, j4, w1, w2, p1, p2, p3, py, other

Jobs       == {j1, j2, j3, j4}
FlakyJobs  == {j1, j3}
Workers    == {w1, w2}
NoWorkers  == {}
Types      == {py, other}
Pipelines  == {p1, p2, p3}
TwoOfThem  == {p1, p2}
MayRefuse  == {p1}
NoRefusal  == {}

Nodes  == (p1 :> <<j1, j2>>) @@ (p2 :> <<j3>>) @@ (p3 :> <<j4>>)
NodesOfTwo == (p1 :> <<j1, j2>>) @@ (p2 :> <<j3>>)
Source == [j \in Job |-> IF j = j2 THEN j1 ELSE NoJob]

AllPython == [j \in Job |-> py]
\* j4 is a node (say of type "input") no worker has an adapter for.
LastUnserved == [j \in Job |-> IF j = j4 THEN other ELSE py]
Python == [w \in Worker |-> {py}]
W1W2   == <<w1, w2>>
=============================================================================
