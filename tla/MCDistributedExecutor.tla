----------------------- MODULE MCDistributedExecutor -----------------------
(* Instances of DistributedExecutor for TLC. *)
EXTENDS DistributedExecutor

CONSTANTS j1, j2, j3, j4, w1, w2, w3, py, other

FourJobs    == {j1, j2, j3, j4}
TwoJobs     == {j1, j2}
OneJob      == {j1}
J2J3        == {j2, j3}
TwoWorkers  == {w1, w2}
ThreeWorkers == {w1, w2, w3}
NoWorkers   == {}
OneWorker   == {w1}
TwoTypes    == {py, other}

\* Every job is of a type the workers serve.
AllPython == [j \in Job |-> py]
\* j1 is a node (say of type "input") no worker has an adapter for.
FirstUnserved == [j \in Job |-> IF j = j1 THEN other ELSE py]

Python == [w \in Worker |-> {py}]

W1W2 == <<w1, w2>>
=============================================================================
