---------------------------- MODULE JobLifecycle ----------------------------
(***************************************************************************)
(* What a job scheduler promises its clients, without workers, queues or   *)
(* retries: a job is submitted at most once, is active until it finishes,  *)
(* and finishes once, completed or failed.  DistributedExecutor implements *)
(* it as long as no worker is removed.                                     *)
(***************************************************************************)
CONSTANT Job

VARIABLE status

Outcomes == {"completed", "failed"}

TypeOK == status \in [Job -> {"unsubmitted", "active"} \cup Outcomes]

Init == status = [j \in Job |-> "unsubmitted"]

Submit(j) ==
    /\ status[j] = "unsubmitted"
    /\ status' = [status EXCEPT ![j] = "active"]

Finish(j) ==
    /\ status[j] = "active"
    /\ \E outcome \in Outcomes : status' = [status EXCEPT ![j] = outcome]

Next == \E j \in Job : Submit(j) \/ Finish(j)

Spec == Init /\ [][Next]_status
=============================================================================
