------------------------ MODULE DistributedPipeline ------------------------
(***************************************************************************)
(* PremiumOrchestrator.executeDistributed() of premium-orchestrator.js over *)
(* the scheduler of DistributedExecutor: a pipeline submits one job per     *)
(* node and then polls the status of every job once a second.              *)
(*                                                                          *)
(* The awaits of the submission loop resolve without a timer (trackUsage()  *)
(* has none), so only other submission loops run between two submissions:   *)
(* the actions of DistributedExecutor, all of which need a timer to fire,   *)
(* wait until no pipeline is submitting.                                    *)
(***************************************************************************)
EXTENDS DistributedExecutor

CONSTANTS
    Pipeline,   \* the calls of executeDistributed()
    nodes,      \* nodes[p]: pipeline.nodes, as the jobs they become
    source,     \* source[j]: the node of the first connection to j, or NoJob
    NoJob,
    Refusals    \* the pipelines the licence's API call limit may refuse

NodesOf(p) == {nodes[p][a] : a \in DOMAIN nodes[p]}

ASSUME PipelineAssumption ==
    /\ NoJob \notin Job
    /\ nodes \in [Pipeline -> Seq(Job) \ {<<>>}]
    /\ source \in [Job -> Job \cup {NoJob}]
    /\ \A p \in Pipeline : \A a, b \in DOMAIN nodes[p] :
          nodes[p][a] = nodes[p][b] => a = b
    /\ \A p, r \in Pipeline : p # r => NodesOf(p) \cap NodesOf(r) = {}
    /\ Refusals \subseteq Pipeline

VARIABLES
    pipelineState, \* where the call is: "idle", "submitting", "waiting", and
                   \* finally "returned" or "threw"
    submitted,     \* the number of nodes submitted (jobs.length)
    polled,        \* the nodes whose polling loop has not ended
    results,       \* the nodes in the results Map
    data           \* job.data: "unset" before the submission, then "null" or
                   \* the "result" of the node's source

callVars     == <<pipelineState, submitted, polled, results, data>>
pipelineVars == <<vars, callVars>>

PipelineTypeOK ==
    /\ TypeOK
    /\ pipelineState \in
          [Pipeline -> {"idle", "submitting", "waiting", "returned", "threw"}]
    /\ submitted \in [Pipeline -> Nat]
    /\ polled \in [Pipeline -> SUBSET Job]
    /\ results \in [Pipeline -> SUBSET Job]
    /\ data \in [Job -> {"unset", "null", "result"}]

PipelineInit ==
    /\ Init
    /\ pipelineState = [p \in Pipeline |-> "idle"]
    /\ submitted = [p \in Pipeline |-> 0]
    /\ polled = [p \in Pipeline |-> {}]
    /\ results = [p \in Pipeline |-> {}]
    /\ data = [j \in Job |-> "unset"]

Start(p) ==
    /\ pipelineState[p] = "idle"
    /\ pipelineState' = [pipelineState EXCEPT ![p] = "submitting"]
    /\ UNCHANGED <<vars, submitted, polled, results, data>>

\* One turn of the submission loop: getNodeInput() and submitJob().  A missing
\* result is undefined, which the default of Job's parameter turns into null.
SubmitNode(p) ==
    LET j == nodes[p][submitted[p] + 1]
        last == submitted[p] + 1 = Len(nodes[p])
    IN  /\ pipelineState[p] = "submitting"
        /\ SubmitJob(j)
        /\ data' = [data EXCEPT ![j] =
              IF source[j] \in results[p] THEN "result" ELSE "null"]
        /\ submitted' = [submitted EXCEPT ![p] = @ + 1]
        /\ pipelineState' =
              [pipelineState EXCEPT ![p] = IF last THEN "waiting" ELSE @]
        /\ polled' = [polled EXCEPT ![p] = IF last THEN NodesOf(p) ELSE @]
        /\ UNCHANGED results

\* trackUsage('apiCalls') throws: the call ends, what it submitted goes on.
SubmitRefused(p) ==
    /\ p \in Refusals
    /\ pipelineState[p] = "submitting"
    /\ pipelineState' = [pipelineState EXCEPT ![p] = "threw"]
    /\ UNCHANGED <<vars, submitted, polled, results, data>>

\* The polling loop of node j ends with the outcome.  The first failure rejects
\* Promise.all(), the other loops go on; the last success resolves it.
EndPoll(p, j, outcome) ==
    /\ polled' = [polled EXCEPT ![p] = @ \ {j}]
    /\ results' = [results EXCEPT ![p] =
          IF outcome = "failed" THEN @ ELSE @ \cup {j}]
    /\ pipelineState' = [pipelineState EXCEPT ![p] =
          IF @ = "waiting" /\ outcome = "failed" THEN "threw"
          ELSE IF @ = "waiting" /\ polled[p] = {j} THEN "returned" ELSE @]
    /\ UNCHANGED <<vars, submitted, data>>

\* Mutant: the loop ends as soon as the job is no longer waiting.
PollUntilStarted(p, j) ==
    /\ j \in polled[p]
    /\ jobState[j] # "pending"
    /\ EndPoll(p, j, jobState[j])

\* Mutant: the loop takes job.error, which a retry sets too, for a failure.
PollErrors(p, j) ==
    /\ j \in polled[p]
    /\ jobState[j] \in {"completed", "failed"} \/ retries[j] > 0
    /\ EndPoll(p, j, IF retries[j] > 0 THEN "failed" ELSE jobState[j])

\* Mutant: the loop waits for success only.
PollUntilCompleted(p, j) ==
    /\ j \in polled[p]
    /\ jobState[j] = "completed"
    /\ EndPoll(p, j, jobState[j])

\* A poll that finds the job completed or failed; any other poll does nothing.
Poll(p, j) ==
    /\ j \in polled[p]
    /\ jobState[j] \in {"completed", "failed"}
    /\ EndPoll(p, j, jobState[j])

\* The scheduler goes on by itself.
Scheduler ==
    /\ \A p \in Pipeline : pipelineState[p] # "submitting"
    /\ Background
    /\ UNCHANGED callVars

PipelineNext ==
    \/ \E p \in Pipeline : Start(p) \/ SubmitNode(p) \/ SubmitRefused(p)
    \/ \E p \in Pipeline : \E j \in NodesOf(p) :
          /\ \A r \in Pipeline : pipelineState[r] # "submitting"
          /\ Poll(p, j)
    \/ Scheduler

PipelineSpec == PipelineInit /\ [][PipelineNext]_pipelineVars

\* The submission loop and the polling timers run, setInterval keeps calling
\* scheduleJobs(), and every adapter call returns.
PipelineFairness ==
    /\ \A p \in Pipeline : WF_pipelineVars(SubmitNode(p) \/ SubmitRefused(p))
    /\ \A p \in Pipeline : \A j \in NodesOf(p) : WF_pipelineVars(Poll(p, j))
    /\ WF_pipelineVars(Tick /\ UNCHANGED callVars)
    /\ \A j \in Job, w \in Worker :
          WF_pipelineVars(Settle(j, w) /\ UNCHANGED callVars)

FairPipelineSpec == PipelineSpec /\ PipelineFairness

-----------------------------------------------------------------------------
(* Properties.                                                             *)

\* A pipeline that returned success has a result for every node, and every one
\* of its jobs has really finished, however often it was retried: none is still
\* queued, executed or reported as failed.
SuccessIsComplete ==
    \A p \in Pipeline : pipelineState[p] = "returned" =>
        /\ results[p] = NodesOf(p)
        /\ \A j \in NodesOf(p) :
              jobState[j] = "completed" /\ ~Queued(j) /\ ~InFlight(j)

\* A pipeline is reported as failed only for a job that failed for good or for
\* a submission the licence refused, never for an attempt that is retried.
ThrowMeansFailure ==
    \A p \in Pipeline : pipelineState[p] = "threw" =>
        \/ \E j \in NodesOf(p) : jobState[j] = "failed"
        \/ submitted[p] < Len(nodes[p])

\* No worker registered for the job's type will ever take a job again.
Blocked(j) == \A w \in Registered : jobType[j] \in capabilities[w] => Exhausted(w)

\* A node of the pipeline waits in the queue for good: its own type has no
\* worker left, or, where a pass stops at the first job that nobody takes, the
\* type of the job at the head of the queue has none.
Starved(p) ==
    \E j \in NodesOf(p) :
        /\ Queued(j)
        /\ Blocked(j) \/ (Strategy # "capability-match" /\ Blocked(Head(jobQueue)))

\* A waiting call ends, whatever fails, is retried or is refused, unless the
\* scheduler is shut down or the pipeline is starved: nothing else, no order of
\* retries and polls and no other pipeline, keeps its polling loops going.
\* (premium-orchestrator.js:224-247)
WaitsOnlyWhenStarved ==
    \A p \in Pipeline :
        pipelineState[p] = "waiting" ~>
            pipelineState[p] \in {"returned", "threw"} \/ phase # "up" \/ Starved(p)

\* "Wait for all jobs to complete" (premium-orchestrator.js, line 224): the call
\* ends, whatever its jobs do, unless the scheduler is shut down.
PipelinesReturn ==
    \A p \in Pipeline :
        pipelineState[p] = "waiting" ~>
            pipelineState[p] \in {"returned", "threw"} \/ phase # "up"
=============================================================================
