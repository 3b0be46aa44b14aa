--------------------- MODULE DistributedPipelineProofs ---------------------
(***************************************************************************)
(* Theorems about the calls of executeDistributed() for any pipelines over *)
(* any scheduler: its invariants are lifted from DistributedExecutorProofs, *)
(* since every step of a call is a step of the scheduler or changes nothing *)
(* in it.                                                                   *)
(***************************************************************************)
EXTENDS DistributedPipeline, DistributedExecutorProofs

-----------------------------------------------------------------------------
(* The progress of a call.                                                 *)

\* Where the call of p is: while it submits a node is left, while it waits all
\* are submitted and each one is polled or has its result.
Progress(p) ==
    /\ submitted[p] \in 0..Len(nodes[p])
    /\ pipelineState[p] = "idle" => submitted[p] = 0
    /\ pipelineState[p] = "submitting" => submitted[p] < Len(nodes[p])
    /\ polled[p] \subseteq NodesOf(p)
    /\ results[p] \subseteq NodesOf(p)
    /\ pipelineState[p] \in {"waiting", "returned"} =>
         /\ submitted[p] = Len(nodes[p])
         /\ results[p] \cup polled[p] = NodesOf(p)
    /\ pipelineState[p] = "returned" => polled[p] = {}

ProgressInv == PipelineTypeOK /\ \A p \in Pipeline : Progress(p)

\* The next node of a call that is submitting is a job.
LEMMA NextNode ==
    ASSUME ProgressInv, NEW p \in Pipeline, pipelineState[p] = "submitting"
    PROVE  /\ submitted[p] + 1 \in DOMAIN nodes[p]
           /\ nodes[p][submitted[p] + 1] \in Job
<1>1. nodes[p] \in Seq(Job)
  BY PipelineAssumption
<1>2. submitted[p] \in Nat /\ submitted[p] < Len(nodes[p])
  BY <1>1 DEF ProgressInv, Progress
<1>3. QED
  BY <1>1, <1>2

\* To the scheduler a step of a call is a submission or nothing.
LEMMA CallsAreClients ==
    ProgressInv /\ [PipelineNext]_pipelineVars => [Next]_vars
<1> SUFFICES ASSUME ProgressInv, [PipelineNext]_pipelineVars PROVE [Next]_vars
  OBVIOUS
<1>1. ASSUME NEW p \in Pipeline, SubmitNode(p) PROVE Next
  <2>1. pipelineState[p] = "submitting" /\ SubmitJob(nodes[p][submitted[p] + 1])
    BY <1>1 DEF SubmitNode
  <2>2. QED
    BY <2>1, NextNode DEF Next
<1>2. CASE Scheduler
  BY <1>2 DEF Scheduler, Next
<1>3. CASE \/ \E p \in Pipeline : Start(p) \/ SubmitRefused(p)
           \/ \E p \in Pipeline : \E j \in NodesOf(p) : Poll(p, j)
           \/ UNCHANGED pipelineVars
  BY <1>3 DEF Start, SubmitRefused, Poll, EndPoll, pipelineVars, vars,
     workerVars, jobVars
<1>4. QED
  BY <1>1, <1>2, <1>3 DEF PipelineNext

\* A pipeline has a node.
LEMMA NodesExist ==
    ASSUME NEW p \in Pipeline
    PROVE  /\ nodes[p] \in Seq(Job) /\ Len(nodes[p]) \in Nat \ {0}
           /\ NodesOf(p) \subseteq Job
<1>1. nodes[p] \in Seq(Job) /\ nodes[p] # <<>>
  BY PipelineAssumption
<1>2. QED
  BY <1>1 DEF NodesOf

LEMMA InitProgress == PipelineInit => ProgressInv
<1> SUFFICES ASSUME PipelineInit PROVE ProgressInv
  OBVIOUS
<1>1. TypeOK
  BY InitTypeOK DEF PipelineInit
<1>2. \A p \in Pipeline : Progress(p)
  BY NodesExist DEF PipelineInit, Progress
<1>3. QED
  BY <1>1, <1>2 DEF ProgressInv, PipelineInit, PipelineTypeOK

\* What a step of the call p leaves alone.
OthersUnchanged(p) ==
    \A r \in Pipeline \ {p} :
        /\ pipelineState'[r] = pipelineState[r]
        /\ submitted'[r] = submitted[r]
        /\ polled'[r] = polled[r]
        /\ results'[r] = results[r]

LEMMA StepProgress ==
    ProgressInv /\ [PipelineNext]_pipelineVars => ProgressInv'
<1> SUFFICES ASSUME ProgressInv, [PipelineNext]_pipelineVars PROVE ProgressInv'
  OBVIOUS
<1>1. TypeOK'
  BY CallsAreClients, StepTypeOK DEF ProgressInv, PipelineTypeOK
<1>2. PipelineTypeOK /\ \A r \in Pipeline : Progress(r)
  BY DEF ProgressInv
<1>3. ASSUME NEW p \in Pipeline, OthersUnchanged(p), Progress(p)'
      PROVE  \A r \in Pipeline : Progress(r)'
  BY <1>2, <1>3 DEF OthersUnchanged, Progress, NodesOf
<1>4. ASSUME NEW p \in Pipeline, Start(p) PROVE ProgressInv'
  <2>1. /\ pipelineState[p] = "idle"
        /\ pipelineState' = [pipelineState EXCEPT ![p] = "submitting"]
        /\ UNCHANGED <<submitted, polled, results, data>>
    BY <1>4 DEF Start
  <2>2. PipelineTypeOK'
    BY <1>1, <1>2, <2>1 DEF PipelineTypeOK
  <2>3. OthersUnchanged(p) /\ Progress(p)'
    BY <1>2, <2>1, NodesExist DEF PipelineTypeOK, OthersUnchanged, Progress, NodesOf
  <2>4. QED
    BY <1>3, <2>2, <2>3 DEF ProgressInv
<1>5. ASSUME NEW p \in Pipeline, SubmitNode(p) PROVE ProgressInv'
  <2> DEFINE j == nodes[p][submitted[p] + 1]
             last == submitted[p] + 1 = Len(nodes[p])
  <2>1. /\ pipelineState[p] = "submitting"
        /\ data' = [data EXCEPT ![j] =
              IF source[j] \in results[p] THEN "result" ELSE "null"]
        /\ submitted' = [submitted EXCEPT ![p] = submitted[p] + 1]
        /\ pipelineState' = [pipelineState EXCEPT ![p] =
              IF last THEN "waiting" ELSE pipelineState[p]]
        /\ polled' = [polled EXCEPT ![p] =
              IF last THEN NodesOf(p) ELSE polled[p]]
        /\ results' = results
    BY <1>5 DEF SubmitNode
  <2>2. /\ j \in Job /\ Len(nodes[p]) \in Nat /\ NodesOf(p) \subseteq Job
        /\ submitted[p] \in Nat /\ submitted[p] < Len(nodes[p])
    BY <1>2, <2>1, NextNode, NodesExist DEF Progress
  <2> HIDE DEF j, last
  <2>3. PipelineTypeOK'
    BY <1>1, <1>2, <2>1, <2>2 DEF PipelineTypeOK
  <2>4. OthersUnchanged(p)
    BY <1>2, <2>1 DEF PipelineTypeOK, OthersUnchanged
  <2>5. /\ submitted'[p] = submitted[p] + 1
        /\ pipelineState'[p] = IF last THEN "waiting" ELSE "submitting"
        /\ polled'[p] = IF last THEN NodesOf(p) ELSE polled[p]
        /\ results'[p] = results[p]
    BY <1>2, <2>1 DEF PipelineTypeOK
  <2>6. Progress(p)'
    BY <1>2, <2>2, <2>5 DEF Progress, NodesOf, last
  <2>7. QED
    BY <1>3, <2>3, <2>4, <2>6 DEF ProgressInv
<1>6. ASSUME NEW p \in Pipeline, SubmitRefused(p) PROVE ProgressInv'
  <2>1. /\ pipelineState' = [pipelineState EXCEPT ![p] = "threw"]
        /\ UNCHANGED <<submitted, polled, results, data>>
    BY <1>6 DEF SubmitRefused
  <2>2. PipelineTypeOK'
    BY <1>1, <1>2, <2>1 DEF PipelineTypeOK
  <2>3. OthersUnchanged(p) /\ Progress(p)'
    BY <1>2, <2>1 DEF PipelineTypeOK, OthersUnchanged, Progress, NodesOf
  <2>4. QED
    BY <1>3, <2>2, <2>3 DEF ProgressInv
<1>7. ASSUME NEW p \in Pipeline, NEW j \in NodesOf(p), Poll(p, j)
      PROVE  ProgressInv'
  <2> DEFINE outcome == jobState[j]
  <2>1. /\ j \in polled[p] /\ outcome \in {"completed", "failed"}
        /\ polled' = [polled EXCEPT ![p] = polled[p] \ {j}]
        /\ results' = [results EXCEPT ![p] =
              IF outcome = "failed" THEN results[p] ELSE results[p] \cup {j}]
        /\ pipelineState' = [pipelineState EXCEPT ![p] =
              IF pipelineState[p] = "waiting" /\ outcome = "failed" THEN "threw"
              ELSE IF pipelineState[p] = "waiting" /\ polled[p] = {j}
                THEN "returned" ELSE pipelineState[p]]
        /\ UNCHANGED <<submitted, data>>
    BY <1>7 DEF Poll, EndPoll
  <2> HIDE DEF outcome
  <2>2. j \in Job
    BY NodesExist
  <2>3. PipelineTypeOK'
    BY <1>1, <1>2, <2>1, <2>2 DEF PipelineTypeOK
  <2>4. OthersUnchanged(p)
    BY <1>2, <2>1 DEF PipelineTypeOK, OthersUnchanged
  <2>5. /\ submitted'[p] = submitted[p] /\ polled'[p] = polled[p] \ {j}
        /\ results'[p] =
              IF outcome = "failed" THEN results[p] ELSE results[p] \cup {j}
        /\ pipelineState'[p] =
              IF pipelineState[p] = "waiting" /\ outcome = "failed" THEN "threw"
              ELSE IF pipelineState[p] = "waiting" /\ polled[p] = {j}
                THEN "returned" ELSE pipelineState[p]
    BY <1>2, <2>1 DEF PipelineTypeOK
  <2>6. Progress(p)'
    BY <1>2, <2>1, <2>5 DEF Progress, NodesOf
  <2>7. QED
    BY <1>3, <2>3, <2>4, <2>6 DEF ProgressInv
<1>8. CASE Scheduler \/ UNCHANGED pipelineVars
  <2>1. UNCHANGED callVars
    BY <1>8 DEF Scheduler, pipelineVars
  <2>2. QED
    BY <1>1, <1>2, <2>1
    DEF ProgressInv, PipelineTypeOK, Progress, NodesOf, callVars
<1>9. QED
  BY <1>4, <1>5, <1>6, <1>7, <1>8 DEF PipelineNext

\* For any pipelines over any scheduler: the state has its type.
THEOREM PipelineTypeCorrect == PipelineSpec => []PipelineTypeOK
<1>1. ProgressInv => PipelineTypeOK
  BY DEF ProgressInv
<1>2. QED
  BY <1>1, InitProgress, StepProgress, PTL DEF PipelineSpec

-----------------------------------------------------------------------------
(* Submissions.                                                            *)

\* The jobs that were submitted are the nodes its call has come to, one call
\* after the other: the guard of submitJob() never stops a submission loop.
SubmissionsFollowNodes ==
    \A p \in Pipeline : \A a \in DOMAIN nodes[p] :
        jobState[nodes[p][a]] = "unsubmitted" <=> a > submitted[p]

\* Only a submission submits a job.
LEMMA BackgroundSubmitsNothing ==
    ASSUME IInv, IInv', Background, NEW j \in Job
    PROVE  jobState'[j] = "unsubmitted" <=> jobState[j] = "unsubmitted"
<1>1. /\ activeJobs \cup completedJobs = {k \in Job : jobState[k] # "unsubmitted"}
      /\ activeJobs' \cup completedJobs' =
            {k \in Job : jobState'[k] # "unsubmitted"}
  BY DEF IInv, NoJobLost
<1>2. activeJobs' \cup completedJobs' = activeJobs \cup completedJobs
  <2>1. ASSUME NEW k \in Job, NEW w \in Worker, Settle(k, w)
        PROVE  activeJobs' \cup completedJobs' = activeJobs \cup completedJobs
    <3>1. InFlight(k)
      BY <2>1 DEF Settle, Succeed, Retry, Fail, Resume, InFlight
    <3>2. k \in activeJobs \cup completedJobs
      BY <1>1, <3>1 DEF IInv, OnlySubmittedKnown, Known
    <3>3. QED
      BY <2>1, <3>2 DEF Settle, Succeed, Retry, Fail, Finish
  <2>2. CASE \/ Tick \/ HealthCheck \/ BeginShutdown \/ EndShutdown
             \/ \E v \in Worker : AddWorker(v) \/ RemoveWorker(v)
             \/ \E v \in Worker : HeartbeatExpires(v) \/ Heartbeat(v)
    BY <2>2 DEF Tick, HealthCheck, BeginShutdown, EndShutdown, AddWorker,
       RemoveWorker, HeartbeatExpires, Heartbeat, jobVars
  <2>3. QED
    BY <2>1, <2>2 DEF Background
<1>3. QED
  BY <1>1, <1>2

\* A submission submits its job and no other.
LEMMA SubmitJobSubmits ==
    ASSUME IInv, IInv', NEW k \in Job, SubmitJob(k), NEW j \in Job
    PROVE  /\ jobState[k] = "unsubmitted"
           /\ jobState'[j] = "unsubmitted" <=>
                jobState[j] = "unsubmitted" /\ j # k
<1>1. /\ activeJobs \cup completedJobs = {i \in Job : jobState[i] # "unsubmitted"}
      /\ activeJobs' \cup completedJobs' =
            {i \in Job : jobState'[i] # "unsubmitted"}
  BY DEF IInv, NoJobLost
<1>2. /\ jobState[k] = "unsubmitted"
      /\ activeJobs' = activeJobs \cup {k} /\ completedJobs' = completedJobs
  BY DEF SubmitJob
<1>3. QED
  BY <1>1, <1>2

SubmissionInv == ProgressInv /\ IInv /\ SubmissionsFollowNodes

LEMMA StepSubmissions ==
    SubmissionInv /\ [PipelineNext]_pipelineVars => SubmissionInv'
<1> SUFFICES ASSUME SubmissionInv, [PipelineNext]_pipelineVars
             PROVE  SubmissionInv'
  OBVIOUS
<1>1. ProgressInv /\ ProgressInv' /\ IInv /\ IInv' /\ SubmissionsFollowNodes
  BY CallsAreClients, StepProgress, StepIInv DEF SubmissionInv
<1>2. SUFFICES ASSUME NEW r \in Pipeline, NEW a \in DOMAIN nodes[r]
               PROVE  jobState'[nodes[r][a]] = "unsubmitted" <=> a > submitted'[r]
  BY <1>1 DEF SubmissionInv, SubmissionsFollowNodes
<1>3. /\ nodes[r][a] \in Job /\ nodes[r][a] \in NodesOf(r)
      /\ jobState[nodes[r][a]] = "unsubmitted" <=> a > submitted[r]
      /\ a \in Nat /\ submitted \in [Pipeline -> Nat]
  BY <1>1, NodesExist
  DEF SubmissionsFollowNodes, NodesOf, ProgressInv, PipelineTypeOK
<1>4. ASSUME NEW p \in Pipeline, SubmitNode(p)
      PROVE  jobState'[nodes[r][a]] = "unsubmitted" <=> a > submitted'[r]
  <2> DEFINE k == nodes[p][submitted[p] + 1]
  <2>1. /\ submitted[p] + 1 \in DOMAIN nodes[p] /\ k \in Job
        /\ submitted' = [submitted EXCEPT ![p] = submitted[p] + 1]
        /\ SubmitJob(k)
    BY <1>1, <1>4, NextNode DEF SubmitNode
  <2>2. k \in NodesOf(p)
    BY <2>1 DEF NodesOf
  <2> HIDE DEF k
  <2>3. jobState'[nodes[r][a]] = "unsubmitted" <=>
          jobState[nodes[r][a]] = "unsubmitted" /\ nodes[r][a] # k
    BY <1>1, <1>3, <2>1, SubmitJobSubmits
  <2>4. CASE r = p
    <3>1. nodes[r][a] = k <=> a = submitted[p] + 1
      BY <2>1, <2>4, PipelineAssumption DEF k
    <3>2. submitted'[r] = submitted[p] + 1 /\ submitted[p] \in Nat
      BY <1>3, <2>1, <2>4
    <3>3. QED
      BY <1>3, <2>3, <2>4, <3>1, <3>2
  <2>5. CASE r # p
    <3>1. nodes[r][a] # k
      BY <1>3, <2>2, <2>5, PipelineAssumption
    <3>2. submitted'[r] = submitted[r]
      BY <1>3, <2>1, <2>5
    <3>3. QED
      BY <1>3, <2>3, <3>1, <3>2
  <2>6. QED
    BY <2>4, <2>5
<1>5. CASE Scheduler
  <2>1. submitted' = submitted /\ Background
    BY <1>5 DEF Scheduler, callVars
  <2>2. QED
    BY <1>1, <1>3, <2>1, BackgroundSubmitsNothing
<1>6. CASE \/ \E p \in Pipeline : Start(p) \/ SubmitRefused(p)
           \/ \E p \in Pipeline : \E j \in NodesOf(p) : Poll(p, j)
           \/ UNCHANGED pipelineVars
  <2>1. jobState' = jobState /\ submitted' = submitted
    BY <1>6 DEF Start, SubmitRefused, Poll, EndPoll, pipelineVars, vars,
       jobVars, callVars
  <2>2. QED
    BY <1>3, <2>1
<1>7. QED
  BY <1>4, <1>5, <1>6 DEF PipelineNext

\* For any pipelines over any scheduler, with refusals, retries, removals and
\* shutdown: the jobs submitted are those of the nodes the calls have come to.
THEOREM SubmissionsAreExact == PipelineSpec => []SubmissionInv
<1>1. PipelineInit => SubmissionInv
  <2> SUFFICES ASSUME PipelineInit PROVE SubmissionInv
    OBVIOUS
  <2>1. SubmissionsFollowNodes
    BY NodesExist DEF PipelineInit, Init, SubmissionsFollowNodes, NodesOf
  <2>2. QED
    BY <2>1, InitProgress, InitIInv DEF SubmissionInv, PipelineInit
<1>2. QED
  BY <1>1, StepSubmissions, PTL DEF PipelineSpec

-----------------------------------------------------------------------------
(* Outcomes.                                                               *)

\* A job with an outcome is in completedJobs.
FinalIsFinished ==
    \A j \in Job : jobState[j] \in {"completed", "failed"} => j \in completedJobs

\* A job that waits for a pass or is in one is not finished by it.
LEMMA StepFinal ==
    IInv /\ [Next]_vars /\ FinalIsFinished => FinalIsFinished'
<1> SUFFICES ASSUME IInv, [Next]_vars, FinalIsFinished,
                    NEW j \in Job, jobState'[j] \in {"completed", "failed"}
             PROVE  j \in completedJobs'
  BY DEF FinalIsFinished
<1>1. TypeOK
  BY DEF IInv
<1>2. ASSUME jobState'[j] = jobState[j], completedJobs \subseteq completedJobs'
      PROVE  j \in completedJobs'
  BY <1>2 DEF FinalIsFinished
<1>3. ASSUME NEW k \in Job, SubmitJob(k) PROVE j \in completedJobs'
  <2> DEFINE q == Append(jobQueue, k)
             state == [jobState EXCEPT ![k] = "pending"]
  <2>1. /\ q \in Seq(Job) /\ state \in [Job -> JobStates]
        /\ workerId \in [Job -> Worker \cup {NoWorker}]
        /\ state[j] = IF j = k THEN "pending" ELSE jobState[j]
    BY <1>1 DEF TypeOK, JobStates
  <2>2. Schedule(q, state, workerId) /\ completedJobs' = completedJobs
    BY <1>3 DEF SubmitJob
  <2> HIDE DEF q, state
  <2>3. jobState'[j] = state[j] \/ jobState'[j] = "running"
    BY <1>1, <2>1, <2>2, PassKeepsJobs
  <2>4. QED
    BY <1>2, <2>1, <2>2, <2>3
<1>4. CASE Tick
  <2>1. /\ jobQueue \in Seq(Job) /\ jobState \in [Job -> JobStates]
        /\ workerId \in [Job -> Worker \cup {NoWorker}]
        /\ Schedule(jobQueue, jobState, workerId)
        /\ completedJobs' = completedJobs
    BY <1>1, <1>4 DEF Tick, TypeOK
  <2>2. jobState'[j] = jobState[j] \/ jobState'[j] = "running"
    BY <1>1, <2>1, PassKeepsJobs
  <2>3. QED
    BY <1>2, <2>1, <2>2
<1>5. ASSUME NEW k \in Job, NEW w \in Worker, Settle(k, w)
      PROVE  j \in completedJobs'
  BY <1>1, <1>2, <1>5 DEF Settle, Succeed, Retry, Fail, Finish, TypeOK
<1>6. ASSUME NEW R \in SUBSET Worker, Remove(R), completedJobs' = completedJobs
      PROVE  j \in completedJobs'
  <2>1. jobState'[j] = "pending" \/ jobState'[j] = jobState[j]
    BY <1>6 DEF Remove
  <2>2. QED
    BY <1>2, <1>6, <2>1
<1>7. ASSUME NEW w \in Worker, RemoveWorker(w) PROVE j \in completedJobs'
  BY <1>6, <1>7 DEF RemoveWorker
<1>8. CASE HealthCheck
  <2>1. Registered \cap stale \in SUBSET Worker
    BY <1>1 DEF TypeOK
  <2>2. QED
    BY <1>2, <1>6, <1>8, <2>1 DEF HealthCheck
<1>9. CASE EndShutdown
  BY <1>2, <1>9 DEF EndShutdown
<1>10. CASE \/ \E w \in Worker : AddWorker(w) \/ HeartbeatExpires(w) \/ Heartbeat(w)
            \/ BeginShutdown \/ UNCHANGED vars
  BY <1>2, <1>10 DEF AddWorker, HeartbeatExpires, Heartbeat, BeginShutdown,
     vars, jobVars
<1>11. QED
  BY <1>3, <1>4, <1>5, <1>7, <1>8, <1>9, <1>10 DEF Next, Background

\* While no worker is removed an outcome is final.
LEMMA OutcomesStay ==
    ASSUME NoRemovals, IInv, SingleCopy, FinalIsFinished, [Next]_vars,
           NEW j \in Job, jobState[j] \in {"completed", "failed"}
    PROVE  jobState'[j] = jobState[j]
<1>1. j \in completedJobs /\ j \notin activeJobs
  BY DEF FinalIsFinished, IInv, NoJobLost
<1>2. ClientStep
  BY StepClient
<1>3. QED
  BY <1>1, <1>2 DEF ClientStep, IInv, TypeOK

\* Every result is that of a job that is still reported as completed.
ResultsAreFinal ==
    \A p \in Pipeline : \A j \in results[p] : jobState[j] = "completed"

\* The invariant behind the two outcomes of a call.
OutcomeInv ==
    /\ ProgressInv
    /\ IInv
    /\ SingleCopy
    /\ FinalIsFinished
    /\ ResultsAreFinal
    /\ ThrowMeansFailure

LEMMA StepResults ==
    ASSUME NoRemovals, OutcomeInv, [PipelineNext]_pipelineVars
    PROVE  ResultsAreFinal'
<1> SUFFICES ASSUME NEW r \in Pipeline, NEW k \in results'[r]
             PROVE  jobState'[k] = "completed"
  BY DEF ResultsAreFinal
<1>1. ProgressInv /\ ResultsAreFinal /\ [Next]_vars
  BY CallsAreClients DEF OutcomeInv
<1>2. ASSUME k \in results[r] PROVE jobState'[k] = "completed"
  <2>1. k \in Job /\ jobState[k] = "completed"
    BY <1>1, <1>2, NodesExist DEF ProgressInv, Progress, ResultsAreFinal
  <2>2. QED
    BY <1>1, <2>1, OutcomesStay DEF OutcomeInv
<1>3. ASSUME NEW p \in Pipeline, NEW j \in NodesOf(p), Poll(p, j)
      PROVE  jobState'[k] = "completed"
  <2>1. /\ jobState[j] \in {"completed", "failed"}
        /\ results' = [results EXCEPT ![p] =
              IF jobState[j] = "failed" THEN results[p] ELSE results[p] \cup {j}]
        /\ jobState' = jobState
    BY <1>3 DEF Poll, EndPoll, vars, jobVars
  <2>2. k \in results[r] \/ (k = j /\ jobState[j] = "completed")
    BY <1>1, <2>1 DEF ProgressInv, PipelineTypeOK
  <2>3. QED
    BY <1>2, <2>1, <2>2
<1>4. CASE \/ \E p \in Pipeline : Start(p) \/ SubmitNode(p) \/ SubmitRefused(p)
           \/ Scheduler \/ UNCHANGED pipelineVars
  BY <1>2, <1>4 DEF Start, SubmitNode, SubmitRefused, Scheduler, callVars,
     pipelineVars
<1>5. QED
  BY <1>3, <1>4 DEF PipelineNext

LEMMA StepThrow ==
    ASSUME NoRemovals, OutcomeInv, [PipelineNext]_pipelineVars
    PROVE  ThrowMeansFailure'
<1> SUFFICES ASSUME NEW r \in Pipeline, pipelineState'[r] = "threw"
             PROVE  \/ \E j \in NodesOf(r) : jobState'[j] = "failed"
                    \/ submitted'[r] < Len(nodes[r])
  BY DEF ThrowMeansFailure, NodesOf
<1>1. ProgressInv /\ ThrowMeansFailure /\ [Next]_vars
  BY CallsAreClients DEF OutcomeInv
<1>2. /\ pipelineState \in
           [Pipeline -> {"idle", "submitting", "waiting", "returned", "threw"}]
      /\ submitted \in [Pipeline -> Nat] /\ Progress(r) /\ NodesOf(r) \subseteq Job
  BY <1>1, NodesExist DEF ProgressInv, PipelineTypeOK
<1>3. ASSUME pipelineState[r] = "threw", submitted'[r] = submitted[r]
      PROVE  \/ \E j \in NodesOf(r) : jobState'[j] = "failed"
             \/ submitted'[r] < Len(nodes[r])
  <2>1. CASE submitted[r] < Len(nodes[r])
    BY <1>3, <2>1
  <2>2. ASSUME NEW j \in NodesOf(r), jobState[j] = "failed"
        PROVE  jobState'[j] = "failed"
    BY <1>1, <1>2, <2>2, OutcomesStay DEF OutcomeInv
  <2>3. QED
    BY <1>1, <1>3, <2>1, <2>2 DEF ThrowMeansFailure
<1>4. ASSUME NEW p \in Pipeline, NEW j \in NodesOf(p), Poll(p, j)
      PROVE  \/ \E i \in NodesOf(r) : jobState'[i] = "failed"
             \/ submitted'[r] < Len(nodes[r])
  <2>1. /\ pipelineState' = [pipelineState EXCEPT ![p] =
              IF pipelineState[p] = "waiting" /\ jobState[j] = "failed"
                THEN "threw"
              ELSE IF pipelineState[p] = "waiting" /\ polled[p] = {j}
                THEN "returned" ELSE pipelineState[p]]
        /\ jobState' = jobState /\ submitted' = submitted
    BY <1>4 DEF Poll, EndPoll, vars, jobVars
  <2>2. pipelineState[r] = "threw" \/ (r = p /\ jobState[j] = "failed")
    BY <1>2, <2>1
  <2>3. QED
    BY <1>3, <2>1, <2>2
<1>5. ASSUME NEW p \in Pipeline, SubmitRefused(p)
      PROVE  \/ \E i \in NodesOf(r) : jobState'[i] = "failed"
             \/ submitted'[r] < Len(nodes[r])
  <2>1. /\ pipelineState[p] = "submitting" /\ submitted' = submitted
        /\ pipelineState' = [pipelineState EXCEPT ![p] = "threw"]
    BY <1>5 DEF SubmitRefused
  <2>2. pipelineState[r] = "threw" \/ r = p
    BY <1>2, <2>1
  <2>3. QED
    BY <1>2, <1>3, <2>1, <2>2 DEF Progress
<1>6. ASSUME NEW p \in Pipeline, Start(p) \/ SubmitNode(p)
      PROVE  pipelineState[r] = "threw" /\ submitted'[r] = submitted[r]
  BY <1>2, <1>6 DEF Start, SubmitNode
<1>7. CASE Scheduler \/ UNCHANGED pipelineVars
  BY <1>3, <1>7 DEF Scheduler, callVars, pipelineVars
<1>8. QED
  BY <1>3, <1>4, <1>5, <1>6, <1>7 DEF PipelineNext

\* For any pipelines, while no worker is removed: the invariant.
THEOREM OutcomeInvariance ==
    ASSUME NoRemovals
    PROVE  PipelineSpec => []OutcomeInv
<1>1. PipelineInit => OutcomeInv
  <2> SUFFICES ASSUME PipelineInit PROVE OutcomeInv
    OBVIOUS
  <2>1. Init /\ ProgressInv /\ IInv
    BY InitProgress, InitIInv DEF PipelineInit
  <2>2. SingleCopy
    BY <2>1 DEF Init, SingleCopy, Queued, InFlight
  <2>3. FinalIsFinished /\ ResultsAreFinal /\ ThrowMeansFailure
    BY <2>1 DEF PipelineInit, Init, FinalIsFinished, ResultsAreFinal,
       ThrowMeansFailure
  <2>4. QED
    BY <2>1, <2>2, <2>3 DEF OutcomeInv
<1>2. OutcomeInv /\ [PipelineNext]_pipelineVars => OutcomeInv'
  <2> SUFFICES ASSUME OutcomeInv, [PipelineNext]_pipelineVars PROVE OutcomeInv'
    OBVIOUS
  <2>1. ProgressInv' /\ [Next]_vars
    BY StepProgress, CallsAreClients DEF OutcomeInv
  <2>2. IInv'
    BY <2>1, StepIInv DEF OutcomeInv
  <2>3. SingleCopy'
    BY <2>1, <2>2, StepSingleCopy DEF OutcomeInv
  <2>4. FinalIsFinished'
    BY <2>1, StepFinal DEF OutcomeInv
  <2>5. QED
    BY <2>1, <2>2, <2>3, <2>4, StepResults, StepThrow DEF OutcomeInv
<1>3. QED
  BY <1>1, <1>2, PTL DEF PipelineSpec

\* While no worker is removed a call that returned success has a result of
\* every node, and all its jobs have finished, however often each was retried.
THEOREM SuccessesAreComplete ==
    ASSUME NoRemovals
    PROVE  PipelineSpec => []SuccessIsComplete
<1>1. OutcomeInv => SuccessIsComplete
  <2> SUFFICES ASSUME OutcomeInv, NEW p \in Pipeline,
                      pipelineState[p] = "returned"
               PROVE  /\ results[p] = NodesOf(p)
                      /\ \A j \in NodesOf(p) :
                           jobState[j] = "completed" /\ ~Queued(j) /\ ~InFlight(j)
    BY DEF SuccessIsComplete
  <2>1. results[p] = NodesOf(p)
    BY DEF OutcomeInv, ProgressInv, Progress
  <2>2. ASSUME NEW j \in NodesOf(p)
        PROVE  jobState[j] = "completed" /\ ~Queued(j) /\ ~InFlight(j)
    <3>1. j \in Job /\ jobState[j] = "completed"
      BY <2>1, NodesExist DEF OutcomeInv, ResultsAreFinal
    <3>2. j \in completedJobs /\ j \notin activeJobs
      BY <3>1 DEF OutcomeInv, FinalIsFinished, IInv, NoJobLost
    <3>3. QED
      BY <3>1, <3>2 DEF OutcomeInv, SingleCopy
  <2>3. QED
    BY <2>1, <2>2
<1>2. QED
  BY <1>1, OutcomeInvariance, PTL

\* While no worker is removed a call that threw has a job that failed for good,
\* or a submission that was refused.
THEOREM ThrowsMeanFailure ==
    ASSUME NoRemovals
    PROVE  PipelineSpec => []ThrowMeansFailure
<1>1. OutcomeInv => ThrowMeansFailure
  BY DEF OutcomeInv
<1>2. QED
  BY <1>1, OutcomeInvariance, PTL

\* Every call of executeDistributed() leaves the scheduler one that keeps to the
\* specification of its own module: what is proved of it holds under pipelines.
THEOREM PipelinesUseTheScheduler == PipelineSpec => Spec
<1>1. PipelineInit => Init
  BY DEF PipelineInit
<1>2. QED
  BY <1>1, CallsAreClients, InitProgress, StepProgress, PTL DEF PipelineSpec, Spec
=============================================================================
