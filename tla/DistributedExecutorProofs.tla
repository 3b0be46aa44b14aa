--------------------- MODULE DistributedExecutorProofs ---------------------
(***************************************************************************)
(* Theorems about DistributedExecutor for every set of jobs and workers,   *)
(* every strategy and every limit.                                         *)
(***************************************************************************)
EXTENDS DistributedExecutor, SequencingProofs

-----------------------------------------------------------------------------
(* What a scheduling pass does to the state.                               *)

\* The available workers are registered workers.
LEMMA AvailableWorkers ==
    ASSUME TypeOK
    PROVE  Available \subseteq Worker
BY DEF TypeOK, Available, Registered

\* The effect of the pass p over q, which leaves the positions h in the queue.
PassEffect(q, state, id, p, h) ==
    /\ IsPass(q, p)
    /\ jobQueue' \in Seq(Job)
    /\ Renumbers(h, jobQueue', q, Unplaced(p))
    /\ currentJobs' = [w \in Worker |->
          currentJobs[w] \cup {q[i] : i \in {n \in DOMAIN q : p[n] = w}}]
    /\ executions' \in [Job -> [Worker -> Nat]]
    /\ \A j \in Job, w \in Worker :
          executions'[j][w] = executions[j][w] +
              Cardinality({i \in DOMAIN q : q[i] = j /\ p[i] = w})
    /\ \A j \in Job, w \in Worker :
          /\ executions'[j][w] >= executions[j][w]
          /\ executions'[j][w] > executions[j][w] <=>
                \E i \in DOMAIN q : q[i] = j /\ p[i] = w
    /\ jobState' \in [Job -> JobStates]
    /\ workerId' \in [Job -> Worker \cup {NoWorker}]
    /\ \A j \in Job :
          \/ /\ \A i \in DOMAIN q : q[i] = j => p[i] = NoWorker
             /\ jobState'[j] = state[j]
             /\ workerId'[j] = id[j]
          \/ /\ \E i \in DOMAIN q : q[i] = j /\ p[i] # NoWorker
                                     /\ workerId'[j] = p[i]
             /\ jobState'[j] = "running"

\* Every call of scheduleJobs() has the effect of some pass.
LEMMA SchedulePass ==
    ASSUME TypeOK, NEW q \in Seq(Job),
           NEW state \in [Job -> JobStates],
           NEW id \in [Job -> Worker \cup {NoWorker}],
           Schedule(q, state, id)
    PROVE  \E p \in [DOMAIN q -> Available \cup {NoWorker}] :
           \E h : PassEffect(q, state, id, p, h)
<1> DEFINE given(p, j) == {i \in DOMAIN q : q[i] = j /\ p[i] # NoWorker}
           on(p, j, w) == {i \in DOMAIN q : q[i] = j /\ p[i] = w}
<1>1. PICK p \in [DOMAIN q -> Available \cup {NoWorker}] :
         /\ IsPass(q, p)
         /\ jobQueue' \in Subsequence(q, Unplaced(p))
         /\ currentJobs' = [w \in Worker |->
               currentJobs[w] \cup {q[i] : i \in {n \in DOMAIN q : p[n] = w}}]
         /\ executions' = [j \in Job |-> [w \in Worker |->
               executions[j][w] + Cardinality(on(p, j, w))]]
         /\ jobState' = [j \in Job |->
               IF given(p, j) = {} THEN state[j] ELSE "running"]
         /\ workerId' = [j \in Job |->
               IF given(p, j) = {} THEN id[j] ELSE p[Max(given(p, j))]]
  BY DEF Schedule
<1>2. DOMAIN q = 1..Len(q) /\ Len(q) \in Nat /\ DOMAIN p = DOMAIN q
  OBVIOUS
<1>3. Unplaced(p) \in SUBSET DOMAIN q
  BY <1>2 DEF Unplaced
<1>4. jobQueue' \in Seq(Job) /\ \E h : Renumbers(h, jobQueue', q, Unplaced(p))
  <2>1. \A r \in Subsequence(q, Unplaced(p)) :
           r \in Seq(Job) /\ \E h : Renumbers(h, r, q, Unplaced(p))
    BY <1>3, SubsequenceProperties
  <2>2. QED
    BY <1>1, <2>1
<1>5. PICK h : Renumbers(h, jobQueue', q, Unplaced(p))
  BY <1>4
<1>6. \A j \in Job, w \in Worker :
         /\ executions'[j][w] = executions[j][w] + Cardinality(on(p, j, w))
         /\ executions'[j][w] \in Nat
         /\ executions'[j][w] >= executions[j][w]
         /\ executions'[j][w] > executions[j][w] <=>
               \E i \in DOMAIN q : q[i] = j /\ p[i] = w
  <2> TAKE j \in Job, w \in Worker
  <2>1. /\ Cardinality(on(p, j, w)) \in Nat
        /\ Cardinality(on(p, j, w)) > 0 <=> on(p, j, w) # {}
    BY <1>2, PositionsCount
  <2>2. executions'[j][w] = executions[j][w] + Cardinality(on(p, j, w))
    BY <1>1
  <2>3. executions[j][w] \in Nat
    BY DEF TypeOK
  <2>4. QED
    BY <2>1, <2>2, <2>3
<1>7. executions' \in [Job -> [Worker -> Nat]]
  <2>1. \A j \in Job : executions'[j] \in [Worker -> Nat]
    BY <1>1, <1>6, ZenonT(60)
  <2>2. QED
    BY <1>1, <2>1
<1>8. \A j \in Job :
         \/ /\ \A i \in DOMAIN q : q[i] = j => p[i] = NoWorker
            /\ jobState'[j] = state[j]
            /\ workerId'[j] = id[j]
         \/ /\ \E i \in DOMAIN q : q[i] = j /\ p[i] # NoWorker
                                    /\ workerId'[j] = p[i]
            /\ jobState'[j] = "running"
  <2> TAKE j \in Job
  <2>1. CASE given(p, j) = {}
    BY <1>1, <2>1
  <2>2. CASE given(p, j) # {}
    <3>1. Max(given(p, j)) \in given(p, j)
      BY <1>2, <2>2, MaxOfPositions
    <3>2. QED
      BY <1>1, <2>2, <3>1
  <2>3. QED
    BY <2>1, <2>2
<1>9. jobState' \in [Job -> JobStates]
  BY <1>1 DEF JobStates
<1>10. workerId' \in [Job -> Worker \cup {NoWorker}]
  <2>1. \A j \in Job : workerId'[j] \in Worker \cup {NoWorker}
    BY <1>8, AvailableWorkers
  <2>2. QED
    BY <1>1, <2>1
<1>11. PassEffect(q, state, id, p, h)
  BY <1>1, <1>4, <1>5, <1>6, <1>7, <1>8, <1>9, <1>10, ZenonT(60) DEF PassEffect
<1>12. QED
  BY <1>11

-----------------------------------------------------------------------------
(* What the other operations do.                                           *)

\* The jobs a set of workers counts.
HeldBy(R, j) == \E w \in R : j \in currentJobs[w]

\* The effect of removing the workers R, which requeues the jobs t.
RemoveEffect(R, t) ==
    /\ t \in Seq(Job)
    /\ jobQueue' = jobQueue \o t
    /\ \A j \in Job : HeldBy(R, j) <=> \E a \in DOMAIN t : t[a] = j
    /\ \A j \in Job : jobState'[j] = IF HeldBy(R, j) THEN "pending" ELSE jobState[j]
    /\ \A j \in Job : workerId'[j] = IF HeldBy(R, j) THEN NoWorker ELSE workerId[j]
    /\ jobState' \in [Job -> JobStates]
    /\ workerId' \in [Job -> Worker \cup {NoWorker}]
    /\ workers' \in Seq(Worker)

\* Removing workers has such an effect, whatever the order of their jobs.
LEMMA RemoveOutcome ==
    ASSUME TypeOK, NEW R \in SUBSET Worker, Remove(R)
    PROVE  \E t : RemoveEffect(R, t)
<1> DEFINE held == {e \in R \X Job : e[2] \in currentJobs[e[1]]}
           n == Cardinality(held)
<1>1. n \in Nat
  <2>1. IsFiniteSet(R \X Job)
    BY ConstantsAssumption, FS_Subset, FS_Product
  <2>2. QED
    BY <2>1, FS_Subset, FS_CardinalityType
<1>2. PICK s \in Bijection(1..n, held) :
         jobQueue' = jobQueue \o [a \in 1..n |-> s[a][2]]
  BY DEF Remove
<1> DEFINE t == [a \in 1..n |-> s[a][2]]
<1>3. s \in [1..n -> held] /\ \A e \in held : \E a \in 1..n : s[a] = e
  BY <1>2 DEF Bijection, Surjection
<1>4. t \in Seq(Job)
  <2>1. \A a \in 1..n : s[a][2] \in Job
    BY <1>3
  <2>2. QED
    BY <1>1, <2>1
<1>5. \A j \in Job : HeldBy(R, j) <=> \E a \in DOMAIN t : t[a] = j
  <2> TAKE j \in Job
  <2>1. ASSUME HeldBy(R, j) PROVE \E a \in DOMAIN t : t[a] = j
    <3>1. PICK w \in R : j \in currentJobs[w]
      BY <2>1 DEF HeldBy
    <3>2. <<w, j>> \in held
      BY <3>1
    <3>3. PICK a \in 1..n : s[a] = <<w, j>>
      BY <1>3, <3>2
    <3>4. s[a][2] = j
      BY <3>3
    <3>5. DOMAIN t = 1..n /\ t[a] = s[a][2]
      BY <3>3
    <3>6. QED
      BY <3>3, <3>4, <3>5
  <2>2. ASSUME NEW a \in DOMAIN t, t[a] = j PROVE HeldBy(R, j)
    <3>1. s[a] \in held /\ s[a][2] = j
      BY <1>3, <2>2
    <3>2. QED
      BY <3>1 DEF HeldBy
  <2>3. QED
    BY <2>1, <2>2
<1>6. workers' \in Seq(Worker)
  <2>1. {a \in DOMAIN workers : workers[a] \notin R} \in SUBSET DOMAIN workers
    OBVIOUS
  <2>2. workers \in Seq(Worker)
    BY DEF TypeOK
  <2>3. \A I \in SUBSET DOMAIN workers : \A r \in Subsequence(workers, I) :
           r \in Seq(Worker)
    BY <2>2, SubsequenceProperties
  <2>4. QED
    BY <2>1, <2>3 DEF Remove
<1>7. /\ jobState' = [j \in Job |->
            IF HeldBy(R, j) THEN "pending" ELSE jobState[j]]
      /\ workerId' = [j \in Job |->
            IF HeldBy(R, j) THEN NoWorker ELSE workerId[j]]
  BY DEF Remove, HeldBy
<1>8. jobState' \in [Job -> JobStates] /\ workerId' \in [Job -> Worker \cup {NoWorker}]
  BY <1>7 DEF TypeOK, JobStates
<1>9. RemoveEffect(R, t)
  <2> HIDE DEF t
  <2> QED
    BY <1>2, <1>4, <1>5, <1>6, <1>7, <1>8 DEF RemoveEffect, t
<1>10. QED
  BY <1>9

\* What the return of executeJob() does to its counter and nothing else.
LEMMA ResumeProperties ==
    ASSUME TypeOK, NEW j \in Job, NEW w \in Worker, Resume(j, w)
    PROVE  /\ executions' \in [Job -> [Worker -> Nat]]
           /\ executions[j][w] > 0
           /\ executions'[j][w] = executions[j][w] - 1
           /\ \A k \in Job, v \in Worker :
                k # j \/ v # w => executions'[k][v] = executions[k][v]
<1>1. executions[j] \in [Worker -> Nat] /\ executions[j][w] \in Nat
  BY DEF TypeOK
<1>2. executions' = [executions EXCEPT ![j] =
                        [executions[j] EXCEPT ![w] = executions[j][w] - 1]]
  BY DEF Resume
<1>3. executions[j][w] - 1 \in Nat /\ executions[j][w] > 0
  BY <1>1 DEF Resume
<1>4. [executions[j] EXCEPT ![w] = executions[j][w] - 1] \in [Worker -> Nat]
  BY <1>1, <1>3
<1>5. QED
  BY <1>1, <1>2, <1>3, <1>4 DEF TypeOK

-----------------------------------------------------------------------------
(* Type correctness.                                                       *)

LEMMA InitTypeOK == Init => TypeOK
BY ConstantsAssumption DEF Init, TypeOK, JobStates

\* A scheduling pass keeps the types of what it writes.
LEMMA ScheduleTypeOK ==
    ASSUME TypeOK, NEW q \in Seq(Job),
           NEW state \in [Job -> JobStates],
           NEW id \in [Job -> Worker \cup {NoWorker}],
           Schedule(q, state, id)
    PROVE  /\ jobQueue' \in Seq(Job)
           /\ currentJobs' \in [Worker -> SUBSET Job]
           /\ executions' \in [Job -> [Worker -> Nat]]
           /\ jobState' \in [Job -> JobStates]
           /\ workerId' \in [Job -> Worker \cup {NoWorker}]
<1>1. PICK p \in [DOMAIN q -> Available \cup {NoWorker}] :
         \E h : PassEffect(q, state, id, p, h)
  BY SchedulePass
<1>2. \A w \in Worker : {q[i] : i \in {n \in DOMAIN q : p[n] = w}} \subseteq Job
  OBVIOUS
<1>3. QED
  BY <1>1, <1>2 DEF PassEffect, TypeOK

\* Freeing a slot and finishing a job keep the types.
LEMMA CompleteJobTypeOK ==
    ASSUME TypeOK, NEW j \in Job, NEW w \in Worker, CompleteJob(j, w)
    PROVE  /\ currentJobs' \in [Worker -> SUBSET Job]
           /\ workerState' \in [Worker -> {"new", "online", "offline"}]
<1>1. currentJobs[w] \ {j} \in SUBSET Job
  BY DEF TypeOK
<1>2. QED
  BY <1>1 DEF CompleteJob, TypeOK

LEMMA FinishTypeOK ==
    ASSUME TypeOK, NEW j \in Job, NEW outcome \in JobStates, Finish(j, outcome)
    PROVE  /\ jobState' \in [Job -> JobStates]
           /\ completedJobs' \subseteq Job
           /\ activeJobs' \subseteq Job
BY DEF TypeOK, Finish

LEMMA CountTypeOK ==
    ASSUME TypeOK
    PROVE  /\ [stats EXCEPT !.completed = @ + 1] \in [completed : Nat, failed : Nat]
           /\ [stats EXCEPT !.failed = @ + 1] \in [completed : Nat, failed : Nat]
<1>1. stats = [completed |-> stats.completed, failed |-> stats.failed]
  BY DEF TypeOK
<1>2. stats.completed + 1 \in Nat /\ stats.failed + 1 \in Nat
  BY DEF TypeOK
<1>3. /\ [stats EXCEPT !.completed = @ + 1] =
            [completed |-> stats.completed + 1, failed |-> stats.failed]
      /\ [stats EXCEPT !.failed = @ + 1] =
            [completed |-> stats.completed, failed |-> stats.failed + 1]
  BY <1>1
<1>4. stats.completed \in Nat /\ stats.failed \in Nat
  BY DEF TypeOK
<1>5. QED
  BY <1>2, <1>3, <1>4

LEMMA StepTypeOK == TypeOK /\ [Next]_vars => TypeOK'
<1> SUFFICES ASSUME TypeOK, [Next]_vars PROVE TypeOK'
  OBVIOUS
<1>1. ASSUME NEW j \in Job, SubmitJob(j) PROVE TypeOK'
  <2>1. Append(jobQueue, j) \in Seq(Job)
    BY DEF TypeOK
  <2>2. [jobState EXCEPT ![j] = "pending"] \in [Job -> JobStates]
    BY DEF TypeOK, JobStates
  <2>3. workerId \in [Job -> Worker \cup {NoWorker}]
    BY DEF TypeOK
  <2>4. /\ jobQueue' \in Seq(Job)
        /\ currentJobs' \in [Worker -> SUBSET Job]
        /\ executions' \in [Job -> [Worker -> Nat]]
        /\ jobState' \in [Job -> JobStates]
        /\ workerId' \in [Job -> Worker \cup {NoWorker}]
    BY <1>1, <2>1, <2>2, <2>3, ScheduleTypeOK DEF SubmitJob
  <2>5. QED
    BY <1>1, <2>4 DEF TypeOK, SubmitJob, workerVars
<1>2. CASE Tick
  <2>1. /\ jobQueue' \in Seq(Job)
        /\ currentJobs' \in [Worker -> SUBSET Job]
        /\ executions' \in [Job -> [Worker -> Nat]]
        /\ jobState' \in [Job -> JobStates]
        /\ workerId' \in [Job -> Worker \cup {NoWorker}]
    BY <1>2, ScheduleTypeOK DEF Tick, TypeOK
  <2>2. QED
    BY <1>2, <2>1 DEF TypeOK, Tick, workerVars
<1>3. ASSUME NEW j \in Job, NEW w \in Worker, Settle(j, w) PROVE TypeOK'
  <2>1. executions' \in [Job -> [Worker -> Nat]]
    BY <1>3, ResumeProperties DEF Settle, Succeed, Retry, Fail
  <2>2. CASE Succeed(j, w)
    <3>1. stats' \in [completed : Nat, failed : Nat]
      BY <2>2, CountTypeOK DEF Succeed
    <3>2. QED
      BY <2>1, <2>2, <3>1, FinishTypeOK, CompleteJobTypeOK
      DEF TypeOK, Succeed, JobStates
  <2>3. CASE Retry(j, w)
    <3>1. Append(jobQueue, j) \in Seq(Job)
      BY DEF TypeOK
    <3>2. retries[j] + 1 \in 0..MaxRetries
      BY <2>3, ConstantsAssumption DEF TypeOK, Retry
    <3>3. QED
      BY <2>1, <2>3, <3>1, <3>2 DEF TypeOK, Retry, workerVars, JobStates
  <2>4. CASE Fail(j, w)
    <3>1. stats' \in [completed : Nat, failed : Nat]
      BY <2>4, CountTypeOK DEF Fail
    <3>2. QED
      BY <2>1, <2>4, <3>1, FinishTypeOK, CompleteJobTypeOK
      DEF TypeOK, Fail, JobStates
  <2>5. QED
    BY <1>3, <2>2, <2>3, <2>4 DEF Settle
<1>4. ASSUME NEW w \in Worker, AddWorker(w) PROVE TypeOK'
  BY <1>4 DEF TypeOK, AddWorker, jobVars
<1>5. ASSUME NEW w \in Worker, RemoveWorker(w) PROVE TypeOK'
  <2>1. PICK t : RemoveEffect({w}, t)
    BY <1>5, RemoveOutcome DEF RemoveWorker
  <2>2. QED
    BY <1>5, <2>1 DEF TypeOK, RemoveWorker, RemoveEffect
<1>6. ASSUME NEW w \in Worker, HeartbeatExpires(w) PROVE TypeOK'
  BY <1>6 DEF TypeOK, HeartbeatExpires, jobVars
<1>7. ASSUME NEW w \in Worker, Heartbeat(w) PROVE TypeOK'
  BY <1>7 DEF TypeOK, Heartbeat, jobVars
<1>8. CASE HealthCheck
  <2>1. workerState' \in [Worker -> {"new", "online", "offline"}]
    BY <1>8 DEF TypeOK, HealthCheck
  <2>2. CASE RemoveUnhealthyWorkers
    <3>1. PICK t : RemoveEffect(Registered \cap stale, t)
      BY <1>8, <2>2, RemoveOutcome DEF HealthCheck, TypeOK
    <3>2. UNCHANGED <<stale, currentJobs, activeJobs, completedJobs, retries,
                      executions, stats, phase>>
      BY <1>8 DEF HealthCheck
    <3>3. jobQueue' \in Seq(Job)
      BY <3>1 DEF RemoveEffect, TypeOK
    <3>4. QED
      BY <2>1, <3>1, <3>2, <3>3 DEF TypeOK, RemoveEffect
  <2>3. CASE ~RemoveUnhealthyWorkers
    BY <1>8, <2>1, <2>3 DEF TypeOK, HealthCheck
  <2>4. QED
    BY <2>2, <2>3
<1>9. CASE BeginShutdown
  BY <1>9 DEF TypeOK, BeginShutdown, workerVars, jobVars
<1>10. CASE EndShutdown
  BY <1>10 DEF TypeOK, EndShutdown, workerVars, JobStates
<1>11. CASE UNCHANGED vars
  BY <1>11 DEF TypeOK, vars, workerVars, jobVars
<1>12. QED
  BY <1>1, <1>2, <1>3, <1>4, <1>5, <1>6, <1>7, <1>8, <1>9, <1>10, <1>11 DEF Next, Background

\* Every variable of the scheduler keeps its type; in particular no job is
\* retried more often than maxRetries and no counter goes below zero.
THEOREM TypeCorrect == Spec => []TypeOK
<1>1. QED
  BY InitTypeOK, StepTypeOK, PTL DEF Spec

-----------------------------------------------------------------------------
(* No job is lost, and the reported worker is the one that executes.       *)

\* The scheduler holds the job somewhere besides its two Maps of jobs.
Known(j) == Queued(j) \/ InFlight(j) \/ HeldBy(Worker, j)

\* Only submitted jobs are queued, executed or counted by a worker: what Finish
\* and Remove rely on when they set the state of a job.
OnlySubmittedKnown == \A j \in Job : Known(j) => jobState[j] # "unsubmitted"

\* The inductive invariant.  NoJobLost needs OnlySubmittedKnown, since a stray
\* execution would bring a job into completedJobs that was never submitted.
IInv ==
    /\ TypeOK
    /\ NoJobLost
    /\ OnlySubmittedKnown
    /\ ReportedWorkerExecutes

In(q, j) == \E a \in DOMAIN q : q[a] = j

\* job.workerId = id names a worker that executes job j.
Executes(j, id, running) == id \in Worker /\ running[j][id] > 0

\* A pass neither loses a queued job nor invents one, and it is the worker it
\* reports that executes the job.
LEMMA PassKeepsJobs ==
    ASSUME TypeOK, NEW q \in Seq(Job),
           NEW state \in [Job -> JobStates],
           NEW id \in [Job -> Worker \cup {NoWorker}],
           Schedule(q, state, id), NEW j \in Job
    PROVE  /\ In(q, j) \/ InFlight(j) => In(jobQueue', j) \/ InFlight(j)'
           /\ Known(j)' => In(q, j) \/ InFlight(j) \/ HeldBy(Worker, j)
           /\ \/ jobState'[j] = state[j]
              \/ In(q, j) /\ jobState'[j] = "running"
           /\ (state[j] = "running" => Executes(j, id[j], executions)) =>
              (jobState'[j] = "running" => Executes(j, workerId'[j], executions'))
<1>0. PICK p \in [DOMAIN q -> Available \cup {NoWorker}] :
         \E h : PassEffect(q, state, id, p, h)
  BY SchedulePass
<1>1. PICK h : PassEffect(q, state, id, p, h)
  BY <1>0
<1>2. Available \subseteq Worker
  BY AvailableWorkers
<1>3. \A w \in Worker :
         /\ executions[j][w] \in Nat /\ executions'[j][w] \in Nat
         /\ executions'[j][w] >= executions[j][w]
         /\ executions'[j][w] > executions[j][w] <=>
               \E i \in DOMAIN q : q[i] = j /\ p[i] = w
  BY <1>1, SMTT(30) DEF PassEffect, TypeOK
<1>4. Renumbers(h, jobQueue', q, Unplaced(p))
  BY <1>1 DEF PassEffect
<1>5. In(q, j) \/ InFlight(j) => In(jobQueue', j) \/ InFlight(j)'
  <2>1. CASE InFlight(j)
    BY <1>3, <2>1 DEF InFlight
  <2>2. ASSUME NEW i \in DOMAIN q, q[i] = j, p[i] = NoWorker
        PROVE  In(jobQueue', j)
    <3>1. i \in Unplaced(p)
      BY <2>2 DEF Unplaced
    <3>2. PICK a \in DOMAIN jobQueue' : h[a] = i
      BY <1>4, <3>1 DEF Renumbers
    <3>3. jobQueue'[a] = j
      BY <1>4, <2>2, <3>2 DEF Renumbers
    <3>4. QED
      BY <3>3 DEF In
  <2>3. ASSUME NEW i \in DOMAIN q, q[i] = j, p[i] # NoWorker
        PROVE  InFlight(j)'
    <3>1. p[i] \in Worker
      BY <1>2, <2>3
    <3>2. executions'[j][p[i]] > 0
      BY <1>3, <2>3, <3>1
    <3>3. QED
      BY <3>1, <3>2 DEF InFlight
  <2>4. QED
    BY <2>1, <2>2, <2>3 DEF In
<1>6. Known(j)' => In(q, j) \/ InFlight(j) \/ HeldBy(Worker, j)
  <2>1. ASSUME NEW a \in DOMAIN jobQueue', jobQueue'[a] = j PROVE In(q, j)
    <3>1. h[a] \in Unplaced(p) /\ q[h[a]] = j
      BY <1>4, <2>1 DEF Renumbers
    <3>2. h[a] \in DOMAIN q
      BY <3>1 DEF Unplaced
    <3>3. QED
      BY <3>1, <3>2 DEF In
  <2>2. ASSUME NEW w \in Worker, executions'[j][w] > 0
        PROVE  In(q, j) \/ InFlight(j)
    BY <1>3, <2>2 DEF In, InFlight
  <2>3. ASSUME NEW w \in Worker, j \in currentJobs'[w]
        PROVE  In(q, j) \/ HeldBy(Worker, j)
    <3>1. j \in currentJobs[w] \cup {q[i] : i \in {n \in DOMAIN q : p[n] = w}}
      BY <1>1, <2>3 DEF PassEffect
    <3>2. QED
      BY <3>1 DEF In, HeldBy
  <2>4. QED
    BY <2>1, <2>2, <2>3 DEF Known, Queued, InFlight, HeldBy
<1>7. /\ \/ jobState'[j] = state[j]
         \/ In(q, j) /\ jobState'[j] = "running"
      /\ (state[j] = "running" => Executes(j, id[j], executions)) =>
         (jobState'[j] = "running" => Executes(j, workerId'[j], executions'))
  <2>1. CASE jobState'[j] = state[j] /\ workerId'[j] = id[j]
    BY <1>3, <2>1 DEF Executes
  <2>2. ASSUME NEW i \in DOMAIN q, q[i] = j, p[i] # NoWorker,
               workerId'[j] = p[i], jobState'[j] = "running"
        PROVE  In(q, j) /\ Executes(j, workerId'[j], executions')
    <3>1. p[i] \in Worker
      BY <1>2, <2>2
    <3>2. executions'[j][p[i]] > 0
      BY <1>3, <2>2, <3>1
    <3>3. QED
      BY <2>2, <3>1, <3>2 DEF Executes, In
  <2>3. QED
    BY <1>1, <2>1, <2>2 DEF PassEffect
<1>8. QED
  BY <1>5, <1>6, <1>7

\* The parts of IInv about one job, in terms of the job's own data.
Kept(j) == j \in activeJobs => Queued(j) \/ InFlight(j)
Placed(j) == /\ ~(j \in activeJobs /\ j \in completedJobs)
             /\ j \in activeJobs \/ j \in completedJobs <=>
                  jobState[j] # "unsubmitted"
JobInv(j) ==
    /\ Kept(j)
    /\ Placed(j)
    /\ Known(j) => jobState[j] # "unsubmitted"
    /\ jobState[j] = "running" => Executes(j, workerId[j], executions)

LEMMA IInvPerJob == TypeOK => (IInv <=> \A j \in Job : JobInv(j))
BY DEF TypeOK, IInv, NoJobLost, OnlySubmittedKnown, ReportedWorkerExecutes,
       JobInv, Kept, Placed, Executes

\* A pass keeps JobInv of every job that is put into the queue as the callers
\* of scheduleJobs() do: it was queued, or it is submitted in this step.
LEMMA PassKeepsJobInv ==
    ASSUME TypeOK, TypeOK', NEW q \in Seq(Job),
           NEW state \in [Job -> JobStates],
           Schedule(q, state, workerId), NEW j \in Job,
           JobInv(j), completedJobs' = completedJobs,
           Queued(j) => In(q, j),
           \/ /\ In(q, j) => Queued(j)
              /\ state[j] = jobState[j]
              /\ j \in activeJobs' <=> j \in activeJobs
           \/ /\ In(q, j) /\ state[j] = "pending" /\ j \in activeJobs'
              /\ j \notin completedJobs
    PROVE  JobInv(j)'
<1>1. workerId \in [Job -> Worker \cup {NoWorker}]
  BY DEF TypeOK
<1>2. /\ In(q, j) \/ InFlight(j) => In(jobQueue', j) \/ InFlight(j)'
      /\ Known(j)' => In(q, j) \/ InFlight(j) \/ HeldBy(Worker, j)
      /\ \/ jobState'[j] = state[j]
         \/ In(q, j) /\ jobState'[j] = "running"
      /\ (state[j] = "running" => Executes(j, workerId[j], executions)) =>
         (jobState'[j] = "running" => Executes(j, workerId'[j], executions'))
  BY <1>1, PassKeepsJobs
<1>3. In(jobQueue', j) = Queued(j)'
  BY DEF In, Queued
<1>4. QED
  BY <1>2, <1>3 DEF JobInv, Kept, Placed, Known, Executes

\* The return of an execution of job j keeps JobInv of every job.
LEMMA SettleKeepsJobInv ==
    ASSUME TypeOK, TypeOK', NEW j \in Job, NEW w \in Worker, Settle(j, w),
           NEW k \in Job, JobInv(j), JobInv(k)
    PROVE  JobInv(k)'
<1>1. /\ executions[j][w] > 0
      /\ \A i \in Job, v \in Worker :
           i # j \/ v # w => executions'[i][v] = executions[i][v]
      /\ \A i \in Job, v \in Worker :
           /\ executions[i][v] \in Nat /\ executions'[i][v] \in Nat
           /\ executions'[i][v] <= executions[i][v]
  <2>1. Resume(j, w)
    BY DEF Settle, Succeed, Retry, Fail
  <2>2. \A i \in Job, v \in Worker :
           executions[i][v] \in Nat /\ executions'[i][v] \in Nat
    BY DEF TypeOK
  <2>3. /\ executions[j][w] > 0
        /\ executions'[j][w] = executions[j][w] - 1
        /\ \A i \in Job, v \in Worker :
             i # j \/ v # w => executions'[i][v] = executions[i][v]
    BY <2>1, ResumeProperties
  <2>4. ASSUME NEW i \in Job, NEW v \in Worker
        PROVE  executions'[i][v] <= executions[i][v]
    <3>1. CASE i = j /\ v = w
      BY <2>2, <2>3, <3>1
    <3>2. CASE i # j \/ v # w
      BY <2>2, <2>3, <3>2
    <3>3. QED
      BY <3>1, <3>2
  <2>5. QED
    BY <2>2, <2>3, <2>4
<1>2. jobState[j] # "unsubmitted"
  BY <1>1 DEF JobInv, Known, InFlight
<1>3. \A v \in Worker : currentJobs'[v] \subseteq currentJobs[v]
  <2>1. CASE Retry(j, w)
    BY <2>1 DEF Retry
  <2>2. CASE Succeed(j, w) \/ Fail(j, w)
    <3>1. currentJobs' = [currentJobs EXCEPT ![w] = currentJobs[w] \ {j}]
      BY <2>2 DEF Succeed, Fail, CompleteJob
    <3>2. QED
      BY <3>1 DEF TypeOK
  <2>3. QED
    BY <2>1, <2>2 DEF Settle
<1>4. HeldBy(Worker, k)' => HeldBy(Worker, k)
  BY <1>3 DEF HeldBy
<1>5. InFlight(k)' => InFlight(k)
  BY <1>1 DEF InFlight
<1>6. CASE Succeed(j, w) \/ Fail(j, w)
  <2>1. /\ UNCHANGED <<jobQueue, workerId>>
        /\ \E outcome \in {"completed", "failed"} : Finish(j, outcome)
    BY <1>6 DEF Succeed, Fail
  <2>2. CASE k = j
    BY <1>2, <2>1, <2>2 DEF JobInv, Kept, Placed, Finish, TypeOK
  <2>3. CASE k # j
    <3>1. /\ jobState'[k] = jobState[k] /\ workerId'[k] = workerId[k]
          /\ k \in activeJobs' <=> k \in activeJobs
          /\ k \in completedJobs' <=> k \in completedJobs
      BY <2>1, <2>3 DEF Finish, TypeOK
    <3>2. Queued(k)' <=> Queued(k)
      BY <2>1 DEF Queued
    <3>3. \A v \in Worker : executions'[k][v] = executions[k][v]
      BY <1>1, <2>3
    <3>4. InFlight(k)' <=> InFlight(k)
      BY <3>3 DEF InFlight
    <3>5. QED
      BY <1>4, <3>1, <3>2, <3>3, <3>4
      DEF JobInv, Kept, Placed, Known, Executes
  <2>4. QED
    BY <2>2, <2>3
<1>7. CASE Retry(j, w)
  <2>1. /\ jobQueue' = Append(jobQueue, j)
        /\ jobState' = [jobState EXCEPT ![j] = "pending"]
        /\ workerId' = [workerId EXCEPT ![j] = NoWorker]
        /\ UNCHANGED <<activeJobs, completedJobs>>
    BY <1>7 DEF Retry
  <2>2. jobQueue \in Seq(Job)
    BY DEF TypeOK
  <2>3. Queued(k)' <=> Queued(k) \/ k = j
    <3>1. /\ DOMAIN jobQueue' = 1..(Len(jobQueue) + 1)
          /\ DOMAIN jobQueue = 1..Len(jobQueue)
          /\ Len(jobQueue) \in Nat
          /\ \A a \in 1..Len(jobQueue) : jobQueue'[a] = jobQueue[a]
          /\ jobQueue'[Len(jobQueue) + 1] = j
      BY <2>1, <2>2
    <3>2. QED
      BY <3>1 DEF Queued
  <2>4. CASE k = j
    BY <1>2, <2>1, <2>3, <2>4 DEF JobInv, Kept, Placed, TypeOK
  <2>5. CASE k # j
    <3>1. \A v \in Worker : executions'[k][v] = executions[k][v]
      BY <1>1, <2>5
    <3>2. InFlight(k)' <=> InFlight(k)
      BY <3>1 DEF InFlight
    <3>3. jobState'[k] = jobState[k] /\ workerId'[k] = workerId[k]
      BY <2>1, <2>5 DEF TypeOK
    <3>4. QED
      BY <1>4, <2>1, <2>3, <2>5, <3>1, <3>2, <3>3
      DEF JobInv, Kept, Placed, Known, Executes
  <2>6. QED
    BY <2>4, <2>5
<1>8. QED
  BY <1>6, <1>7 DEF Settle

\* Removing workers keeps JobInv of every job.
LEMMA RemoveKeepsJobInv ==
    ASSUME TypeOK, NEW R \in SUBSET Worker, Remove(R),
           UNCHANGED <<currentJobs, activeJobs, completedJobs, executions>>,
           NEW j \in Job, JobInv(j)
    PROVE  JobInv(j)'
<1>1. PICK t : RemoveEffect(R, t)
  BY RemoveOutcome
<1>2. Queued(j)' <=> Queued(j) \/ HeldBy(R, j)
  <2>1. jobQueue \in Seq(Job) /\ t \in Seq(Job) /\ jobQueue' = jobQueue \o t
    BY <1>1 DEF TypeOK, RemoveEffect
  <2>2. /\ Len(jobQueue) \in Nat /\ Len(t) \in Nat
        /\ DOMAIN jobQueue' = 1..(Len(jobQueue) + Len(t))
        /\ DOMAIN jobQueue = 1..Len(jobQueue)
        /\ DOMAIN t = 1..Len(t)
        /\ \A a \in 1..(Len(jobQueue) + Len(t)) :
             jobQueue'[a] = IF a <= Len(jobQueue) THEN jobQueue[a]
                                                  ELSE t[a - Len(jobQueue)]
    BY <2>1
  <2>3. In(t, j) => Queued(j)'
    <3>1. SUFFICES ASSUME NEW a \in DOMAIN t, t[a] = j PROVE Queued(j)'
      BY DEF In
    <3>2. /\ a + Len(jobQueue) \in DOMAIN jobQueue'
          /\ ~(a + Len(jobQueue) <= Len(jobQueue))
          /\ a + Len(jobQueue) - Len(jobQueue) = a
      BY <2>2
    <3>3. jobQueue'[a + Len(jobQueue)] = t[a]
      BY <2>2, <3>2
    <3>4. QED
      BY <3>1, <3>2, <3>3 DEF Queued
  <2>4. Queued(j) => Queued(j)'
    BY <2>2 DEF Queued
  <2>5. Queued(j)' => Queued(j) \/ In(t, j)
    BY <2>2 DEF Queued, In
  <2>6. HeldBy(R, j) <=> In(t, j)
    BY <1>1 DEF RemoveEffect, In
  <2>7. QED
    BY <2>3, <2>4, <2>5, <2>6
<1>3. /\ jobState'[j] = IF HeldBy(R, j) THEN "pending" ELSE jobState[j]
      /\ workerId'[j] = IF HeldBy(R, j) THEN NoWorker ELSE workerId[j]
  BY <1>1 DEF RemoveEffect
<1>4. InFlight(j)' <=> InFlight(j)
  BY DEF InFlight
<1>5. HeldBy(Worker, j)' <=> HeldBy(Worker, j)
  BY DEF HeldBy
<1>6. HeldBy(R, j) => HeldBy(Worker, j)
  BY DEF HeldBy
<1>7. QED
  BY <1>2, <1>3, <1>4, <1>5, <1>6 DEF JobInv, Kept, Placed, Known, Executes

\* A step that leaves the jobs and the executions alone keeps IInv.
LEMMA StutterKeepsJobInv ==
    ASSUME UNCHANGED <<currentJobs, jobQueue, activeJobs, completedJobs,
                       jobState, workerId, executions>>,
           NEW j \in Job, JobInv(j)
    PROVE  JobInv(j)'
BY DEF JobInv, Kept, Placed, Known, Queued, InFlight, HeldBy, Executes

LEMMA InitIInv == Init => IInv
<1> SUFFICES ASSUME Init PROVE \A j \in Job : JobInv(j)
  BY InitTypeOK, IInvPerJob
<1> QED
  BY DEF Init, JobInv, Kept, Placed, Known, Queued, InFlight, HeldBy

LEMMA StepIInv == IInv /\ [Next]_vars => IInv'
<1> SUFFICES ASSUME IInv, [Next]_vars PROVE IInv'
  OBVIOUS
<1>1. TypeOK /\ TypeOK'
  BY StepTypeOK DEF IInv
<1>2. \A j \in Job : JobInv(j)
  BY <1>1, IInvPerJob
<1>3. SUFFICES ASSUME NEW j \in Job PROVE JobInv(j)'
  <2>1. QED
    BY <1>1, <1>3
    DEF TypeOK, IInv, NoJobLost, OnlySubmittedKnown, ReportedWorkerExecutes,
        JobInv, Kept, Placed, Executes
<1>4. ASSUME NEW k \in Job, SubmitJob(k) PROVE JobInv(j)'
  <2> DEFINE q == Append(jobQueue, k)
             state == [jobState EXCEPT ![k] = "pending"]
  <2>1. q \in Seq(Job) /\ state \in [Job -> JobStates]
    BY <1>1 DEF TypeOK, JobStates
  <2>2. /\ jobState[k] = "unsubmitted" /\ activeJobs' = activeJobs \cup {k}
        /\ Schedule(q, state, workerId) /\ completedJobs' = completedJobs
    BY <1>4 DEF SubmitJob
  <2>3. In(q, j) <=> Queued(j) \/ j = k
    <3>1. jobQueue \in Seq(Job)
      BY <1>1 DEF TypeOK
    <3>2. /\ DOMAIN q = 1..(Len(jobQueue) + 1)
          /\ DOMAIN jobQueue = 1..Len(jobQueue)
          /\ Len(jobQueue) \in Nat
          /\ \A a \in 1..Len(jobQueue) : q[a] = jobQueue[a]
          /\ q[Len(jobQueue) + 1] = k
      BY <3>1
    <3>3. QED
      BY <3>2 DEF Queued, In
  <2>4. \/ /\ In(q, j) => Queued(j)
           /\ state[j] = jobState[j]
           /\ j \in activeJobs' <=> j \in activeJobs
        \/ /\ In(q, j) /\ state[j] = "pending" /\ j \in activeJobs'
           /\ j \notin completedJobs
    <3>1. CASE j = k
      BY <1>1, <1>2, <2>2, <2>3, <3>1 DEF TypeOK, JobInv, Placed
    <3>2. CASE j # k
      BY <2>2, <2>3, <3>2
    <3>3. QED
      BY <3>1, <3>2
  <2> HIDE DEF q, state
  <2>5. QED
    BY <1>1, <1>2, <2>1, <2>2, <2>3, <2>4, PassKeepsJobInv
<1>5. CASE Tick
  <2>1. /\ jobQueue \in Seq(Job) /\ jobState \in [Job -> JobStates]
        /\ Schedule(jobQueue, jobState, workerId)
        /\ completedJobs' = completedJobs /\ activeJobs' = activeJobs
    BY <1>1, <1>5 DEF Tick, TypeOK
  <2>2. In(jobQueue, j) <=> Queued(j)
    BY DEF In, Queued
  <2>3. QED
    BY <1>1, <1>2, <2>1, <2>2, PassKeepsJobInv
<1>6. ASSUME NEW k \in Job, NEW w \in Worker, Settle(k, w) PROVE JobInv(j)'
  BY <1>1, <1>2, <1>6, SettleKeepsJobInv
<1>7. ASSUME NEW w \in Worker, AddWorker(w) PROVE JobInv(j)'
  BY <1>2, <1>7, StutterKeepsJobInv DEF AddWorker, jobVars
<1>8. ASSUME NEW w \in Worker, RemoveWorker(w) PROVE JobInv(j)'
  BY <1>1, <1>2, <1>8, RemoveKeepsJobInv DEF RemoveWorker
<1>9. ASSUME NEW w \in Worker, HeartbeatExpires(w) \/ Heartbeat(w)
      PROVE  JobInv(j)'
  BY <1>2, <1>9, StutterKeepsJobInv DEF HeartbeatExpires, Heartbeat, jobVars
<1>10. CASE HealthCheck
  <2>1. UNCHANGED <<currentJobs, activeJobs, completedJobs, executions>>
    BY <1>10 DEF HealthCheck
  <2>2. CASE RemoveUnhealthyWorkers
    <3>1. Remove(Registered \cap stale) /\ Registered \cap stale \subseteq Worker
      BY <1>1, <1>10, <2>2 DEF HealthCheck, TypeOK
    <3>2. QED
      BY <1>1, <1>2, <2>1, <3>1, RemoveKeepsJobInv
  <2>3. CASE ~RemoveUnhealthyWorkers
    BY <1>2, <1>10, <2>1, <2>3, StutterKeepsJobInv DEF HealthCheck
  <2>4. QED
    BY <2>2, <2>3
<1>11. CASE BeginShutdown
  BY <1>2, <1>11, StutterKeepsJobInv DEF BeginShutdown, jobVars
<1>12. CASE EndShutdown
  <2>1. /\ UNCHANGED <<currentJobs, jobQueue, activeJobs, completedJobs,
                       workerId, executions>>
        /\ jobState'[j] = IF j \in activeJobs THEN "cancelled" ELSE jobState[j]
    BY <1>12 DEF EndShutdown
  <2>2. /\ Queued(j)' <=> Queued(j)
        /\ InFlight(j)' <=> InFlight(j)
        /\ HeldBy(Worker, j)' <=> HeldBy(Worker, j)
    BY <2>1 DEF Queued, InFlight, HeldBy
  <2>3. QED
    BY <1>2, <2>1, <2>2 DEF JobInv, Kept, Placed, Known, Executes
<1>13. CASE UNCHANGED vars
  BY <1>2, <1>13, StutterKeepsJobInv DEF vars, jobVars
<1>14. QED
  BY <1>4, <1>5, <1>6, <1>7, <1>8, <1>9, <1>10, <1>11, <1>12, <1>13 DEF Next, Background

\* The inductive invariant holds in every reachable state.
THEOREM Invariance == Spec => []IInv
<1>1. QED
  BY InitIInv, StepIInv, PTL DEF Spec

\* No job is lost: whatever fails, is removed or is shut down, every job in
\* activeJobs is queued or being executed, and getJobStatus() finds every
\* submitted job in exactly one Map.
THEOREM NoJobIsLost == Spec => []NoJobLost
<1>1. IInv => NoJobLost
  BY DEF IInv
<1>2. QED
  BY <1>1, Invariance, PTL

\* A job reported as running is being executed by the worker it names.
THEOREM ReportIsTrue == Spec => []ReportedWorkerExecutes
<1>1. IInv => ReportedWorkerExecutes
  BY DEF IInv
<1>2. QED
  BY <1>1, Invariance, PTL

-----------------------------------------------------------------------------
(* Leaked slots.                                                           *)

\* The part of OnlyRetriesLeakSlots about one job and one worker.
SlotJustified(j, w) ==
    j \in currentJobs[w] => executions[j][w] > 0 \/ retries[j] > 0

LEMMA LeakPerSlot ==
    TypeOK => (OnlyRetriesLeakSlots <=>
                 \A j \in Job, w \in Worker : SlotJustified(j, w))
<1> SUFFICES ASSUME TypeOK
             PROVE  OnlyRetriesLeakSlots <=>
                      \A j \in Job, w \in Worker : SlotJustified(j, w)
  OBVIOUS
<1>1. \A j \in Job, w \in Worker :
         executions[j][w] \in Nat /\ currentJobs[w] \subseteq Job
  BY DEF TypeOK
<1>2. ASSUME OnlyRetriesLeakSlots, NEW j \in Job, NEW w \in Worker
      PROVE  SlotJustified(j, w)
  BY <1>1, <1>2 DEF OnlyRetriesLeakSlots, SlotJustified
<1>3. ASSUME \A j \in Job, w \in Worker : SlotJustified(j, w)
      PROVE  OnlyRetriesLeakSlots
  <2>1. SUFFICES ASSUME NEW w \in Worker, NEW j \in currentJobs[w],
                        executions[j][w] = 0
                 PROVE  retries[j] > 0
    BY DEF OnlyRetriesLeakSlots
  <2>2. j \in Job
    BY DEF TypeOK
  <2>3. QED
    BY <1>3, <2>1, <2>2 DEF SlotJustified
<1>4. QED
  BY <1>2, <1>3

\* A pass takes a slot only for a job it starts on that worker.
LEMMA PassJustifiesSlots ==
    ASSUME TypeOK, NEW q \in Seq(Job),
           NEW state \in [Job -> JobStates],
           NEW id \in [Job -> Worker \cup {NoWorker}],
           Schedule(q, state, id), retries' = retries,
           NEW j \in Job, NEW w \in Worker, SlotJustified(j, w)
    PROVE  SlotJustified(j, w)'
<1>0. PICK p \in [DOMAIN q -> Available \cup {NoWorker}] :
         \E h : PassEffect(q, state, id, p, h)
  BY SchedulePass
<1>1. PICK h : PassEffect(q, state, id, p, h)
  BY <1>0
<1>2. /\ executions[j][w] \in Nat /\ executions'[j][w] \in Nat
      /\ executions'[j][w] >= executions[j][w]
      /\ executions'[j][w] > executions[j][w] <=>
            \E i \in DOMAIN q : q[i] = j /\ p[i] = w
  BY <1>1, SMTT(30) DEF PassEffect, TypeOK
<1>3. currentJobs'[w] =
         currentJobs[w] \cup {q[i] : i \in {n \in DOMAIN q : p[n] = w}}
  BY <1>1 DEF PassEffect
<1>4. CASE j \in currentJobs[w]
  BY <1>2, <1>4 DEF SlotJustified
<1>5. CASE \E i \in DOMAIN q : q[i] = j /\ p[i] = w
  BY <1>2, <1>5 DEF SlotJustified
<1>6. QED
  BY <1>3, <1>4, <1>5 DEF SlotJustified

LEMMA StepLeaks ==
    TypeOK /\ TypeOK' /\ OnlyRetriesLeakSlots /\ [Next]_vars
      => OnlyRetriesLeakSlots'
<1> SUFFICES ASSUME TypeOK, TypeOK', OnlyRetriesLeakSlots, [Next]_vars
             PROVE  OnlyRetriesLeakSlots'
  OBVIOUS
<1>1. \A j \in Job, w \in Worker : SlotJustified(j, w)
  BY LeakPerSlot
<1>2. SUFFICES ASSUME NEW j \in Job, NEW w \in Worker
               PROVE  SlotJustified(j, w)'
  <2>1. /\ \A k \in Job, v \in Worker : executions'[k][v] \in Nat
        /\ \A v \in Worker : currentJobs'[v] \subseteq Job
    BY DEF TypeOK
  <2>2. \A k \in Job, v \in Worker : SlotJustified(k, v)'
    BY <1>2
  <2>3. QED
    BY <2>1, <2>2 DEF OnlyRetriesLeakSlots, SlotJustified
<1>3. ASSUME UNCHANGED <<currentJobs, executions, retries>>
      PROVE  SlotJustified(j, w)'
  BY <1>1, <1>3 DEF SlotJustified
<1>4. ASSUME NEW k \in Job, SubmitJob(k) PROVE SlotJustified(j, w)'
  <2>1. /\ Append(jobQueue, k) \in Seq(Job)
        /\ [jobState EXCEPT ![k] = "pending"] \in [Job -> JobStates]
        /\ workerId \in [Job -> Worker \cup {NoWorker}]
    <3>1. Append(jobQueue, k) \in Seq(Job)
      BY DEF TypeOK
    <3>2. [jobState EXCEPT ![k] = "pending"] \in [Job -> JobStates]
      BY DEF TypeOK, JobStates
    <3>3. QED
      BY <3>1, <3>2 DEF TypeOK
  <2>2. /\ Schedule(Append(jobQueue, k), [jobState EXCEPT ![k] = "pending"],
                    workerId)
        /\ retries' = retries
    BY <1>4 DEF SubmitJob
  <2>3. QED
    BY <1>1, <2>1, <2>2, PassJustifiesSlots
<1>5. CASE Tick
  <2>1. /\ jobQueue \in Seq(Job) /\ jobState \in [Job -> JobStates]
        /\ workerId \in [Job -> Worker \cup {NoWorker}]
        /\ Schedule(jobQueue, jobState, workerId) /\ retries' = retries
    BY <1>5 DEF Tick, TypeOK
  <2>2. QED
    BY <1>1, <2>1, PassJustifiesSlots
<1>6. ASSUME NEW k \in Job, NEW v \in Worker, Settle(k, v)
      PROVE  SlotJustified(j, w)'
  <2>1. \A i \in Job, x \in Worker :
           i # k \/ x # v => executions'[i][x] = executions[i][x]
    BY <1>6, ResumeProperties DEF Settle, Succeed, Retry, Fail
  <2>2. CASE Retry(k, v)
    <3>1. currentJobs' = currentJobs /\ retries' = [retries EXCEPT ![k] = @ + 1]
      BY <2>2 DEF Retry
    <3>2. retries[k] \in Nat /\ retries[j] \in Nat
      BY ConstantsAssumption DEF TypeOK
    <3>3. CASE j = k
      <4>1. retries'[k] = retries[k] + 1
        BY <3>1 DEF TypeOK
      <4>2. QED
        BY <3>2, <3>3, <4>1 DEF SlotJustified
    <3>4. CASE j # k
      <4>1. retries'[j] = retries[j]
        BY <3>1, <3>4 DEF TypeOK
      <4>2. QED
        BY <1>1, <2>1, <3>1, <3>4, <4>1 DEF SlotJustified
    <3>5. QED
      BY <3>3, <3>4
  <2>3. CASE Succeed(k, v) \/ Fail(k, v)
    <3>1. /\ currentJobs' = [currentJobs EXCEPT ![v] = currentJobs[v] \ {k}]
          /\ retries' = retries
      BY <2>3 DEF Succeed, Fail, CompleteJob
    <3>2. CASE j = k /\ w = v
      <4>1. j \notin currentJobs'[w]
        BY <3>1, <3>2 DEF TypeOK
      <4>2. QED
        BY <4>1 DEF SlotJustified
    <3>3. CASE j # k \/ w # v
      <4>1. currentJobs'[w] \subseteq currentJobs[w]
        BY <3>1 DEF TypeOK
      <4>2. QED
        BY <1>1, <2>1, <3>1, <3>3, <4>1 DEF SlotJustified
    <3>4. QED
      BY <3>2, <3>3
  <2>4. QED
    BY <1>6, <2>2, <2>3 DEF Settle
<1>7. CASE \/ \E v \in Worker : AddWorker(v) \/ RemoveWorker(v)
           \/ \E v \in Worker : HeartbeatExpires(v) \/ Heartbeat(v)
           \/ HealthCheck \/ BeginShutdown \/ EndShutdown \/ UNCHANGED vars
  <2>1. UNCHANGED <<currentJobs, executions, retries>>
    BY <1>7 DEF AddWorker, RemoveWorker, HeartbeatExpires, Heartbeat,
                HealthCheck, BeginShutdown, EndShutdown, vars, jobVars
  <2>2. QED
    BY <1>3, <2>1
<1>8. QED
  BY <1>4, <1>5, <1>6, <1>7 DEF Next, Background

\* A worker slot held for a job the worker is not executing was left by a
\* retry: success, final failure, removal and shutdown leak none.
THEOREM LeaksComeFromRetries == Spec => []OnlyRetriesLeakSlots
<1>1. Init => OnlyRetriesLeakSlots
  BY DEF Init, OnlyRetriesLeakSlots
<1>2. QED
  BY <1>1, StepLeaks, TypeCorrect, PTL DEF Spec

-----------------------------------------------------------------------------
(* Theorems for schedulers that remove no worker: a job has one copy,      *)
(* workers are not overloaded, and the scheduler implements JobLifecycle.  *)

\* Neither the health check nor an operator removes a worker.  Without this the
\* theorems are false: removeWorker() requeues jobs that are being executed.
NoRemovals == ~RemoveUnhealthyWorkers /\ Removable = {}

-----------------------------------------------------------------------------
(* One copy of every job.                                                  *)

\* The part of SingleCopy about one job, over any queue and executions.
OneCopyIn(q, running, j) ==
    /\ \A a, b \in DOMAIN q : q[a] = j /\ q[b] = j => a = b
    /\ \A w \in Worker : running[j][w] > 0 =>
         /\ running[j][w] = 1
         /\ ~In(q, j)
         /\ \A v \in Worker \ {w} : running[j][v] = 0

OneCopy(j) == /\ OneCopyIn(jobQueue, executions, j)
              /\ Queued(j) \/ InFlight(j) => j \in activeJobs

LEMMA SingleCopyPerJob == TypeOK => (SingleCopy <=> \A j \in Job : OneCopy(j))
<1> SUFFICES ASSUME TypeOK PROVE SingleCopy <=> \A j \in Job : OneCopy(j)
  OBVIOUS
<1>1. \A a \in DOMAIN jobQueue : jobQueue[a] \in Job
  BY DEF TypeOK
<1>2. SingleCopy => \A j \in Job : OneCopy(j)
  BY DEF SingleCopy, OneCopy, OneCopyIn, Queued, In
<1>3. ASSUME \A j \in Job : OneCopy(j) PROVE SingleCopy
  <2>1. \A a, b \in DOMAIN jobQueue : jobQueue[a] = jobQueue[b] => a = b
    BY <1>1, <1>3 DEF OneCopy, OneCopyIn
  <2>2. QED
    BY <1>3, <2>1 DEF SingleCopy, OneCopy, OneCopyIn, Queued, In
<1>4. QED
  BY <1>2, <1>3

\* What is queued or executed after a pass was so before, or in its queue.
LEMMA PassInventsNothing ==
    ASSUME TypeOK, NEW q \in Seq(Job),
           NEW state \in [Job -> JobStates],
           NEW id \in [Job -> Worker \cup {NoWorker}],
           Schedule(q, state, id), NEW j \in Job
    PROVE  Queued(j)' \/ InFlight(j)' => In(q, j) \/ InFlight(j)
<1>0. PICK p \in [DOMAIN q -> Available \cup {NoWorker}] :
         \E h : PassEffect(q, state, id, p, h)
  BY SchedulePass
<1>1. PICK h : PassEffect(q, state, id, p, h)
  BY <1>0
<1>2. ASSUME NEW a \in DOMAIN jobQueue', jobQueue'[a] = j PROVE In(q, j)
  <2>1. Renumbers(h, jobQueue', q, Unplaced(p)) /\ DOMAIN p = DOMAIN q
    BY <1>1 DEF PassEffect
  <2>2. h[a] \in DOMAIN q /\ q[h[a]] = j
    BY <1>2, <2>1 DEF Renumbers, Unplaced
  <2>3. QED
    BY <2>2 DEF In
<1>3. ASSUME NEW w \in Worker, executions'[j][w] > 0
      PROVE  In(q, j) \/ InFlight(j)
  <2>1. /\ executions'[j][w] >= executions[j][w]
        /\ executions'[j][w] > executions[j][w] <=>
              \E i \in DOMAIN q : q[i] = j /\ p[i] = w
    BY <1>1 DEF PassEffect
  <2>2. executions[j][w] \in Nat /\ executions'[j][w] \in Nat
    BY <1>1 DEF PassEffect, TypeOK
  <2>3. QED
    BY <1>3, <2>1, <2>2 DEF In, InFlight
<1>4. QED
  BY <1>2, <1>3 DEF Queued, InFlight

\* A pass over a queue that holds a job at most once, and not while the job is
\* executed, leaves it with one copy.
LEMMA PassKeepsOneCopy ==
    ASSUME TypeOK, NEW q \in Seq(Job),
           NEW state \in [Job -> JobStates],
           NEW id \in [Job -> Worker \cup {NoWorker}],
           Schedule(q, state, id), NEW j \in Job,
           OneCopyIn(q, executions, j)
    PROVE  OneCopyIn(jobQueue', executions', j)
<1>0. PICK p \in [DOMAIN q -> Available \cup {NoWorker}] :
         \E h : PassEffect(q, state, id, p, h)
  BY SchedulePass
<1>1. PICK h : PassEffect(q, state, id, p, h)
  BY <1>0
<1>2. /\ DOMAIN q = 1..Len(q) /\ Len(q) \in Nat
      /\ Renumbers(h, jobQueue', q, Unplaced(p))
  BY <1>1 DEF PassEffect
<1> DEFINE on(w) == {i \in DOMAIN q : q[i] = j /\ p[i] = w}
<1>3. \A w \in Worker :
         /\ executions[j][w] \in Nat
         /\ executions'[j][w] = executions[j][w] + Cardinality(on(w))
         /\ on(w) \in SUBSET DOMAIN q
         /\ Cardinality(on(w)) \in Nat
         /\ on(w) = {} => Cardinality(on(w)) = 0
  <2> TAKE w \in Worker
  <2>1. executions'[j][w] = executions[j][w] + Cardinality(on(w))
    BY <1>1, ZenonT(60) DEF PassEffect
  <2>2. on(w) \in SUBSET (1..Len(q))
    BY <1>2
  <2>3. Cardinality(on(w)) \in Nat /\ (Cardinality(on(w)) > 0 <=> on(w) # {})
    BY <1>2, <2>2, PositionsCount
  <2>4. executions[j][w] \in Nat
    BY DEF TypeOK
  <2>5. QED
    BY <2>1, <2>2, <2>3, <2>4, <1>2
<1> HIDE DEF on
<1>4. \A a \in DOMAIN jobQueue' : jobQueue'[a] = j =>
         h[a] \in DOMAIN q /\ q[h[a]] = j /\ p[h[a]] = NoWorker
  BY <1>1, <1>2 DEF Renumbers, Unplaced
<1>5. \A a, b \in DOMAIN jobQueue' :
         jobQueue'[a] = j /\ jobQueue'[b] = j => a = b
  BY <1>2, <1>4 DEF OneCopyIn, Renumbers
<1>6. CASE ~In(q, j)
  <2>1. \A w \in Worker : on(w) = {}
    BY <1>6 DEF In, on
  <2>2. ASSUME NEW w \in Worker
        PROVE  executions'[j][w] = executions[j][w]
    BY <1>3, <2>1
  <2>3. ~In(jobQueue', j)
    BY <1>4, <1>6 DEF In
  <2>4. QED
    BY <1>5, <2>2, <2>3 DEF OneCopyIn
<1>7. ASSUME NEW i \in DOMAIN q, q[i] = j
      PROVE  OneCopyIn(jobQueue', executions', j)
  <2>1. \A w \in Worker : executions[j][w] = 0
    <3>1. In(q, j)
      BY <1>7 DEF In
    <3>2. ASSUME NEW w \in Worker PROVE executions[j][w] = 0
      BY <1>3, <3>1 DEF OneCopyIn
    <3>3. QED
      BY <3>2
  <2>2. \A k \in DOMAIN q : q[k] = j => k = i
    BY <1>7 DEF OneCopyIn
  <2>3. \A w \in Worker : on(w) = IF p[i] = w THEN {i} ELSE {}
    BY <1>7, <2>2 DEF on
  <2>4. \A w \in Worker : executions'[j][w] = IF p[i] = w THEN 1 ELSE 0
    <3>1. Cardinality({i}) = 1
      BY FS_Singleton
    <3>2. ASSUME NEW w \in Worker
          PROVE  executions'[j][w] = IF p[i] = w THEN 1 ELSE 0
      <4>1. executions'[j][w] = 0 + Cardinality(on(w))
        BY <1>3, <2>1
      <4>2. on(w) = {} => Cardinality(on(w)) = 0
        BY <1>3
      <4>3. CASE p[i] = w
        <5>1. Cardinality(on(w)) = 1
          BY <2>3, <3>1, <4>3
        <5>2. QED
          BY <4>1, <4>3, <5>1
      <4>4. CASE p[i] # w
        <5>1. Cardinality(on(w)) = 0
          BY <2>3, <4>2, <4>4
        <5>2. QED
          BY <4>1, <4>4, <5>1
      <4>5. QED
        BY <4>3, <4>4
    <3>3. QED
      BY <3>2
  <2>5. ASSUME NEW w \in Worker, p[i] = w PROVE ~In(jobQueue', j)
    BY <1>4, <2>2, <2>5, ConstantsAssumption DEF In
  <2>6. QED
    BY <1>5, <2>4, <2>5 DEF OneCopyIn
<1>8. QED
  BY <1>6, <1>7 DEF In

\* The return of an execution takes the copy away, or moves it to the queue.
LEMMA SettleKeepsOneCopy ==
    ASSUME TypeOK, TypeOK', NEW j \in Job, NEW w \in Worker, Settle(j, w),
           NEW k \in Job, OneCopy(j), OneCopy(k)
    PROVE  OneCopy(k)'
<1>1. /\ executions[j][w] > 0
      /\ executions'[j][w] = executions[j][w] - 1
      /\ \A i \in Job, v \in Worker :
           i # j \/ v # w => executions'[i][v] = executions[i][v]
  BY ResumeProperties DEF Settle, Succeed, Retry, Fail
<1>2. InFlight(j)
  BY <1>1 DEF InFlight
<1>3. j \in activeJobs /\ ~Queued(j)
  BY <1>1, <1>2 DEF OneCopy, OneCopyIn, In, Queued
<1>4. \A v \in Worker : executions'[j][v] = 0
  <2> TAKE v \in Worker
  <2>1. CASE v = w
    BY <1>1, <2>1 DEF OneCopy, OneCopyIn
  <2>2. CASE v # w
    BY <1>1, <2>2 DEF OneCopy, OneCopyIn
  <2>3. QED
    BY <2>1, <2>2
<1>5. CASE Succeed(j, w) \/ Fail(j, w)
  <2>1. jobQueue' = jobQueue /\ activeJobs' = activeJobs \ {j}
    BY <1>5 DEF Succeed, Fail, Finish
  <2>2. CASE k = j
    BY <1>3, <1>4, <2>1, <2>2 DEF OneCopy, OneCopyIn, InFlight, Queued
  <2>3. CASE k # j
    <3>1. \A v \in Worker : executions'[k][v] = executions[k][v]
      BY <1>1, <2>3
    <3>2. QED
      BY <2>1, <2>3, <3>1 DEF OneCopy, OneCopyIn, InFlight, Queued
  <2>4. QED
    BY <2>2, <2>3
<1>6. CASE Retry(j, w)
  <2>1. jobQueue' = Append(jobQueue, j) /\ activeJobs' = activeJobs
    BY <1>6 DEF Retry
  <2>2. /\ DOMAIN jobQueue' = 1..(Len(jobQueue) + 1)
        /\ DOMAIN jobQueue = 1..Len(jobQueue)
        /\ Len(jobQueue) \in Nat
        /\ \A a \in 1..Len(jobQueue) : jobQueue'[a] = jobQueue[a]
        /\ jobQueue'[Len(jobQueue) + 1] = j
    <3>1. jobQueue \in Seq(Job)
      BY DEF TypeOK
    <3>2. QED
      BY <2>1, <3>1
  <2>3. CASE k = j
    <3>1. \A a \in DOMAIN jobQueue' : jobQueue'[a] = j => a = Len(jobQueue) + 1
      BY <1>3, <2>2 DEF Queued
    <3>2. \A a, b \in DOMAIN jobQueue' :
             jobQueue'[a] = j /\ jobQueue'[b] = j => a = b
      BY <3>1
    <3>3. QED
      BY <1>3, <1>4, <2>1, <2>3, <3>2 DEF OneCopy, OneCopyIn
  <2>4. CASE k # j
    <3>1. \A v \in Worker : executions'[k][v] = executions[k][v]
      BY <1>1, <2>4
    <3>2. \A a \in DOMAIN jobQueue' : jobQueue'[a] = k =>
             a \in DOMAIN jobQueue /\ jobQueue[a] = k
      BY <2>2, <2>4
    <3>3. InFlight(k)' <=> InFlight(k)
      BY <3>1 DEF InFlight
    <3>4. In(jobQueue', k) => Queued(k)
      BY <3>2 DEF In, Queued
    <3>5. Queued(k)' => Queued(k)
      BY <3>4 DEF In, Queued
    <3>6. OneCopyIn(jobQueue', executions', k)
      BY <3>1, <3>2, <3>4 DEF OneCopy, OneCopyIn, In, Queued
    <3>7. QED
      BY <2>1, <3>3, <3>5, <3>6 DEF OneCopy
  <2>5. QED
    BY <2>3, <2>4
<1>7. QED
  BY <1>5, <1>6 DEF Settle

LEMMA StepSingleCopy ==
    ASSUME NoRemovals
    PROVE  IInv /\ IInv' /\ SingleCopy /\ [Next]_vars => SingleCopy'
<1> SUFFICES ASSUME IInv, IInv', SingleCopy, [Next]_vars PROVE SingleCopy'
  OBVIOUS
<1>1. TypeOK /\ TypeOK'
  BY DEF IInv
<1>2. \A j \in Job : OneCopy(j)
  BY <1>1, SingleCopyPerJob
<1>3. SUFFICES ASSUME NEW j \in Job PROVE OneCopy(j)'
  <2>1. \A a \in DOMAIN jobQueue' : jobQueue'[a] \in Job
    BY <1>1 DEF TypeOK
  <2>2. \A a, b \in DOMAIN jobQueue' : jobQueue'[a] = jobQueue'[b] => a = b
    BY <1>3, <2>1 DEF OneCopy, OneCopyIn
  <2>3. QED
    BY <1>3, <2>2 DEF SingleCopy, OneCopy, OneCopyIn, Queued, In
<1>4. ASSUME UNCHANGED <<jobQueue, executions, activeJobs>> PROVE OneCopy(j)'
  BY <1>2, <1>4 DEF OneCopy, OneCopyIn, Queued, InFlight
<1>5. ASSUME NEW k \in Job, SubmitJob(k) PROVE OneCopy(j)'
  <2> DEFINE q == Append(jobQueue, k)
             state == [jobState EXCEPT ![k] = "pending"]
  <2>1. q \in Seq(Job)
    BY <1>1 DEF TypeOK
  <2>2. state \in [Job -> JobStates]
    BY <1>1 DEF TypeOK, JobStates
  <2>3. /\ jobState[k] = "unsubmitted" /\ activeJobs' = activeJobs \cup {k}
        /\ Schedule(q, state, workerId)
    BY <1>5 DEF SubmitJob
  <2>4. workerId \in [Job -> Worker \cup {NoWorker}]
    BY <1>1 DEF TypeOK
  <2>5. ~Queued(k) /\ ~InFlight(k)
    BY <2>3 DEF IInv, OnlySubmittedKnown, Known
  <2>6. /\ DOMAIN q = 1..(Len(jobQueue) + 1)
        /\ DOMAIN jobQueue = 1..Len(jobQueue)
        /\ Len(jobQueue) \in Nat
        /\ \A a \in 1..Len(jobQueue) : q[a] = jobQueue[a]
        /\ q[Len(jobQueue) + 1] = k
    <3>1. jobQueue \in Seq(Job)
      BY <1>1 DEF TypeOK
    <3>2. QED
      BY <3>1
  <2> HIDE DEF q, state
  <2>7. OneCopyIn(q, executions, j) /\ (In(q, j) => j = k \/ Queued(j))
    <3>1. CASE j = k
      <4>1. \A a \in DOMAIN q : q[a] = j => a = Len(jobQueue) + 1
        BY <2>5, <2>6, <3>1 DEF Queued
      <4>2. \A w \in Worker : ~(executions[j][w] > 0)
        BY <2>5, <3>1 DEF InFlight
      <4>3. \A a, b \in DOMAIN q : q[a] = j /\ q[b] = j => a = b
        BY <4>1
      <4>4. QED
        BY <3>1, <4>2, <4>3 DEF OneCopyIn
    <3>2. CASE j # k
      <4>1. \A a \in DOMAIN q : q[a] = j => a \in DOMAIN jobQueue /\ jobQueue[a] = j
        BY <2>6, <3>2
      <4>2. In(q, j) => Queued(j) /\ In(jobQueue, j)
        BY <4>1 DEF In, Queued
      <4>3. QED
        BY <1>2, <4>1, <4>2 DEF OneCopy, OneCopyIn
    <3>3. QED
      BY <3>1, <3>2
  <2>8. OneCopyIn(jobQueue', executions', j)
    BY <1>1, <2>1, <2>2, <2>3, <2>4, <2>7, PassKeepsOneCopy
  <2>9. Queued(j)' \/ InFlight(j)' => In(q, j) \/ InFlight(j)
    BY <1>1, <2>1, <2>2, <2>3, <2>4, PassInventsNothing
  <2>10. QED
    BY <1>2, <2>3, <2>7, <2>8, <2>9 DEF OneCopy
<1>6. CASE Tick
  <2>1. /\ jobQueue \in Seq(Job) /\ jobState \in [Job -> JobStates]
        /\ workerId \in [Job -> Worker \cup {NoWorker}]
        /\ Schedule(jobQueue, jobState, workerId)
        /\ activeJobs' = activeJobs
    BY <1>1, <1>6 DEF Tick, TypeOK
  <2>2. OneCopyIn(jobQueue, executions, j)
    BY <1>2 DEF OneCopy
  <2>3. OneCopyIn(jobQueue', executions', j)
    BY <1>1, <2>1, <2>2, PassKeepsOneCopy
  <2>4. Queued(j)' \/ InFlight(j)' => In(jobQueue, j) \/ InFlight(j)
    BY <1>1, <2>1, PassInventsNothing
  <2>5. QED
    BY <1>2, <2>1, <2>3, <2>4 DEF OneCopy, In, Queued
<1>7. ASSUME NEW k \in Job, NEW w \in Worker, Settle(k, w) PROVE OneCopy(j)'
  BY <1>1, <1>2, <1>7, SettleKeepsOneCopy
<1>8. CASE \/ \E v \in Worker : AddWorker(v) \/ RemoveWorker(v)
           \/ \E v \in Worker : HeartbeatExpires(v) \/ Heartbeat(v)
           \/ HealthCheck \/ BeginShutdown \/ EndShutdown \/ UNCHANGED vars
  <2>1. UNCHANGED <<jobQueue, executions, activeJobs>>
    BY <1>8 DEF NoRemovals, AddWorker, RemoveWorker, HeartbeatExpires,
       Heartbeat, HealthCheck, BeginShutdown, EndShutdown, vars, jobVars
  <2>2. QED
    BY <1>4, <2>1
<1>9. QED
  BY <1>5, <1>6, <1>7, <1>8 DEF Next, Background

\* While no worker is removed every job has one copy: it is queued once or
\* executed once, and a finished job is neither.
THEOREM JobsHaveOneCopy ==
    ASSUME NoRemovals
    PROVE  Spec => []SingleCopy
<1>1. Init => SingleCopy
  BY DEF Init, SingleCopy, Queued, InFlight
<1>2. IInv /\ IInv' /\ SingleCopy /\ [Next]_vars => SingleCopy'
  BY StepSingleCopy
<1>3. QED
  BY <1>1, <1>2, Invariance, PTL DEF Spec

-----------------------------------------------------------------------------
(* Worker capacity.                                                        *)

\* A pass hands a worker its last job while the worker still has a free slot.
LEMMA PassKeepsCapacity ==
    ASSUME TypeOK, NEW q \in Seq(Job),
           NEW state \in [Job -> JobStates],
           NEW id \in [Job -> Worker \cup {NoWorker}],
           Schedule(q, state, id), NEW w \in Worker,
           Cardinality(currentJobs[w]) <= MaxJobs
    PROVE  Cardinality(currentJobs'[w]) <= MaxJobs
<1>0. PICK p \in [DOMAIN q -> Available \cup {NoWorker}] :
         \E h : PassEffect(q, state, id, p, h)
  BY SchedulePass
<1>1. PICK h : PassEffect(q, state, id, p, h)
  BY <1>0
<1> DEFINE I == {n \in DOMAIN q : p[n] = w}
           m == Max(I)
<1>2. /\ IsPass(q, p)
      /\ currentJobs'[w] = currentJobs[w] \cup {q[i] : i \in I}
  BY <1>1 DEF PassEffect
<1>3. CASE I = {}
  <2>1. currentJobs'[w] = currentJobs[w]
    BY <1>2, <1>3
  <2>2. QED
    BY <2>1
<1>4. CASE I # {}
  <2>1. m \in I /\ \A x \in I : m >= x
    <3>1. I \in SUBSET (1..Len(q)) /\ Len(q) \in Nat
      OBVIOUS
    <3> HIDE DEF I
    <3>2. QED
      BY <1>4, <3>1, MaxOfPositions
  <2>2. m \in 1..Len(q) /\ p[m] = w
    BY <2>1
  <2> HIDE DEF m
  <2>3. Cardinality(LoadAt(q, p, w, m)) < MaxJobs
    <3>1. w # NoWorker
      BY ConstantsAssumption
    <3>2. w \in Choice(q, p, m)
      BY <1>2, <2>2, <3>1 DEF IsPass
    <3>3. CanAccept(q, p, w, m)
      BY <3>2 DEF Choice
    <3>4. QED
      BY <3>3 DEF CanAccept
  <2>4. currentJobs'[w] = LoadAt(q, p, w, m) \cup {q[m]}
    <3>1. ASSUME NEW i \in I
          PROVE  q[i] \in {q[k] : k \in {n \in 1..(m-1) : p[n] = w}} \cup {q[m]}
      <4>1. CASE i = m
        BY <4>1
      <4>2. CASE i # m
        <5>1. i \in 1..(m-1) /\ p[i] = w
          BY <2>1, <2>2, <4>2
        <5>2. QED
          BY <5>1
      <4>3. QED
        BY <4>1, <4>2
    <3>2. \A n \in 1..(m-1) : p[n] = w => n \in I
      BY <2>2
    <3>3. QED
      BY <1>2, <2>1, <3>1, <3>2 DEF LoadAt
  <2>5. IsFiniteSet(LoadAt(q, p, w, m)) /\ q[m] \in Job
    <3>1. currentJobs'[w] \subseteq Job
      BY <1>2, <2>2 DEF TypeOK
    <3>2. LoadAt(q, p, w, m) \subseteq Job /\ q[m] \in Job
      BY <2>4, <3>1
    <3>3. QED
      BY <3>2, ConstantsAssumption, FS_Subset
  <2>6. /\ Cardinality(LoadAt(q, p, w, m)) \in Nat
        /\ \/ Cardinality(currentJobs'[w]) = Cardinality(LoadAt(q, p, w, m))
           \/ Cardinality(currentJobs'[w]) = Cardinality(LoadAt(q, p, w, m)) + 1
    BY <2>4, <2>5, FS_CardinalityType, FS_AddElement
  <2>7. QED
    BY <2>3, <2>6, ConstantsAssumption
<1>5. QED
  BY <1>3, <1>4

\* A pass gives a job it starts a slot of the worker.
LEMMA PassTakesSlots ==
    ASSUME TypeOK, NEW q \in Seq(Job),
           NEW state \in [Job -> JobStates],
           NEW id \in [Job -> Worker \cup {NoWorker}],
           Schedule(q, state, id), NEW w \in Worker, NEW j \in Job,
           executions[j][w] > 0 => j \in currentJobs[w]
    PROVE  executions'[j][w] > 0 => j \in currentJobs'[w]
<1>0. PICK p \in [DOMAIN q -> Available \cup {NoWorker}] :
         \E h : PassEffect(q, state, id, p, h)
  BY SchedulePass
<1>1. PICK h : PassEffect(q, state, id, p, h)
  BY <1>0
<1>2. /\ executions'[j][w] >= executions[j][w]
      /\ executions'[j][w] > executions[j][w] <=>
            \E i \in DOMAIN q : q[i] = j /\ p[i] = w
      /\ currentJobs'[w] =
            currentJobs[w] \cup {q[i] : i \in {n \in DOMAIN q : p[n] = w}}
  BY <1>1 DEF PassEffect
<1>3. executions[j][w] \in Nat /\ executions'[j][w] \in Nat
  BY <1>1 DEF PassEffect, TypeOK
<1>4. QED
  BY <1>2, <1>3

\* The part of WorkerCapacity about one worker.
Capacity(w) ==
    /\ \A j \in Job : executions[j][w] > 0 => j \in currentJobs[w]
    /\ Cardinality(currentJobs[w]) <= MaxJobs

LEMMA StepCapacity ==
    ASSUME NoRemovals
    PROVE  IInv /\ IInv' /\ SingleCopy /\ WorkerCapacity /\ [Next]_vars
             => WorkerCapacity'
<1> SUFFICES ASSUME IInv, IInv', SingleCopy, WorkerCapacity, [Next]_vars
             PROVE  WorkerCapacity'
  OBVIOUS
<1>1. TypeOK /\ TypeOK'
  BY DEF IInv
<1>2. \A w \in Worker : Capacity(w)
  BY DEF WorkerCapacity, Capacity
<1>3. SUFFICES ASSUME NEW w \in Worker PROVE Capacity(w)'
  BY <1>3 DEF WorkerCapacity, Capacity
<1>4. ASSUME UNCHANGED <<currentJobs, executions>> PROVE Capacity(w)'
  BY <1>2, <1>4 DEF Capacity
<1>5. ASSUME NEW k \in Job, SubmitJob(k) PROVE Capacity(w)'
  <2>1. Append(jobQueue, k) \in Seq(Job)
    BY <1>1 DEF TypeOK
  <2>2. [jobState EXCEPT ![k] = "pending"] \in [Job -> JobStates]
    BY <1>1 DEF TypeOK, JobStates
  <2>3. workerId \in [Job -> Worker \cup {NoWorker}]
    BY <1>1 DEF TypeOK
  <2>4. Schedule(Append(jobQueue, k), [jobState EXCEPT ![k] = "pending"], workerId)
    BY <1>5 DEF SubmitJob
  <2>5. \A j \in Job : executions'[j][w] > 0 => j \in currentJobs'[w]
    BY <1>1, <1>2, <2>1, <2>2, <2>3, <2>4, PassTakesSlots DEF Capacity
  <2>6. Cardinality(currentJobs'[w]) <= MaxJobs
    BY <1>1, <1>2, <2>1, <2>2, <2>3, <2>4, PassKeepsCapacity DEF Capacity
  <2>7. QED
    BY <2>5, <2>6 DEF Capacity
<1>6. CASE Tick
  <2>1. /\ jobQueue \in Seq(Job) /\ jobState \in [Job -> JobStates]
        /\ workerId \in [Job -> Worker \cup {NoWorker}]
        /\ Schedule(jobQueue, jobState, workerId)
    BY <1>1, <1>6 DEF Tick, TypeOK
  <2>2. \A j \in Job : executions'[j][w] > 0 => j \in currentJobs'[w]
    BY <1>1, <1>2, <2>1, PassTakesSlots DEF Capacity
  <2>3. Cardinality(currentJobs'[w]) <= MaxJobs
    BY <1>1, <1>2, <2>1, PassKeepsCapacity DEF Capacity
  <2>4. QED
    BY <2>2, <2>3 DEF Capacity
<1>7. ASSUME NEW k \in Job, NEW v \in Worker, Settle(k, v) PROVE Capacity(w)'
  <2>1. /\ executions[k][v] > 0
        /\ executions'[k][v] = executions[k][v] - 1
        /\ \A i \in Job, x \in Worker :
             i # k \/ x # v => executions'[i][x] = executions[i][x]
    BY <1>1, <1>7, ResumeProperties DEF Settle, Succeed, Retry, Fail
  <2>2. executions'[k][v] = 0
    BY <2>1 DEF SingleCopy
  <2>3. CASE Retry(k, v)
    <3>1. currentJobs' = currentJobs
      BY <2>3 DEF Retry
    <3>2. \A j \in Job : executions'[j][w] > 0 => executions[j][w] > 0
      BY <2>1, <2>2
    <3>3. QED
      BY <1>2, <3>1, <3>2 DEF Capacity
  <2>4. CASE Succeed(k, v) \/ Fail(k, v)
    <3>1. currentJobs' = [currentJobs EXCEPT ![v] = currentJobs[v] \ {k}]
      BY <2>4 DEF Succeed, Fail, CompleteJob
    <3>2. currentJobs'[w] = IF w = v THEN currentJobs[w] \ {k} ELSE currentJobs[w]
      BY <1>1, <3>1 DEF TypeOK
    <3>3. \A j \in Job : executions'[j][w] > 0 => j \in currentJobs'[w]
      <4> TAKE j \in Job
      <4>1. CASE j = k /\ w = v
        BY <2>2, <4>1
      <4>2. CASE j # k \/ w # v
        BY <1>2, <2>1, <3>2, <4>2 DEF Capacity
      <4>3. QED
        BY <4>1, <4>2
    <3>4. IsFiniteSet(currentJobs[w])
      <4>1. currentJobs[w] \subseteq Job
        BY <1>1 DEF TypeOK
      <4>2. QED
        BY <4>1, ConstantsAssumption, FS_Subset
    <3>5. /\ Cardinality(currentJobs'[w]) <= Cardinality(currentJobs[w])
          /\ Cardinality(currentJobs'[w]) \in Nat
          /\ Cardinality(currentJobs[w]) \in Nat
      <4>1. currentJobs'[w] \subseteq currentJobs[w]
        BY <3>2
      <4>2. QED
        BY <3>4, <4>1, FS_Subset, FS_CardinalityType
    <3>6. QED
      BY <1>2, <3>3, <3>5, ConstantsAssumption DEF Capacity
  <2>5. QED
    BY <1>7, <2>3, <2>4 DEF Settle
<1>8. CASE \/ \E v \in Worker : AddWorker(v) \/ RemoveWorker(v)
           \/ \E v \in Worker : HeartbeatExpires(v) \/ Heartbeat(v)
           \/ HealthCheck \/ BeginShutdown \/ EndShutdown \/ UNCHANGED vars
  <2>1. UNCHANGED <<currentJobs, executions>>
    BY <1>8 DEF AddWorker, RemoveWorker, HeartbeatExpires, Heartbeat,
       HealthCheck, BeginShutdown, EndShutdown, vars, jobVars
  <2>2. QED
    BY <1>4, <2>1
<1>9. QED
  BY <1>5, <1>6, <1>7, <1>8 DEF Next, Background

\* While no worker is removed no worker holds more jobs than maxJobs, and every
\* job it executes holds one of its slots, under every scheduling strategy.
THEOREM WorkersAreNotOverloaded ==
    ASSUME NoRemovals
    PROVE  Spec => []WorkerCapacity
<1>1. Init => WorkerCapacity
  <2>1. Cardinality({}) = 0
    BY FS_EmptySet
  <2>2. QED
    BY <2>1, ConstantsAssumption DEF Init, WorkerCapacity
<1>2. IInv /\ IInv' /\ SingleCopy /\ WorkerCapacity /\ [Next]_vars
        => WorkerCapacity'
  BY StepCapacity
<1>3. QED
  BY <1>1, <1>2, Invariance, JobsHaveOneCopy, PTL DEF Spec

-----------------------------------------------------------------------------
(* The outcome of a job, the counters and the refinement.                  *)

\* The steps of the scheduler, as its clients see them: an outcome is final.
ClientStep ==
    \/ /\ completedJobs' = completedJobs
       /\ \A j \in completedJobs : jobState'[j] = jobState[j]
       /\ stats' = stats
       /\ \/ activeJobs' = activeJobs
          \/ \E j \in Job : /\ j \notin activeJobs \cup completedJobs
                            /\ activeJobs' = activeJobs \cup {j}
    \/ \E j \in activeJobs, outcome \in {"completed", "failed"} :
       /\ completedJobs' = completedJobs \cup {j}
       /\ activeJobs' = activeJobs \ {j}
       /\ jobState' = [jobState EXCEPT ![j] = outcome]
       /\ stats' = IF outcome = "completed"
                     THEN [stats EXCEPT !.completed = @ + 1]
                     ELSE [stats EXCEPT !.failed = @ + 1]

\* A pass over a queue without finished jobs leaves their state alone.
LEMMA PassKeepsOutcomes ==
    ASSUME TypeOK, NEW q \in Seq(Job),
           NEW state \in [Job -> JobStates],
           NEW id \in [Job -> Worker \cup {NoWorker}],
           Schedule(q, state, id), NEW j \in Job, ~In(q, j)
    PROVE  jobState'[j] = state[j]
BY PassKeepsJobs

LEMMA StepClient ==
    ASSUME NoRemovals
    PROVE  IInv /\ SingleCopy /\ [Next]_vars => ClientStep
<1> SUFFICES ASSUME IInv, SingleCopy, [Next]_vars PROVE ClientStep
  OBVIOUS
<1>1. TypeOK /\ NoJobLost
  BY DEF IInv
<1>2. \A j \in completedJobs : j \in Job /\ ~In(jobQueue, j) /\ j \notin activeJobs
  BY <1>1 DEF SingleCopy, NoJobLost, In, Queued, TypeOK
<1>3. ASSUME NEW k \in Job, SubmitJob(k) PROVE ClientStep
  <2> DEFINE q == Append(jobQueue, k)
             state == [jobState EXCEPT ![k] = "pending"]
  <2>1. q \in Seq(Job)
    BY <1>1 DEF TypeOK
  <2>2. state \in [Job -> JobStates]
    BY <1>1 DEF TypeOK, JobStates
  <2>3. workerId \in [Job -> Worker \cup {NoWorker}]
    BY <1>1 DEF TypeOK
  <2>4. /\ jobState[k] = "unsubmitted" /\ activeJobs' = activeJobs \cup {k}
        /\ Schedule(q, state, workerId)
        /\ completedJobs' = completedJobs /\ stats' = stats
    BY <1>3 DEF SubmitJob
  <2>5. k \notin activeJobs \cup completedJobs
    BY <1>1, <2>4 DEF NoJobLost
  <2>6. \A j \in completedJobs : ~In(q, j) /\ state[j] = jobState[j]
    <3>1. /\ DOMAIN q = 1..(Len(jobQueue) + 1)
          /\ DOMAIN jobQueue = 1..Len(jobQueue)
          /\ Len(jobQueue) \in Nat
          /\ \A a \in 1..Len(jobQueue) : q[a] = jobQueue[a]
          /\ q[Len(jobQueue) + 1] = k
      <4>1. jobQueue \in Seq(Job)
        BY <1>1 DEF TypeOK
      <4>2. QED
        BY <4>1
    <3>2. QED
      BY <1>2, <2>5, <3>1 DEF In
  <2> HIDE DEF q, state
  <2>7. \A j \in completedJobs : jobState'[j] = jobState[j]
    BY <1>1, <1>2, <2>1, <2>2, <2>3, <2>4, <2>6, PassKeepsOutcomes
  <2>8. QED
    BY <2>4, <2>5, <2>7 DEF ClientStep
<1>4. CASE Tick
  <2>1. /\ jobQueue \in Seq(Job) /\ jobState \in [Job -> JobStates]
        /\ workerId \in [Job -> Worker \cup {NoWorker}]
        /\ Schedule(jobQueue, jobState, workerId)
        /\ UNCHANGED <<activeJobs, completedJobs, stats>>
    BY <1>1, <1>4 DEF Tick, TypeOK
  <2>2. \A j \in completedJobs : jobState'[j] = jobState[j]
    BY <1>1, <1>2, <2>1, PassKeepsOutcomes
  <2>3. QED
    BY <2>1, <2>2 DEF ClientStep
<1>5. ASSUME NEW k \in Job, NEW w \in Worker, Settle(k, w) PROVE ClientStep
  <2>1. k \in activeJobs /\ k \notin completedJobs
    <3>1. InFlight(k)
      BY <1>1, <1>5, ResumeProperties
      DEF Settle, Succeed, Retry, Fail, InFlight
    <3>2. QED
      BY <1>1, <3>1 DEF SingleCopy, NoJobLost
  <2>2. CASE Succeed(k, w)
    BY <2>1, <2>2 DEF Succeed, Finish, ClientStep
  <2>3. CASE Retry(k, w)
    BY <1>1, <2>1, <2>3 DEF Retry, ClientStep, TypeOK
  <2>4. CASE Fail(k, w)
    BY <2>1, <2>4 DEF Fail, Finish, ClientStep
  <2>5. QED
    BY <1>5, <2>2, <2>3, <2>4 DEF Settle
<1>6. CASE EndShutdown
  BY <1>1, <1>2, <1>6 DEF EndShutdown, ClientStep, TypeOK
<1>7. CASE \/ \E v \in Worker : AddWorker(v) \/ RemoveWorker(v)
           \/ \E v \in Worker : HeartbeatExpires(v) \/ Heartbeat(v)
           \/ HealthCheck \/ BeginShutdown \/ UNCHANGED vars
  <2>1. UNCHANGED <<activeJobs, completedJobs, jobState, stats>>
    BY <1>7 DEF NoRemovals, AddWorker, RemoveWorker, HeartbeatExpires,
       Heartbeat, HealthCheck, BeginShutdown, vars, jobVars
  <2>2. QED
    BY <2>1 DEF ClientStep
<1>8. QED
  BY <1>3, <1>4, <1>5, <1>6, <1>7 DEF Next, Background

\* The counters after a job has been added to those with an outcome.
Outcome(o) == {j \in completedJobs : jobState[j] = o}

LEMMA StepStats ==
    IInv /\ IInv' /\ ClientStep /\ StatsAgree => StatsAgree'
<1> SUFFICES ASSUME IInv, IInv', ClientStep, StatsAgree PROVE StatsAgree'
  OBVIOUS
<1>1. TypeOK /\ TypeOK' /\ NoJobLost
  BY DEF IInv
<1>2. \A o : IsFiniteSet(Outcome(o)) /\ Cardinality(Outcome(o)) \in Nat
  <2> TAKE o
  <2>1. Outcome(o) \subseteq Job
    BY <1>1 DEF Outcome, TypeOK
  <2>2. QED
    BY <2>1, ConstantsAssumption, FS_Subset, FS_CardinalityType
<1>3. CASE /\ completedJobs' = completedJobs
           /\ \A j \in completedJobs : jobState'[j] = jobState[j]
           /\ stats' = stats
  BY <1>3 DEF StatsAgree
<1>4. ASSUME NEW j \in activeJobs, NEW outcome \in {"completed", "failed"},
             completedJobs' = completedJobs \cup {j},
             jobState' = [jobState EXCEPT ![j] = outcome],
             stats' = IF outcome = "completed"
                        THEN [stats EXCEPT !.completed = @ + 1]
                        ELSE [stats EXCEPT !.failed = @ + 1]
      PROVE  StatsAgree'
  <2>1. j \in Job /\ j \notin completedJobs
    BY <1>1 DEF TypeOK, NoJobLost
  <2>2. \A k \in Job : jobState'[k] = IF k = j THEN outcome ELSE jobState[k]
    BY <1>1, <1>4 DEF TypeOK
  <2>3. \A o : Outcome(o)' = IF o = outcome THEN Outcome(o) \cup {j} ELSE Outcome(o)
    BY <1>1, <1>4, <2>1, <2>2 DEF Outcome, TypeOK
  <2>4. Cardinality(Outcome(outcome) \cup {j}) = Cardinality(Outcome(outcome)) + 1
    <3>1. j \notin Outcome(outcome)
      BY <2>1 DEF Outcome
    <3>2. QED
      BY <1>2, <3>1, FS_AddElement
  <2>5. /\ stats.completed = Cardinality(Outcome("completed"))
        /\ stats.failed = Cardinality(Outcome("failed"))
    BY DEF StatsAgree, Outcome
  <2>6. /\ stats'.completed = Cardinality(Outcome("completed")')
        /\ stats'.failed = Cardinality(Outcome("failed")')
    <3>1. CASE outcome = "completed"
      <4>1. stats'.completed = stats.completed + 1 /\ stats'.failed = stats.failed
        BY <1>1, <1>4, <3>1 DEF TypeOK
      <4>2. QED
        BY <2>3, <2>4, <2>5, <3>1, <4>1
    <3>2. CASE outcome = "failed"
      <4>1. stats'.completed = stats.completed /\ stats'.failed = stats.failed + 1
        BY <1>1, <1>4, <3>2 DEF TypeOK
      <4>2. QED
        BY <2>3, <2>4, <2>5, <3>2, <4>1
    <3>3. QED
      BY <3>1, <3>2
  <2>7. \A k \in completedJobs' : jobState'[k] \in {"completed", "failed"}
    BY <1>1, <1>4, <2>2 DEF StatsAgree, TypeOK
  <2>8. QED
    BY <2>6, <2>7 DEF StatsAgree, Outcome
<1>5. QED
  BY <1>3, <1>4 DEF ClientStep

\* While no worker is removed the counters of getStats() agree with
\* completedJobs: every job is counted once, by its final outcome.
THEOREM StatisticsAgree ==
    ASSUME NoRemovals
    PROVE  Spec => []StatsAgree
<1>1. Init => StatsAgree
  <2>1. Cardinality({}) = 0
    BY FS_EmptySet
  <2>2. ASSUME Init, NEW o PROVE {j \in completedJobs : jobState[j] = o} = {}
    BY <2>2 DEF Init
  <2>3. QED
    BY <2>1, <2>2 DEF Init, StatsAgree
<1>2. IInv /\ IInv' /\ SingleCopy /\ StatsAgree /\ [Next]_vars => StatsAgree'
  BY StepClient, StepStats
<1>3. QED
  BY <1>1, <1>2, Invariance, JobsHaveOneCopy, PTL DEF Spec

\* While no worker is removed the scheduler implements JobLifecycle: a job is
\* submitted once and finishes at most once, with a final outcome, whatever is
\* retried, rescheduled or shut down in between.
THEOREM SchedulerImplementsLifecycle ==
    ASSUME NoRemovals
    PROVE  Spec => ImplementsLifecycle
<1> DEFINE status == [j \in Job |-> IF j \in activeJobs THEN "active"
                       ELSE IF j \in completedJobs THEN jobState[j]
                       ELSE "unsubmitted"]
<1>1. Init => Lifecycle!Init
  BY DEF Init, Lifecycle!Init
<1>2. IInv /\ SingleCopy /\ [Next]_vars => [Lifecycle!Next]_status
  <2> SUFFICES ASSUME IInv, SingleCopy, [Next]_vars
               PROVE  [Lifecycle!Next]_status
    OBVIOUS
  <2>1. ClientStep /\ TypeOK /\ NoJobLost
    BY StepClient DEF IInv
  <2>2. CASE /\ completedJobs' = completedJobs
             /\ \A j \in completedJobs : jobState'[j] = jobState[j]
             /\ activeJobs' = activeJobs
    BY <2>2
  <2>3. ASSUME completedJobs' = completedJobs,
               \A j \in completedJobs : jobState'[j] = jobState[j],
               NEW j \in Job, j \notin activeJobs \cup completedJobs,
               activeJobs' = activeJobs \cup {j}
        PROVE  Lifecycle!Next
    <3>1. status[j] = "unsubmitted" /\ status' = [status EXCEPT ![j] = "active"]
      BY <2>3
    <3>2. Lifecycle!Submit(j)
      BY <3>1 DEF Lifecycle!Submit
    <3>3. QED
      BY <3>2 DEF Lifecycle!Next
  <2>4. ASSUME NEW j \in activeJobs, NEW outcome \in {"completed", "failed"},
               completedJobs' = completedJobs \cup {j},
               activeJobs' = activeJobs \ {j},
               jobState' = [jobState EXCEPT ![j] = outcome]
        PROVE  Lifecycle!Next
    <3>1. j \in Job
      BY <2>1 DEF TypeOK
    <3>2. status[j] = "active" /\ status' = [status EXCEPT ![j] = outcome]
      BY <2>1, <2>4, <3>1 DEF TypeOK, NoJobLost
    <3>3. Lifecycle!Finish(j)
      BY <3>2 DEF Lifecycle!Finish, Lifecycle!Outcomes
    <3>4. QED
      BY <3>1, <3>3 DEF Lifecycle!Next
  <2>5. QED
    BY <2>1, <2>2, <2>3, <2>4 DEF ClientStep
<1>3. QED
  BY <1>1, <1>2, Invariance, JobsHaveOneCopy, PTL
  DEF Spec, ImplementsLifecycle, Lifecycle!Spec
=============================================================================
