------------------------ MODULE DistributedExecutor ------------------------
(***************************************************************************)
(* The job scheduler of the premium orchestrator, class DistributedExecutor *)
(* of omnix-orchestrator/distributed/distributed-executor.js, with its      *)
(* WorkerNode and Job objects.                                              *)
(*                                                                          *)
(* JavaScript runs one callback at a time, so everything between two awaits *)
(* is one action here.  The only suspension that matters is the await of    *)
(* simulateRemoteExecution inside executeJob: executions[j][w] counts the   *)
(* executeJob continuations of job j that are suspended there for worker w. *)
(* It is a count and not a flag because the code may start the same job     *)
(* again while an earlier execution is still in flight.                     *)
(***************************************************************************)
EXTENDS Sequencing

CONSTANTS
    Job,                    \* the Job objects clients may submit
    Worker,                 \* the WorkerNode objects that may be registered
    NoWorker,               \* job.workerId = null
    Type,                   \* node types (adapter names)
    jobType,                \* jobType[j]: job.nodeConfig.type
    capabilities,           \* capabilities[w]: the adapters worker w offers
    InitialWorkers,         \* the workers init() registers, in order
    MaxWorkers,             \* config.maxWorkers
    MaxJobs,                \* worker.maxJobs
    MaxRetries,             \* job.maxRetries
    Strategy,               \* config.schedulingStrategy
    RemoveUnhealthyWorkers, \* config.removeUnhealthyWorkers
    Removable,              \* the workers an operator calls removeWorker for
    MayExpire,              \* the workers that live longer than 30 s
    Heartbeats,             \* TRUE iff somebody calls worker.heartbeat()
    Flaky                   \* the jobs whose adapter call may throw

Strategies == {"round-robin", "least-loaded", "capability-match"}

ASSUME ConstantsAssumption ==
    /\ IsFiniteSet(Job) /\ IsFiniteSet(Worker)
    /\ NoWorker \notin Worker
    /\ jobType \in [Job -> Type]
    /\ capabilities \in [Worker -> SUBSET Type]
    /\ InitialWorkers \in Seq(Worker)
    /\ \A a, b \in DOMAIN InitialWorkers :
          InitialWorkers[a] = InitialWorkers[b] => a = b
    /\ MaxWorkers \in Nat
    /\ MaxJobs \in Nat \ {0}
    /\ MaxRetries \in Nat
    /\ Strategy \in Strategies
    /\ RemoveUnhealthyWorkers \in BOOLEAN
    /\ Heartbeats \in BOOLEAN
    /\ Removable \subseteq Worker
    /\ MayExpire \subseteq Worker
    /\ Flaky \subseteq Job

VARIABLES
    workers,       \* this.workers: the registered workers, in Map order
    workerState,   \* worker.state; IDLE and BUSY are both "online" (see README)
    stale,         \* the workers whose last heartbeat is 30 s old or older
    currentJobs,   \* worker.currentJobs
    jobQueue,      \* this.jobQueue
    activeJobs,    \* this.activeJobs
    completedJobs, \* this.completedJobs
    jobState,      \* job.state
    workerId,      \* job.workerId
    retries,       \* job.retries
    executions,    \* suspended executeJob continuations, per job and worker
    stats,         \* this.stats.completedJobs and this.stats.failedJobs
    phase          \* "up", "draining" inside shutdown(), "down" after it

workerVars == <<workers, workerState, stale>>
jobVars    == <<jobQueue, activeJobs, completedJobs, jobState, workerId, retries>>
vars       == <<workerVars, currentJobs, jobVars, executions, stats, phase>>

JobStates == {"unsubmitted", "pending", "running", "completed", "failed",
              "cancelled"}

TypeOK ==
    /\ workers \in Seq(Worker)
    /\ workerState \in [Worker -> {"new", "online", "offline"}]
    /\ stale \subseteq Worker
    /\ currentJobs \in [Worker -> SUBSET Job]
    /\ jobQueue \in Seq(Job)
    /\ activeJobs \subseteq Job
    /\ completedJobs \subseteq Job
    /\ jobState \in [Job -> JobStates]
    /\ workerId \in [Job -> Worker \cup {NoWorker}]
    /\ retries \in [Job -> 0..MaxRetries]
    /\ executions \in [Job -> [Worker -> Nat]]
    /\ stats \in [completed : Nat, failed : Nat]
    /\ phase \in {"up", "draining", "down"}

-----------------------------------------------------------------------------
(* Sequences and positions.                                                *)

Registered == {workers[a] : a \in DOMAIN workers}

Position(w) == CHOOSE a \in DOMAIN workers : workers[a] = w

-----------------------------------------------------------------------------
(* scheduleJobs().  A pass over the queue q is described by its outcome p:  *)
(* p[i] is the worker the job at position i was given to, or NoWorker.      *)

\* The snapshot availableWorkers: canAcceptJob() without requirements.
Available ==
    {w \in Registered : /\ workerState[w] = "online"
                        /\ Cardinality(currentJobs[w]) < MaxJobs}

\* worker.currentJobs when the pass reaches position i.
LoadAt(q, p, w, i) ==
    currentJobs[w] \cup {q[k] : k \in {n \in 1..(i-1) : p[n] = w}}

\* Mutant: the requirements are checked against the load before the pass.
CanAcceptSnapshot(q, p, w, i) ==
    /\ Cardinality(currentJobs[w]) < MaxJobs
    /\ jobType[q[i]] \in capabilities[w]

\* canAcceptJob(job.getRequirements()) at position i.
CanAccept(q, p, w, i) ==
    /\ Cardinality(LoadAt(q, p, w, i)) < MaxJobs
    /\ jobType[q[i]] \in capabilities[w]

\* The worker at workers[workerIndex % workers.length] for the i-th job.
Turn(i) ==
    CHOOSE w \in Available :
        Cardinality({v \in Available : Position(v) < Position(w)})
            = (i - 1) % Cardinality(Available)

\* The worker the strategy gives the job at position i to, as a set of at most
\* one: the least loaded and the best match are the first of the equals, since
\* sort() is stable, and every matching worker matches exactly.
Choice(q, p, i) ==
    LET able == {w \in Available : CanAccept(q, p, w, i)}
        load(w) == Cardinality(LoadAt(q, p, w, i))
    IN  CASE Strategy = "round-robin" -> {w \in able : w = Turn(i)}
          [] Strategy = "least-loaded" ->
               {w \in able : \A v \in able \ {w} :
                  \/ load(w) < load(v)
                  \/ load(w) = load(v) /\ Position(w) < Position(v)}
          [] OTHER ->
               {w \in able : \A v \in able \ {w} : Position(w) < Position(v)}

\* Mutant: capability-match stops at the first refused job too.
StoppedAlways(p, i) == \E k \in 1..(i-1) : p[k] = NoWorker

\* round-robin and least-loaded put the first refused job back and stop;
\* capability-match keeps it and goes on with the next one.
Stopped(p, i) ==
    /\ Strategy # "capability-match"
    /\ \E k \in 1..(i-1) : p[k] = NoWorker

IsPass(q, p) ==
    \A i \in DOMAIN q :
        IF Stopped(p, i) \/ Choice(q, p, i) = {}
          THEN p[i] = NoWorker
          ELSE p[i] \in Choice(q, p, i)

\* Mutant: the refused job is not put back before the loop ends.
UnplacedDropsRefused(p) ==
    LET rest == {i \in DOMAIN p : p[i] = NoWorker}
    IN  {i \in rest : \E k \in rest : k < i}

\* The positions whose jobs are in the queue again when the pass ends.
Unplaced(p) == {i \in DOMAIN p : p[i] = NoWorker}

\* The pass and the synchronous part of every executeJob it starts.  state and
\* id are job.state and job.workerId before the pass.
Schedule(q, state, id) ==
    \E p \in [DOMAIN q -> Available \cup {NoWorker}] :
        LET given(j) == {i \in DOMAIN q : q[i] = j /\ p[i] # NoWorker}
        IN  /\ IsPass(q, p)
            /\ jobQueue' \in Subsequence(q, Unplaced(p))
            /\ currentJobs' = [w \in Worker |->
                  currentJobs[w] \cup {q[i] : i \in {n \in DOMAIN q : p[n] = w}}]
            /\ executions' = [j \in Job |-> [w \in Worker |->
                  executions[j][w] +
                    Cardinality({i \in DOMAIN q : q[i] = j /\ p[i] = w})]]
            /\ jobState' = [j \in Job |->
                  IF given(j) = {} THEN state[j] ELSE "running"]
            /\ workerId' = [j \in Job |->
                  IF given(j) = {} THEN id[j] ELSE p[Max(given(j))]]

-----------------------------------------------------------------------------
(* The operations.                                                         *)

Init ==
    /\ workers = InitialWorkers
    /\ workerState = [w \in Worker |->
          IF \E a \in DOMAIN InitialWorkers : InitialWorkers[a] = w
            THEN "online" ELSE "new"]
    /\ stale = {}
    /\ currentJobs = [w \in Worker |-> {}]
    /\ jobQueue = <<>>
    /\ activeJobs = {}
    /\ completedJobs = {}
    /\ jobState = [j \in Job |-> "unsubmitted"]
    /\ workerId = [j \in Job |-> NoWorker]
    /\ retries = [j \in Job |-> 0]
    /\ executions = [j \in Job |-> [w \in Worker |-> 0]]
    /\ stats = [completed |-> 0, failed |-> 0]
    /\ phase = "up"

\* submitJob() once the licence has let it through: create, queue, schedule.
SubmitJob(j) ==
    /\ jobState[j] = "unsubmitted"
    /\ activeJobs' = activeJobs \cup {j}
    /\ Schedule(Append(jobQueue, j),
                [jobState EXCEPT ![j] = "pending"], workerId)
    /\ UNCHANGED <<workerVars, completedJobs, retries, stats, phase>>

\* The interval of startScheduler(): a pass every second until shutdown().
Tick ==
    /\ phase = "up"
    /\ jobQueue # <<>>
    /\ Schedule(jobQueue, jobState, workerId)
    /\ UNCHANGED <<workerVars, activeJobs, completedJobs, retries, stats, phase>>

\* Mutant: a worker marked offline does not give the slot back.
CompleteJobOnlineOnly(j, w) ==
    /\ currentJobs' = IF workerState[w] = "online"
                        THEN [currentJobs EXCEPT ![w] = @ \ {j}]
                        ELSE currentJobs
    /\ workerState' = workerState

\* worker.completeJob(): a job the worker does not hold is ignored; otherwise
\* the slot is freed and the worker's state is IDLE or BUSY again.
CompleteJob(j, w) ==
    /\ currentJobs' = [currentJobs EXCEPT ![w] = @ \ {j}]
    /\ workerState' = IF j \in currentJobs[w]
                        THEN [workerState EXCEPT ![w] = "online"]
                        ELSE workerState

\* The execution of j on w returns to executeJob, with a result or an error.
Resume(j, w) ==
    /\ executions[j][w] > 0
    /\ executions' = [executions EXCEPT ![j][w] = @ - 1]

\* The job leaves activeJobs for completedJobs in its final state.
Finish(j, state) ==
    /\ jobState' = [jobState EXCEPT ![j] = state]
    /\ completedJobs' = completedJobs \cup {j}
    /\ activeJobs' = activeJobs \ {j}

\* executeJob(), success.
Succeed(j, w) ==
    /\ Resume(j, w)
    /\ CompleteJob(j, w)
    /\ Finish(j, "completed")
    /\ stats' = [stats EXCEPT !.completed = @ + 1]
    /\ UNCHANGED <<workers, stale, jobQueue, workerId, retries, phase>>

\* Mutant: no limit on the retries.
RetryForever(j, w) ==
    /\ j \in Flaky
    /\ Resume(j, w)
    /\ retries' = [retries EXCEPT ![j] = @ + 1]
    /\ jobState' = [jobState EXCEPT ![j] = "pending"]
    /\ workerId' = [workerId EXCEPT ![j] = NoWorker]
    /\ jobQueue' = Append(jobQueue, j)
    /\ UNCHANGED <<workerVars, currentJobs, activeJobs, completedJobs, stats,
                   phase>>

\* Mutant: every failed attempt counts as a failed job.
RetryCounted(j, w) ==
    /\ j \in Flaky
    /\ Resume(j, w)
    /\ retries[j] < MaxRetries
    /\ retries' = [retries EXCEPT ![j] = @ + 1]
    /\ jobState' = [jobState EXCEPT ![j] = "pending"]
    /\ workerId' = [workerId EXCEPT ![j] = NoWorker]
    /\ jobQueue' = Append(jobQueue, j)
    /\ stats' = [stats EXCEPT !.failed = @ + 1]
    /\ UNCHANGED <<workerVars, currentJobs, activeJobs, completedJobs, phase>>

\* Mutant: the job keeps the state RUNNING while it waits for its retry.
RetryStillRunning(j, w) ==
    /\ j \in Flaky
    /\ Resume(j, w)
    /\ retries[j] < MaxRetries
    /\ retries' = [retries EXCEPT ![j] = @ + 1]
    /\ workerId' = [workerId EXCEPT ![j] = NoWorker]
    /\ jobQueue' = Append(jobQueue, j)
    /\ UNCHANGED <<workerVars, currentJobs, activeJobs, completedJobs, jobState,
                   stats, phase>>

\* Mutant: a failed attempt already moves the job to completedJobs.
RetryReportsFailure(j, w) ==
    /\ j \in Flaky
    /\ Resume(j, w)
    /\ retries[j] < MaxRetries
    /\ retries' = [retries EXCEPT ![j] = @ + 1]
    /\ Finish(j, "failed")
    /\ jobQueue' = Append(jobQueue, j)
    /\ UNCHANGED <<workerVars, currentJobs, workerId, stats, phase>>

\* executeJob(), an error with retries left: back to the queue.  The worker is
\* not told, so it keeps counting the job.
Retry(j, w) ==
    /\ j \in Flaky
    /\ Resume(j, w)
    /\ retries[j] < MaxRetries
    /\ retries' = [retries EXCEPT ![j] = @ + 1]
    /\ jobState' = [jobState EXCEPT ![j] = "pending"]
    /\ workerId' = [workerId EXCEPT ![j] = NoWorker]
    /\ jobQueue' = Append(jobQueue, j)
    /\ UNCHANGED <<workerVars, currentJobs, activeJobs, completedJobs, stats,
                   phase>>

\* executeJob(), an error and no retries left.
Fail(j, w) ==
    /\ j \in Flaky
    /\ Resume(j, w)
    /\ retries[j] >= MaxRetries
    /\ CompleteJob(j, w)
    /\ Finish(j, "failed")
    /\ stats' = [stats EXCEPT !.failed = @ + 1]
    /\ UNCHANGED <<workers, stale, jobQueue, workerId, retries, phase>>

\* addWorker() of a new WorkerNode; it throws when the licence's limit is
\* reached.
AddWorker(w) ==
    /\ workerState[w] = "new"
    /\ Len(workers) < MaxWorkers
    /\ workers' = Append(workers, w)
    /\ workerState' = [workerState EXCEPT ![w] = "online"]
    /\ UNCHANGED <<stale, currentJobs, jobVars, executions, stats, phase>>

\* removeWorker() of every worker in R, in Map order: each job the worker
\* counts goes back to the queue, the executions in flight go on.
Remove(R) ==
    LET held == {e \in R \X Job : e[2] \in currentJobs[e[1]]}
        isHeld(j) == \E w \in R : j \in currentJobs[w]
    IN  /\ \E s \in Bijection(1..Cardinality(held), held) :
             /\ \A a, b \in DOMAIN s :
                  a < b => Position(s[a][1]) <= Position(s[b][1])
             /\ jobQueue' = jobQueue \o [a \in 1..Cardinality(held) |-> s[a][2]]
        /\ jobState' = [j \in Job |->
              IF isHeld(j) THEN "pending" ELSE jobState[j]]
        /\ workerId' = [j \in Job |->
              IF isHeld(j) THEN NoWorker ELSE workerId[j]]
        /\ workers' \in Subsequence(workers,
              {a \in DOMAIN workers : workers[a] \notin R})

RemoveWorker(w) ==
    /\ w \in Removable \cap Registered
    /\ Remove({w})
    /\ UNCHANGED <<workerState, stale, currentJobs, activeJobs, completedJobs,
                   retries, executions, stats, phase>>

\* Thirty seconds pass without a heartbeat of w.
HeartbeatExpires(w) ==
    /\ w \in (Registered \cap MayExpire) \ stale
    /\ stale' = stale \cup {w}
    /\ UNCHANGED <<workers, workerState, currentJobs, jobVars, executions,
                   stats, phase>>

\* worker.heartbeat(), which nothing in the repository calls.
Heartbeat(w) ==
    /\ Heartbeats
    /\ w \in stale
    /\ stale' = stale \ {w}
    /\ UNCHANGED <<workers, workerState, currentJobs, jobVars, executions,
                   stats, phase>>

\* Mutant: the jobs of an unhealthy worker are requeued although it stays.
HealthCheckRequeues ==
    LET unhealthy == Registered \cap stale
    IN  /\ unhealthy # {}
        /\ workerState' = [w \in Worker |->
              IF w \in unhealthy THEN "offline" ELSE workerState[w]]
        /\ Remove(unhealthy)
        /\ UNCHANGED <<stale, currentJobs, activeJobs, completedJobs, retries,
                       executions, stats, phase>>

\* The interval of startHealthMonitoring(), which shutdown() does not clear.
HealthCheck ==
    LET unhealthy == Registered \cap stale
    IN  /\ unhealthy # {}
        /\ workerState' = [w \in Worker |->
              IF w \in unhealthy THEN "offline" ELSE workerState[w]]
        /\ IF RemoveUnhealthyWorkers
             THEN Remove(unhealthy)
             ELSE UNCHANGED <<workers, jobQueue, jobState, workerId>>
        /\ UNCHANGED <<stale, currentJobs, activeJobs, completedJobs, retries,
                       executions, stats, phase>>

\* shutdown() up to its polling loop.
BeginShutdown ==
    /\ phase = "up"
    /\ phase' = "draining"
    /\ UNCHANGED <<workerVars, currentJobs, jobVars, executions, stats>>

\* shutdown() after its polling loop, which ends when no job is active or when
\* thirty seconds have passed.
EndShutdown ==
    /\ phase = "draining"
    /\ phase' = "down"
    /\ jobState' = [j \in Job |->
          IF j \in activeJobs THEN "cancelled" ELSE jobState[j]]
    /\ UNCHANGED <<workerVars, currentJobs, jobQueue, activeJobs, completedJobs,
                   workerId, retries, executions, stats>>

Settle(j, w) == Succeed(j, w) \/ Retry(j, w) \/ Fail(j, w)

\* What happens without a client: timers, executions and operators.
Background ==
    \/ Tick
    \/ \E j \in Job, w \in Worker : Settle(j, w)
    \/ \E w \in Worker : AddWorker(w)
    \/ \E w \in Worker : RemoveWorker(w)
    \/ \E w \in Worker : HeartbeatExpires(w)
    \/ \E w \in Worker : Heartbeat(w)
    \/ HealthCheck
    \/ BeginShutdown
    \/ EndShutdown

Next == (\E j \in Job : SubmitJob(j)) \/ Background

Spec == Init /\ [][Next]_vars

\* setInterval keeps calling scheduleJobs(), and every adapter call returns.
Fairness ==
    /\ WF_vars(Tick)
    /\ \A j \in Job, w \in Worker : WF_vars(Settle(j, w))

FairSpec == Spec /\ Fairness

-----------------------------------------------------------------------------
(* Properties.                                                             *)

Queued(j) == \E a \in DOMAIN jobQueue : jobQueue[a] = j

InFlight(j) == \E w \in Worker : executions[j][w] > 0

\* No job is lost: whatever fails, is removed or is shut down, a job that is
\* still in activeJobs is either waiting in jobQueue or being executed, and
\* getJobStatus() finds every submitted job in exactly one of the two Maps.
NoJobLost ==
    /\ \A j \in activeJobs : Queued(j) \/ InFlight(j)
    /\ activeJobs \cap completedJobs = {}
    /\ activeJobs \cup completedJobs =
          {j \in Job : jobState[j] # "unsubmitted"}

\* What getJobStatus() reports of a running job is true: the worker it names
\* is executing it, even when the job has been requeued or retried before.
ReportedWorkerExecutes ==
    \A j \in Job : jobState[j] = "running" =>
        workerId[j] \in Worker /\ executions[j][workerId[j]] > 0

\* A worker slot taken by a job the worker is not executing was left behind by
\* a retry (the catch block of executeJob() does not call completeJob()):
\* success, final failure, removal and shutdown leave none.
OnlyRetriesLeakSlots ==
    \A w \in Worker : \A j \in currentJobs[w] :
        executions[j][w] = 0 => retries[j] > 0

\* While no worker is removed a job has one copy: it waits in the queue once,
\* or one execution of it is in flight; a finished job has none.  So no node
\* of a pipeline runs twice at a time or again after it has finished.
SingleCopy ==
    /\ \A a, b \in DOMAIN jobQueue : jobQueue[a] = jobQueue[b] => a = b
    /\ \A j \in Job, w \in Worker :
          executions[j][w] > 0 =>
            /\ executions[j][w] = 1
            /\ ~Queued(j)
            /\ \A v \in Worker \ {w} : executions[j][v] = 0
    /\ \A j \in Job : Queued(j) \/ InFlight(j) => j \in activeJobs

\* While no worker is removed no worker executes more jobs than maxJobs, and
\* every job it executes holds one of its slots.
WorkerCapacity ==
    \A w \in Worker :
        LET executing == {j \in Job : executions[j][w] > 0}
        IN  /\ executing \subseteq currentJobs[w]
            /\ Cardinality(currentJobs[w]) <= MaxJobs

\* While no worker is removed the counters of getStats() agree with
\* completedJobs: every job is counted once, by its final outcome.
StatsAgree ==
    /\ stats.completed =
          Cardinality({j \in completedJobs : jobState[j] = "completed"})
    /\ stats.failed =
          Cardinality({j \in completedJobs : jobState[j] = "failed"})
    /\ \A j \in completedJobs : jobState[j] \in {"completed", "failed"}

\* A worker that will never take a job again: it executes none whose end could
\* free a slot or bring it back online, and it is offline or full, with slots
\* that retries have left behind.
Exhausted(w) ==
    /\ \A j \in Job : executions[j][w] = 0
    /\ workerState[w] # "online" \/ Cardinality(currentJobs[w]) >= MaxJobs

\* A submitted job finishes, although others fail, leak slots, compete for the
\* workers or stand before it in the queue without a worker that could serve
\* them, unless the scheduler is shut down or every worker registered for the
\* job's type is exhausted.  (A type without workers has none that is not.)
ServableJobsFinish ==
    \A j \in Job :
        j \in activeJobs ~>
            \/ j \in completedJobs \/ phase # "up"
            \/ \A w \in Registered : jobType[j] \in capabilities[w] => Exhausted(w)

\* The comment in removeWorker() is "Reassign jobs from this worker": when a
\* job has been handed to another worker, only that worker executes it.
ReassignedJobRunsOnce ==
    \A j \in Job, v, w \in Worker :
        executions[j][v] > 0 /\ executions[j][w] > 0 => v = w

\* What a client of the scheduler sees of a job; it is refined while no worker
\* is removed.
Lifecycle == INSTANCE JobLifecycle WITH
    status <- [j \in Job |->
        IF j \in activeJobs THEN "active"
        ELSE IF j \in completedJobs THEN jobState[j] ELSE "unsubmitted"]

\* The scheduler implements the job life cycle: a job is submitted once and
\* finishes at most once, with an outcome that never changes.
ImplementsLifecycle == Lifecycle!Spec
=============================================================================
