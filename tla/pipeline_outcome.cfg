SPECIFICATION FairPipelineSpec
CONSTANTS
    j1 = j1
    j2 = j2
    j3 = j3
    j4 = j4
    w1 = w1
    w2 = w2
    p1 = p1
    p2 = p2
    p3 = p3
    py = py
    other = other
    NoWorker = NoWorker
    NoJob = NoJob
    Job <- Jobs
    Worker <- Workers
    Type <- Types
    jobType <- LastUnserved
    capabilities <- Python
    InitialWorkers <- W1W2
    MaxWorkers = 2
    MaxJobs = 1
    MaxRetries = 1
    Strategy = "least-loaded"
    RemoveUnhealthyWorkers = FALSE
    Removable <- NoWorkers
    MayExpire <- NoWorkers
    Heartbeats = FALSE
    Flaky <- FlakyJobs
    Pipeline <- Pipelines
    nodes <- Nodes
    source <- Source
    Refusals <- MayRefuse
INVARIANT SuccessIsComplete
INVARIANT ThrowMeansFailure
PROPERTY WaitsOnlyWhenStarved
CHECK_DEADLOCK FALSE
