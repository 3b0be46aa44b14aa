SPECIFICATION FairSpec
CONSTANTS
    j1 = j1
    j2 = j2
    j3 = j3
    j4 = j4
    w1 = w1
    w2 = w2
    w3 = w3
    py = py
    other = other
    NoWorker = NoWorker
    Job <- FourJobs
    Worker <- TwoWorkers
    Type <- TwoTypes
    jobType <- FirstUnserved
    capabilities <- Python
    InitialWorkers <- W1W2
    MaxWorkers = 2
    MaxJobs = 2
    MaxRetries = 2
    Strategy = "capability-match"
    RemoveUnhealthyWorkers = FALSE
    Removable <- NoWorkers
    MayExpire <- OneWorker
    Heartbeats = FALSE
    Flaky <- J2J3
INVARIANT TypeOK
INVARIANT SingleCopy
INVARIANT WorkerCapacity
INVARIANT StatsAgree
PROPERTY ImplementsLifecycle
PROPERTY ServableJobsFinish
CHECK_DEADLOCK FALSE
