SPECIFICATION Spec
CONSTANTS
    j1 = j1
    j2 = j2
    j3 = j3
    j4 = j4
    w1 = w1
    w2 = w2
    w3 = w3
    py = py
    other = other
    NoWorker = NoWorker
    Job <- TwoJobs
    Worker <- ThreeWorkers
    Type <- TwoTypes
    jobType <- AllPython
    capabilities <- Python
    InitialWorkers <- W1W2
    MaxWorkers = 2
    MaxJobs = 1
    MaxRetries = 1
    Strategy = "round-robin"
    RemoveUnhealthyWorkers = TRUE
    Removable <- OneWorker
    MayExpire <- TwoWorkers
    Heartbeats = TRUE
    Flaky <- OneJob
INVARIANT ReassignedJobRunsOnce
CHECK_DEADLOCK FALSE
