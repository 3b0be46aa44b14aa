SPECIFICATION FairPipelineSpec
CONSTANTS
    j1 = j1
    j2 = j2
    j3 = j3
    j4 = j4
    w1 = w1
    w2 = w2
    p1 = p1
    p2 = p2
    p3 = p3
    py = py
    other = other
    NoWorker = NoWorker
    NoJob = NoJob
    Job <- Jobs
    Worker <- Workers
    Type <- Types
    jobType <- AllPython
    capabilities <- Python
    InitialWorkers <- W1W2
    MaxWorkers = 2
    MaxJobs = 2
    MaxRetries = 1
    Strategy = "round-robin"
    RemoveUnhealthyWorkers = FALSE
    Removable <- NoWorkers
    MayExpire <- Workers
    Heartbeats = FALSE
    Flaky <- NoWorkers
    Pipeline <- TwoOfThem
    nodes <- NodesOfTwo
    source <- Source
    Refusals <- NoRefusal
PROPERTY PipelinesReturn
CHECK_DEADLOCK FALSE
