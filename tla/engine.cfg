SPECIFICATION CheckedSpec
CONSTANTS
    c1 = c1
    c2 = c2
    c3 = c3
    e1 = e1
    e2 = e2
    load = load
    train = train
    query = query
    odd = odd
    NoAdapter = NoAdapter
    NoSuchType = NoSuchType
    None = None
    Call = {c1, c2, c3}
    Executor = {e1, e2}
    executorOf <- OnTwoExecutors
    Pipeline <- Pipelines
    adapterOf <- Adapters
    Fragile = {query}
    Unreliable = {"python"}
    Listening = {e1}
    Stoppable = {e2}
    Parts = {"executor", "loop"}
    PipelineNode = {load, train, query}
    MaxConnections = 4
CHECK_DEADLOCK FALSE
INVARIANT ExclusiveUnlessStopped
INVARIANT InputsAreOwn
INVARIANT SuccessIsOwn
INVARIANT MissingMeansFailed
PROPERTY ExecutionsEnd
INVARIANT OrderIsTopological
INVARIANT RejectsOnlyCycles
PROPERTY LoopEnds
