SPECIFICATION CheckedSpec
CONSTANTS
    c1 = c1
    c2 = c2
    c3 = c3
    e1 = e1
    e2 = e2
    load = load
    train = train
    query = query
    odd = odd
    NoAdapter = NoAdapter
    NoSuchType = NoSuchType
    None = None
    Call = {c1, c2}
    Executor = {e1}
    executorOf <- OnOneExecutor
    Pipeline <- Pipelines
    adapterOf <- Adapters
    Fragile = {}
    Unreliable = {}
    Listening = {e1}
    Stoppable = {e1}
    Parts = {"executor"}
    PipelineNode = {}
    MaxConnections = 0
CHECK_DEADLOCK FALSE
INVARIANT ExclusiveExecution
