SPECIFICATION ServiceSpec
CONSTANTS
    t1 = t1
    t2 = t2
    t3 = t3
    Threads = {t1, t2, t3}
    Selectors = {t1}
    MaxChans = 2
    MaxValues = 2
    MaxSelect = 2
    Capacities <- MCCapacities
    Programs <- MCPrograms
    Payload <- MCPayload
    NoChan = NoChan
    NoTask = NoTask
    NetThreads = {n1, n2}
    Purposes <- MCPurposes
    MaxRequests = 2
    MaxItems = 2
    MaxNetCalls = 3
    LoopThreads = {n1, n2}
    Pipes = {p1}
    Nobody = Nobody
    Lengths = {0, 1}
    MaxLoops = 1
    MaxTokens = 2
    MaxTimers = 2
    MaxNow = 2
    MaxInPipe = 2
SYMMETRY Symmetry
CONSTRAINT OneActor
CHECK_DEADLOCK FALSE
INVARIANTS
    CountsDelivered
    SelectSafe
    
    AnsweredOnce
    OneFate
PROPERTIES
    EndedActorIsQuiet
