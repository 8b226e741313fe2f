SPECIFICATION FairSpec
CONSTANTS
    NumWorkers = 1
    Clients = {}
    SingleThreaded = TRUE
    MaxTasks = 3
    MaxQueue = 2
    MaxCompletes = 2
    Markers <- MCSendable
    Chans = {c1}
    NetOps = {o1}
    Programs <- MCSinglePrograms
    NoTask = NoTask
    NoKey = NoKey
CHECK_DEADLOCK FALSE
INVARIANTS
    ExecutorSafe
PROPERTIES
    QuiescentRunEnds
