SPECIFICATION Spec
CONSTANTS
    NumWorkers = 2
    Clients = {u1}
    SingleThreaded = FALSE
    MaxTasks = 2
    MaxQueue = 1
    MaxCompletes = 1
    Markers <- MCAffine
    Chans = {c1}
    NetOps = {}
    Programs <- MCMultiPrograms
    NoTask = NoTask
    NoKey = NoKey
CHECK_DEADLOCK FALSE
INVARIANTS
    QueuesSafe
