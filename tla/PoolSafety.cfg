SPECIFICATION Spec
CONSTANTS
    Workers = {w1, w2}
    Clients = {c1, c2}
    MaxTasks = 3
    Inputs <- MCInputs
    ClientJobs <- MCNestedJobs
    Cpu <- MCCpu
    NoTask = NoTask
    NoJob = NoJob
    None = None
SYMMETRY Symmetry
INVARIANTS
    InFlightOnce
    PendingNotStranded
    ResumeFindsTargetDone
    CompletedHasValue
PROPERTIES
    ImplementsFutures
