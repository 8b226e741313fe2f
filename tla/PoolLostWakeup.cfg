SPECIFICATION FairSpec
CONSTANTS
    Workers = {w1, w2}
    Clients = {c1}
    MaxTasks = 2
    Inputs <- MCInputs
    ClientJobs <- MCAwaitJobs
    Cpu <- MCCpu
    NoTask = NoTask
    NoJob = NoJob
    None = None
PROPERTIES AwaitingTasksComplete
