SPECIFICATION RuntimeSpec
CONSTANTS
    Callers = {t1, t2}
    Awaits <- MCAwaits
    FnSets <- MCFnSets
    ExtFns = {"ext"}
    Plain = {"plain"}
    MaxTasks = 2
    MaxCalls = 1
    MaxPend = 1
    Clients = {t1, t2}
    Users = {t1, t2}
    Nonces = {n1, n2}
    MaxChecks = 3
    MaxOps = 2
    MaxUses = 3
CHECK_DEADLOCK FALSE
INVARIANTS
    ErrorIsPropagated
    OperationsSafe
    FreshOnce
PROPERTIES
    SettlesOnce
    AwaitReturns
