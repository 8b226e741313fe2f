SPECIFICATION ToolSpec
CONSTANTS
    Procs = {p1, p2}
    Sources = {s1, s2, s3}
    s1 = s1
    s2 = s2
    s3 = s3
    Externals <- MCExternals
    NoExternals = "none"
    BadBuilds <- MCBadBuilds
    Levels = {0, 2}
    DefaultLevel = 0
    Commands <- MCCommands
    MaxChanges = 1
    MaxInstalls = 1
    MaxFaults = 1
    MaxOverlaps = 1
    None = None
    Torn = Torn
    Packages = {1, 2, 3, 4}
    Graphs <- MCGraphs
    NoException = "none"
    Code <- MCCode
    ConditionInputs <- MCInputs
    LastBlock = 3
    Functions <- MCFunctions
    MaxStrays = 2
    MaxCalls = 1
    MaxParams = 2
    FunctionBodies <- MCBodies
    CopyNames = {"n", "i"}
    CopyFields = {"k"}
    MaxRounds = 2
CHECK_DEADLOCK FALSE
INVARIANTS
    BuildSafe
    RecompilesExactly
    OrderOrCycle
    ControlSafe
    PromotionSound
    OperandsMatch
    AcceptedIsSafe
