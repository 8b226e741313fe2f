SPECIFICATION FairSpec
CONSTANTS
    t1 = t1
    t2 = t2
    t3 = t3
    Threads = {t1, t2, t3}
    MaxChans = 1
    MaxValues = 4
    Capacities <- MCBounded
    Programs <- MCSuspending
    Payload <- MCPayload
    NoChan = NoChan
    NoTask = NoTask
CHECK_DEADLOCK FALSE
PROPERTIES
    WaitingSendersResume
