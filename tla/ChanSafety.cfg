SPECIFICATION Spec
CONSTANTS
    t1 = t1
    t2 = t2
    t3 = t3
    Threads = {t1, t2, t3}
    MaxChans = 1
    MaxValues = 3
    Capacities <- MCCapacities
    Programs <- MCPrograms
    Payload <- MCPayload
    NoChan = NoChan
    NoTask = NoTask
SYMMETRY Symmetry
CHECK_DEADLOCK FALSE
INVARIANTS
    MessagesOnce
    SentIsKept
    SenderOrder
    SenderHasWaker
    ReceiverHasWaker
    EndOfStreamIsFinal
