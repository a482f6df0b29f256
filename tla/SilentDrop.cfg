CONSTANTS
    t1 = t1
    t2 = t2
    t3 = t3
    t4 = t4
    w1 = w1
    w2 = w2
    NoMessage = NoMessage
    Tickets = {t1, t2, t3, t4}
    TooLong = {}
    Processes = {w1, w2}
    PoolSize = 2
    Capacity = 1
    MaxFaults = 1
SPECIFICATION DispatcherSpec
INVARIANT NeverSilentlyDropped
CHECK_DEADLOCK FALSE
