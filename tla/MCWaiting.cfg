SPECIFICATION WaitingSpec
CONSTANTS
    Waiters = {c1, c2}
    Signalers = {e1, e2}
    MaxBatch = 2
    MaxSignals = 3
    MaxCalls = 3
    Producers = {e1, e2}
    Consumers = {c1, c2}
    GameThread = c1
    Null = Null
    MaxBulk = 2
    MaxItems = 3
    Workers = {w1, w2}
    Slots = {s1, s2}
    MaxQueue = 2
    NullPtr = NullPtr
INVARIANTS
    SemaphoreInv
    QueueInv
    ShutdownInv
PROPERTIES
    SemaphoreSpec
    SleepersWake
    EveryItemDequeued
    QueueIsFifo
    LonePollFinds
    ThreadsExit
CHECK_DEADLOCK FALSE
