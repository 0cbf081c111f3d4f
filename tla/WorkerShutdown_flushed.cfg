SPECIFICATION ShutdownSpec
CONSTANTS
    Workers = {w1, w2}
    Slots = {s1, s2}
    MaxQueue = 2
    NullPtr = NullPtr
INVARIANTS
    FlushedWhenDropped
CHECK_DEADLOCK FALSE
