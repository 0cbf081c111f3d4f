SPECIFICATION ShutdownSpec
CONSTANTS
    Workers = {w1, w2}
    Slots = {s1, s2}
    MaxQueue = 2
    NullPtr = NullPtr
INVARIANTS
    ConnectedPlayersSaved
CHECK_DEADLOCK FALSE
