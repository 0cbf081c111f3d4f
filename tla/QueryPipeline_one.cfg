SPECIFICATION PipelineSpec
CONSTANTS
    n1 = n1
    MaxClients = 1
    Players = {p1}
    Bots = {}
    NoPlayer = NoPlayer
    Names = {n1}
    Versions = {v1, v2}
    Empty = Empty
    CookieIds = {0, 1}
    MaxSerial = 2
    Addresses = {1, 2, 3}
    EmptySlotCalls = FALSE
    AuthIdEarly = TRUE
    Workers = {w1}
    Hashes <- HashAny
    MaxPipe = 1
    Reserved = 1
    Scripts = {TRUE, FALSE}
    Nil = Nil
    Idle = Idle
INVARIANTS
    StoredWhenQuiet
    ListedWhenQuiet
PROPERTIES
    LoadSeesStored
    EventuallyLoaded
CHECK_DEADLOCK FALSE
