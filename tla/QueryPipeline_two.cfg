SPECIFICATION PipelineSpec
CONSTANTS
    n1 = n1
    MaxClients = 1
    Players = {p1}
    Bots = {}
    NoPlayer = NoPlayer
    Names = {n1}
    Versions = {v1}
    Empty = Empty
    CookieIds = {1}
    MaxSerial = 2
    Addresses = {1, 2}
    EmptySlotCalls = FALSE
    AuthIdEarly = FALSE
    Workers = {w1, w2}
    Hashes <- HashOne
    MaxPipe = 1
    Reserved = 0
    Scripts = {TRUE}
    Nil = Nil
    Idle = Idle
SYMMETRY Symmetric
INVARIANTS
    PipelineTypeOK
    NeverTerminates
PROPERTIES
    ImplementsCookieManager
CHECK_DEADLOCK FALSE
