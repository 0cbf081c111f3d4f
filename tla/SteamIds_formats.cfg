SPECIFICATION FormatsSpec
CONSTANTS
    n1 = n1
    steam2 = steam2
    MaxClients = 1
    Players = {steam2, steam3}
    Bots = {}
    NoPlayer = NoPlayer
    Names = {n1}
    Versions = {v1}
    Empty = Empty
    CookieIds = {1}
    MaxSerial = 2
    Addresses = {1, 2}
    EmptySlotCalls = FALSE
    AuthIdEarly = TRUE
    Steam2Id <- OnePlayer
    Workers = {w1}
    Hashes <- HashOne
    MaxPipe = 1
    Reserved = 0
    Scripts = {TRUE}
    Nil = Nil
    Idle = Idle
PROPERTIES
    AnyFormatSeen
CHECK_DEADLOCK FALSE
