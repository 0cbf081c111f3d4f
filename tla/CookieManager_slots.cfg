SPECIFICATION Spec
CONSTANTS
    MaxClients = 2
    Players = {p1, p2}
    Bots = {}
    NoPlayer = NoPlayer
    Names = {n1}
    Versions = {v1}
    Empty = Empty
    CookieIds = {0, 1}
    MaxSerial = 3
    Addresses = {1, 2}
    EmptySlotCalls = FALSE
    AuthIdEarly = TRUE
SYMMETRY Symmetric
INVARIANTS
    TypeOK
    ServedOnce
    LoadedIsCurrent
    OwnValuesOnly
CHECK_DEADLOCK FALSE
