SPECIFICATION Spec
CONSTANTS
    MaxClients = 1
    Players = {p1, b1}
    Bots = {b1}
    NoPlayer = NoPlayer
    Names = {n1, n2}
    Versions = {v1}
    Empty = Empty
    CookieIds = {0, 1}
    MaxSerial = 2
    Addresses = {1, 2}
    EmptySlotCalls = TRUE
    AuthIdEarly = FALSE
SYMMETRY Symmetric
INVARIANTS
    PointerIsNewest
PROPERTIES
    LoadedValuesStable
    IdStable
CHECK_DEADLOCK FALSE
