SPECIFICATION Spec
CONSTANTS
    Nodes = {n1, n2}
    Blocks = {b1, b2, b3}
    Threads = {th1, th2, th3}
    Consumers = {c1, c2}
    b1 = b1
    b2 = b2
    c1 = c1
    Null = Null
    e1 = e1
    e2 = e2
    e3 = e3
    CookieNames = {long, short, other}
    Cut <- CutOf
    NameHash <- HashOfName
    OldIds = {7}
    QueryThreads = {t1, t2}
    MaxCookies = 3
    StoredNames = {short, other}
    StoredDescs = {"d"}
    StoredValues = {"v"}
    Access = {"0", "2"}
    long = long
    short = short
    other = other
    p1 = p1
    p2 = p2
    client = client
INVARIANTS
    FreeListInv
    ProducerHashInv
    ProducerBlocksInv
    DestructorIsExact
    IdsAgree
    SettingsMenuInv
PROPERTIES
    FreeListIsPool
    ProducerIsFifo
    OwnItemsGo
    LoadIsExact
CHECK_DEADLOCK FALSE
