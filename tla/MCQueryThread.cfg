SPECIFICATION MCSpec
CONSTANTS
    MaxCalls = 12
    CallerCalls = 4
    MaxConnects = 2
    MaxPermits = 2
    CacheSize = 0
    PipeTimeout = FALSE
    MaySever = TRUE
    Pending = Pending
    NullReply = NullReply
    MaxOps = 1
    MayRefuse = {"AUTH", "SELECT", "SCRIPT", "KEYS"}
    ScriptSurvives = FALSE
INVARIANTS
    NoCommandDropped
    CrashesOnlyAfterLoss
    LoadsAreReal
PROPERTIES
    ClientIsPipe
    CommandReturns
    SelectedFirst
CHECK_DEADLOCK FALSE
