CONSTANTS
    Callers = {c1}
    Handlers = {h1, h2}
    Limit = 2
    Window <- ThreeTicks
    Second <- TwoTicks
    MaxTime = 6
    MaxCalls = 4
    None = None
SPECIFICATION Spec
INVARIANTS
    TypeOK
    RetryAfterSuffices
    RemainingIsFree
    AdmitsAtMostLimit
PROPERTIES
    ImplementsWindow
CHECK_DEADLOCK FALSE
