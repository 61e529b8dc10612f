CONSTANTS
    Lives <- SomeLives
    Polls <- SomePolls
    Timeouts <- SomeTimeouts
    ResponsePoll = 1
    AcceptPoll = 1
    AcceptTimeout = 3
    HttpTimeout = 2
    MaxElapsed = 7
    Refusals = {401, 429, 500}
    None = None
SPECIFICATION Spec
INVARIANTS
    TypeOK
    ReturnsInTime
PROPERTIES
    TimeoutMissesNothing
    NotFoundMeansForgotten
    WaitsReturn
CHECK_DEADLOCK FALSE
