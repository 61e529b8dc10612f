CONSTANTS
    Requests = {r1}
    Handlers = {h1, h2, h3}
    Ops = {"create", "view", "submit", "patch", "list", "release"}
    Shapes <- QuietOrHeld
    PatchStatuses = {"cancelled"}
    ProgramOrder = TRUE
    MaxTime = 2
    None = None
SPECIFICATION FairSpec
PROPERTIES
    EveryHandlerAnswers
    ImplementsLifecycle
CHECK_DEADLOCK FALSE
