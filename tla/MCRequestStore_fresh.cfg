CONSTANTS
    Requests = {r1}
    Handlers = {h1, h2, h3, h4}
    Ops = {"create", "get", "view", "submit", "list"}
    Shapes <- Quiet
    PatchStatuses = {"cancelled"}
    ProgramOrder = TRUE
    MaxTime = 2
    None = None
SPECIFICATION Spec
SYMMETRY HandlerSymmetry
INVARIANTS
    GetIsFresh
    ExpiredAfterDeadline
    CompletedHasResponse
CHECK_DEADLOCK FALSE
