CONSTANTS
    Requests = {r1}
    Handlers = {h1, h2, h3}
    Ops = {"create", "get", "view", "ui", "admin", "patch", "list", "release"}
    Shapes <- Everything
    PatchStatuses = {"cancelled"}
    ProgramOrder = FALSE
    MaxTime = 0
    None = None
SPECIFICATION Spec
SYMMETRY HandlerSymmetry
INVARIANTS
    TypeOK
    IInv
    OpenedOnce
    PlainOnlyWhileResponding
    CompletedEventHasResponse
CHECK_DEADLOCK FALSE
