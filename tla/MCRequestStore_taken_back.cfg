CONSTANTS
    Requests = {r1}
    Handlers = {h1, h2, h3}
    Ops = {"create", "view", "submit"}
    Shapes <- Quiet
    PatchStatuses = {}
    ProgramOrder = TRUE
    MaxTime = 0
    None = None
SPECIFICATION Spec
PROPERTIES
    CompletedStays
CHECK_DEADLOCK FALSE
