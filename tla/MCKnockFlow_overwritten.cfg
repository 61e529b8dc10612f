CONSTANTS
    Handlers = {h1, h2, h3, h4}
    Workspaces = {"acme"}
    Dids = {"", "did:a"}
    Calls = {"create", "status", "admin"}
    None = None
SPECIFICATION Spec
INVARIANTS
    AcceptedCanSend
CHECK_DEADLOCK FALSE
