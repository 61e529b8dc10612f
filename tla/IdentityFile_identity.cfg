CONSTANTS
    Processes = {p1, p2, p3}
    Paths = {"", "given", "named", "home"}
    Default = "home"
    None = None
SPECIFICATION Spec
INVARIANTS
    TypeOK
    IdentityIsStable
PROPERTIES
    OverwrittenOnlyInRace
CHECK_DEADLOCK FALSE
