SPECIFICATION Spec
CONSTANTS
    Clients = {c1, c2}
    Runs = {r1, r2}
    Objects = {o1, o2, o3}
    Files = {Empty}
    Backends = {"langgraph"}
    Remote = TRUE
    MayCrash = FALSE
    Empty = Empty
    None = None
    Recorded = {"fault", "deleted", "silent"}
INVARIANTS
    OneRun
CHECK_DEADLOCK FALSE
