SPECIFICATION Spec
CONSTANTS
    Clients = {c1}
    Runs = {r1, r2}
    Objects = {o1, o2, o3}
    Files = {f1, Empty}
    Backends = {"langgraph", "crewai"}
    Remote = FALSE
    MayCrash = TRUE
    Empty = Empty
    None = None
    Recorded = {"fault", "overlap", "built", "buildFailed", "deleted", "silent", "unsaved"}
INVARIANTS
    RunOwnsSession
    DoneIsDurable
PROPERTIES
    ImplementsContract
CHECK_DEADLOCK FALSE
SYMMETRY Symmetry
