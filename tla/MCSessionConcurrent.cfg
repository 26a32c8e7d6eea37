SPECIFICATION Spec
CONSTANTS
    Clients = {c1, c2}
    Runs = {r1, r2}
    Objects = {o1, o2, o3}
    Files = {Empty}
    Backends = {"langgraph", "crewai"}
    Remote = TRUE
    MayCrash = TRUE
    Empty = Empty
    None = None
    Recorded = {"built", "deleted", "silent"}
INVARIANTS
    NoWedge
    NoSilentDeath
PROPERTIES
    BuildOnce
CHECK_DEADLOCK FALSE
SYMMETRY Symmetry
