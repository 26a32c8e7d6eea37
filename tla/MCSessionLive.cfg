SPECIFICATION FairSpec
CONSTANTS
    Clients = {c1, c2}
    Runs = {r1, r2}
    Objects = {o1, o2, o3}
    Files = {Empty}
    Backends = {"langgraph"}
    Remote = FALSE
    MayCrash = FALSE
    Empty = Empty
    None = None
    Recorded = {}
INVARIANTS
    OneRun
    DoneMeansBuilt
PROPERTIES
    RunningEnds
    EveryCallAnswered
CHECK_DEADLOCK FALSE
