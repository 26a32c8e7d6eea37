SPECIFICATION FairSpec
CONSTANTS
    Clients = {a}
    Conns = {c1, c2}
    MaxQueues = 2
    MaxBuffer = 1
INVARIANTS
    SleeperIsWoken
PROPERTIES
    AnyStreamEnds
CHECK_DEADLOCK FALSE
