SPECIFICATION Spec
CONSTANTS
    Clients = {a, b}
    Conns = {c1}
    MaxQueues = 3
    MaxBuffer = 0
INVARIANTS
    NoDeafStream
    EndIsFinal
SYMMETRY ClientSymmetry
CHECK_DEADLOCK FALSE
