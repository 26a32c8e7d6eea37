SPECIFICATION FairSpec
CONSTANTS
    Calls = {c1, c2}
    Files = {f1, f2}
    None = None
    MaxLate = 1
INVARIANTS
    GatewayAgrees
    PageIsCurrent
PROPERTIES
    CallsEnd
