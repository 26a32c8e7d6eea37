SPECIFICATION FairSpec
CONSTANTS
    Writers = {w1, w2, w3}
    Files = {f1}
    MaxVersions = 3
INVARIANTS
    LastIsCurrent
    NoGaps
    OneCurrentAlone
PROPERTIES
    AppendOnly
    ImplementsLog
    WritersEnd
CHECK_DEADLOCK FALSE
