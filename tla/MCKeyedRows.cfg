SPECIFICATION Spec
CONSTANTS
    Handlers = {h1, h2}
    Keys = {provider_key, memory}
    Constrained = {provider_key}
    Values = {v1, v2}
    Ids = {i1, i2, i3}
    MaxReads = 2
SYMMETRY Symmetry
INVARIANTS
    LatestIsStored
    OneRowPerKey
    ReadsAreCounted
CHECK_DEADLOCK FALSE
