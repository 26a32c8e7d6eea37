SPECIFICATION FairSpec
CONSTANTS
    Sessions = {s1, s2, s3}
    Calls = {c1, c2}
    MaxPort = 2
    MaxDirs = 3
    Serialized = {s1, s2}
    NoSession = NoSession
INVARIANTS
    ServerHasItsPort
    StartRegistered
    PortsDistinct
    ServedDirExists
PROPERTIES
    StartEnds
CHECK_DEADLOCK FALSE
