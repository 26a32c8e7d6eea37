SPECIFICATION FairSpec
CONSTANTS
    Runtimes = {"auto", "python", "node", "react", "angular", "static"}
    IdleLimit = 120
INVARIANTS
    NoFalsePass
    LinesBeforeVerdict
    FailuresAreReports
PROPERTIES
    TestsEnd
CHECK_DEADLOCK FALSE
