SPECIFICATION FairSpec
CONSTANTS
    MaxIterations = 5
INVARIANTS
    
    FeedbackIsFresh
PROPERTIES
    ImplementsCycle
    RunEnds
