CONSTANTS
    Workers = {w1, w2}
    Chunks = 3
    MaxAttempts = 2
    MaxCrashes = 1
SPECIFICATION FairSpec
INVARIANTS
    ArriveOnceInOrder
    ReportsAreTrue
PROPERTIES
    EverythingSettles
CHECK_DEADLOCK FALSE
