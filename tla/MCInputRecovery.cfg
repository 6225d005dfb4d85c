SPECIFICATION Spec
CONSTANTS
    w1 = w1
    w2 = w2
    Inputs = 1
    Session <- MCSession
    Workers <- MCWorkers
    MaxAttempts = 2
    MaxCrashes = 1
    MaxStalls = 1
    MaxSuspends = 1
INVARIANTS NoLostWakeup ReceiptsAreTrue
PROPERTIES ClosedForever
CHECK_DEADLOCK FALSE
