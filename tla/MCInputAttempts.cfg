SPECIFICATION Spec
CONSTANTS
    w1 = w1
    w2 = w2
    Inputs = 1
    Session <- MCSession
    Workers <- MCWorkers
    MaxAttempts = 2
    MaxCrashes = 2
    MaxStalls = 0
    MaxSuspends = 1
INVARIANTS AttemptsBounded
CHECK_DEADLOCK FALSE
