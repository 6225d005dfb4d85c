SPECIFICATION FairSpec
CONSTANTS
    w1 = w1
    w2 = w2
    Inputs = 1
    Session <- MCSession
    Workers = {w1}
    MaxAttempts = 1
    MaxCrashes = 1
    MaxStalls = 0
    MaxSuspends = 1
PROPERTIES InvalidPendingExpires
CHECK_DEADLOCK FALSE
