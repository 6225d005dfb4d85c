\* A worker that lost its claim resumes from the decision it read before.
CONSTANTS
    w1 = w1
    w2 = w2
    Workers <- MCWorkers
    MaxCalls = 2
    Intents <- MCIntents
    MaxAttempts = 2
    MaxFaults = 1
SYMMETRY MCSymmetry
SPECIFICATION Spec
INVARIANTS SuspendedRunWaits
CHECK_DEADLOCK FALSE
