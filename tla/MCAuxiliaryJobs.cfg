CONSTANTS
    Jobs = {j1, j2}
    Workers = {w1, w2}
    ClaimTicks = 5
    WorkTicks = 4
    MaxAttempts = 2
    MaxCrashes = 2
SPECIFICATION JobsFairSpec
INVARIANTS
    NoOverlap
PROPERTIES
    EveryJobSettles
CHECK_DEADLOCK FALSE
