SPECIFICATION Spec
CONSTANTS
    r1 = r1
    r2 = r2
    c1 = c1
    c2 = c2
    Runs <- MCRuns
    Calls <- MCCalls
    Methods = {"receipt", "ack", "guarded", "none"}
    MaxGrants = 2
    MaxEpoch = 2
SYMMETRY Symmetry
INVARIANTS
    DispatchedAtMostOnce
    LedgersAgree
    VerdictTruthful
PROPERTIES
    VerdictFinal
CHECK_DEADLOCK FALSE
