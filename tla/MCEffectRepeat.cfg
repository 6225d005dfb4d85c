SPECIFICATION Spec
CONSTANTS
    r1 = r1
    r2 = r2
    c1 = c1
    c2 = c2
    Runs <- MCRuns
    Calls <- MCCalls
    Methods = {"receipt"}
    MaxGrants = 2
    MaxEpoch = 2
SYMMETRY Symmetry
PROPERTIES
    RepeatNotHidden
CHECK_DEADLOCK FALSE
