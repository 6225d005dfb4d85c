\* One process dies, or one claim or lease of a live worker runs out, anywhere.
CONSTANTS
    w1 = w1
    w2 = w2
    Workers <- MCWorkers
    MaxCalls = 2
    Intents <- MCIntents
    MaxAttempts = 2
    MaxFaults = 1
SYMMETRY MCSymmetry
SPECIFICATION Spec
INVARIANTS AskedAtMostOnce ApprovalPrecedesCall CompletedIsAccounted
PROPERTIES TurnsSeeAllResults AnswerIsFinal RunFollowsTable RetryRepeatsNothing
CHECK_DEADLOCK FALSE
