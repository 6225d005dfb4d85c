CONSTANTS
    Executors = {e1, e2}
    Runs = {r1, r2}
    TTL <- MCTTL
    MaxEpoch <- MCMaxEpoch
    MaxWrites <- MCMaxWrites
SPECIFICATION SessionSpec
INVARIANTS
    OwnershipExclusive
    GuardPinsOwnership
    WritesFollowEpochs
PROPERTIES
    ImplementsFence
CHECK_DEADLOCK FALSE
