CONSTANTS
    Txns = {"effect", "late", "child", "local", "local2", "look"}
    Ops = {"e", "c", "l", "l2", "none"}
    Scopes <- MCScopes
    Op <- MCOp
    Wanted <- MCWanted
    Charge <- MCCharge
    Preflights = {"look"}
    Limit <- MCLimit
    Exempt = {3}
    Live = {0}
SPECIFICATION Spec
INVARIANTS WithinLimit NoCircularWait
PROPERTIES ChargedAtOnce
