CONSTANTS
    Sweepers = {s1, s2}
    Modes = {"monitor"}
    Channels = {"web"}
    Timings <- MCTimings
    Grace = 0
    Day = 4
    Maximum = 2
    Expiry = 5
    Horizon = 5
    MaxRevision = 3
    MaxFaults = 1
SPECIFICATION Spec
INVARIANTS LaterSlotCanStart
CHECK_DEADLOCK FALSE
