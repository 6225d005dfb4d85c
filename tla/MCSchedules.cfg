CONSTANTS
    Sweepers = {s1, s2}
    Modes = {"agent_task", "monitor", "reminder"}
    Channels = {"telegram", "web"}
    Timings <- MCTimings
    Grace = 0
    Day = 4
    Maximum = 2
    Expiry = 5
    Horizon = 5
    MaxRevision = 3
    MaxFaults = 1
SPECIFICATION FairSpec
INVARIANTS SlotsServedOnce UsageBounded OneUnfinished AdmittedInTime
PROPERTIES DueIsServed
CHECK_DEADLOCK FALSE
