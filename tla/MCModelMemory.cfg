CONSTANTS
    Requests <- DeployedRequests
    Caller <- DeployedCaller
    Profile <- DeployedProfile
    CpuOnly <- DeployedCpuOnly
    Mixes <- DeployedMixes
    Lane <- DeployedLane
    Model <- DeployedModel
    PeakRAM <- DeployedPeakRAM
    CpuFallback <- DeployedCpuFallback
    Batched <- DeployedBatched
    QueueSize = 3
    Limit = 11
SPECIFICATION Spec
INVARIANTS PromisedWithinBudget
CHECK_DEADLOCK FALSE
