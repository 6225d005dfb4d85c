CONSTANTS
    Requests <- MCRequests
    Caller <- MCCaller
    Profile <- MCProfile
    CpuOnly <- MCCpuOnly
    Mixes <- MCMixes
    Lane <- MCLane
    Model <- MCModel
    PeakRAM <- MCPeakRAM
    CpuFallback <- MCCpuFallback
    Batched <- MCBatched
    QueueSize = 2
    Limit = 2
SPECIFICATION FairSpec
INVARIANTS SlotsAccounted NothingLeftBehind PromisedUpToCredit
PROPERTIES AnsweredUnlessCancelled
CHECK_DEADLOCK FALSE
