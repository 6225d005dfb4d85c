CONSTANTS
    Processes <- MCProcesses
    Guards <- MCGuards
    Fenced <- MCFenced
    Mutators <- MCMutators
    Readers <- MCReaders
    Home <- MCHome
    MaxConns <- MCMaxConns
SPECIFICATION FairSpec
INVARIANTS
    NothingLeaks
    WriteConnectionReachable
PROPERTIES
    EveryoneFinishes
