SPECIFICATION FairSpec
CONSTANTS
    NumCores = 2
    Freq <- MCFreq
    LcmBound = 20
    MaxThreads = 2
    MaxInsts = 2
    Procs <- MCProcs
    Kernels <- MCKernels
    StartAt <- MCStartAt
    MainLen <- MCMainLen
INVARIANTS
    DomainsKeepTheirRate
    NoThreadWaitsForFreeCore
    EndsOnlyWhenDone
PROPERTIES
    SimulationEnds
