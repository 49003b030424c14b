CONSTANTS
    NumCores = 2
    NumSchedulers = 2
    MaxThreads = 4
    MaxBlock <- MCMaxBlock
    Program <- MCProgram
SPECIFICATION Spec
INVARIANTS
    BarrierHolds
    LiveThreadsInWindow
    BlocksAccounted
PROPERTY
    AllWarpsFinish
