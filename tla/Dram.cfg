CONSTANTS
    Streams <- MCStreams
    NumBanks = 2
    NumChannels = 1
    BufferSize = 3
    BusWidth = 2
    Precharge = 2
    Activate = 1
    Column = 1
    AdditionalLatency = 1
    VcPartition = TRUE
SPECIFICATION Spec
INVARIANTS
    RequestsAccounted
    BankProtocol
    WritesBeforeReads
    ProgressWithinBound
PROPERTIES
    AllServed
