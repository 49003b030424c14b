SPECIFICATION Spec
CONSTANTS
    MCKinds = {}
    Traces <- FenceTrace
    Knobs <- OutOfOrder
    Unset = {0}
    RobSize = 4
    Width = 2
    WbSize = 2
    StoreBuffers = 2
    LoadBuffers = 2
    FetchSize = 2
    QueueSize = 2
    SchedSize = 1
    SchedRate = 1
    VersionMod = 16
INVARIANT FenceOrdersMemory
