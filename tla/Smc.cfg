CONSTANTS
    Data <- MCData
    Priorities <- MCPriorities
    Capacity = 3
    Latency = 2
    Program <- MCProgram
    NumRobs = 2
    RobSize = 2
    Resources <- MCResources
    SchlistSize = 3
    SchedRate = 1
    SchedSize = 2
    NumSchedulers = 2
    ScheduleRatio = 2
    MaxPort = 2
    Width = 1
    FeSize = 2
    MaxInsts = 3
    MemSlots = 1
    ExecLatency <- MCExecLatency
    DispatchLatency <- MCDispatchLatency
SPECIFICATION SmcSpec
INVARIANTS
    IssuedInOrder
    EntriesAreLive
PROPERTIES
    IsDelayQueue
    AllRetire
