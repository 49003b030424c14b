SPECIFICATION FairSpec
CONSTANTS
    MCKinds = {"FULL_FENCE", "ST_REL", "LD"}
    Traces <- MCTraces
    Knobs <- MCKnobs
    Unset = {0, 2}
    RobSize = 2
    Width = 2
    WbSize = 2
    StoreBuffers = 2
    LoadBuffers = 1
    FetchSize = 2
    QueueSize = 2
    SchedSize = 1
    SchedRate = 1
    VersionMod = 16
INVARIANTS
    ActiveFencesMatchRob
    InOrderFences
    ReleaseDrainsLast
    SourcesAreDone
PROPERTIES
    MapSpec
    UopsRetire
