SPECIFICATION MCSpec
CONSTANTS
    Lines = {l1, l2, l3}
    Third = l3
    NoLine = NoLine
    Reqs = {r1, r2}
    Wbs = {1, 2}
    Ways = 1
    InSize <- MCInSize
    OutSize = 1
    FillSize = 3
    WbSize = 1
    Topologies <- MCTopologies
INVARIANT InOnePlace
INVARIANT WbNeverRejected
PROPERTY DirtyUntilRetired
PROPERTY RequestsComplete
