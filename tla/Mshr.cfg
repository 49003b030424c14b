SPECIFICATION FairSpec
CONSTANTS
    e1 = e1
    e2 = e2
    e3 = e3
    u1 = u1
    u2 = u2
    u3 = u3
    None = None
    NumCores = 2
    Entries = {e1, e2, e3}
    Home <- TwoHomes
    Lines = {l1, l2}
    Loads = {u1, u2}
    Fetches = {u3}
    Asks <- OneRoams
    ClientCore <- TwoCoreClients
    L2InSize = 1
    Prefetched = {l2}
INVARIANT FreeIffUnused
INVARIANT WaitingLoadHasEntry
INVARIANT MergedReachMemory
PROPERTY WaitingIsServed
