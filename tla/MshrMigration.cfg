SPECIFICATION Spec
CONSTANTS
    e1 = e1
    e2 = e2
    e3 = e3
    u1 = u1
    u2 = u2
    u3 = u3
    None = None
    NumCores = 2
    Entries = {e1, e2, e3}
    Home <- TwoHomes
    Lines = {l1, l2}
    Loads = {u1, u2}
    Fetches = {}
    Asks <- AnyLine
    ClientCore <- TwoCoreClients
    L2InSize = 2
    Prefetched = {l1, l2}
PROPERTY RefusedOnlyWhenFull
