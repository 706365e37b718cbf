SPECIFICATION LiveSpec
CONSTANTS
    root = root  c1 = c1  k1 = k1  k2 = k2  r1 = r1  r2 = r2
    Deleters = {root, c1}
    Root = root
    Keys = {k1, k2}
    Slot <- MCSlots
    Cluster = TRUE
    Chained = TRUE
    Given <- MCGiven
    MaxKeys = 2
    MaxExecs = 1
    Readers = {r1, r2}
    Hosts <- MCHosts
    Lists <- MCLists
    Written = {k1}
    MaxWrites = 2
INVARIANTS
    CacheFresh
    ReadFresh
    IInv
PROPERTIES
    EveryReadEnds
CHECK_DEADLOCK FALSE
