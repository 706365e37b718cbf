SPECIFICATION Spec
CONSTANTS
    root = root  c1 = c1  c2 = c2  k1 = k1  k2 = k2
    Deleters = {root, c1, c2}
    Root = root
    Keys = {k1, k2}
    Slot <- MCOneSlot
    Cluster = FALSE
    Chained = FALSE
    Given <- MCGiven
    MaxKeys = 4
    MaxExecs = 1
INVARIANTS
    NoPollution
CHECK_DEADLOCK FALSE
