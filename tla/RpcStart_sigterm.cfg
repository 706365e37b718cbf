SPECIFICATION Spec
CONSTANTS
    Settings = {"disabled"}
    MaxRpcs = 2
INVARIANTS
    SigtermExitsZero
CHECK_DEADLOCK FALSE
