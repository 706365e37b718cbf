SPECIFICATION Spec
CONSTANT
    MaxRequests = 2
INVARIANTS
    SigtermExitsZero
CHECK_DEADLOCK FALSE
