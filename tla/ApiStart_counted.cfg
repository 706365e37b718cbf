SPECIFICATION Spec
CONSTANT
    MaxRequests = 2
INVARIANTS
    RequestsCounted
CHECK_DEADLOCK FALSE
