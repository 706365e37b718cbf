SPECIFICATION LiveSpec
CONSTANTS
    Requests = {"r1", "r2"}
    Taken = {"reqSz"}
INVARIANTS
    MetricsAgree
    IInv
PROPERTIES
    GatewayNeverGoesBack
    PushCatchesUp
CHECK_DEADLOCK FALSE
