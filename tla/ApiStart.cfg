SPECIFICATION LiveSpec
CONSTANT
    MaxRequests = 2
INVARIANTS
    ZeroMeansDrained
    ErrorNamesCulprit
    OneFailureNoPanic
    IInv
PROPERTIES
    FailureEnds
    SigtermEnds
CHECK_DEADLOCK FALSE
