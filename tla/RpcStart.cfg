SPECIFICATION LiveSpec
CONSTANTS
    Settings = {"disabled", "noPort", "enabled"}
    MaxRpcs = 2
INVARIANTS
    ReturnsDrained
    ZeroMeansSigterm
    ErrorNamesCulprit
    OneFailureNoPanic
    ListedIsOpen
    IInv
PROPERTIES
    FailureEnds
    SigtermEnds
    QueuedIsAccepted
CHECK_DEADLOCK FALSE
