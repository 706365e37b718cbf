SPECIFICATION LiveSpec
CONSTANTS
    Registries = {"etcd", "kubernetes"}
    MaxRetry = 3
INVARIANTS
    PassedMeansAnswered
    FailedMeansRefused
    IInv
PROPERTIES
    Ends
CHECK_DEADLOCK FALSE
