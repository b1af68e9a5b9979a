SPECIFICATION Spec
CONSTANTS
    a1 = a1
    a2 = a2
    Apps <- OneApp
    SelfApps <- NoApps
    MaxRev = 2
    Keep = 1
    InlineStatus = TRUE
    ReuseIds = TRUE
    AllowBad = TRUE
    AllowDelete = FALSE
    MaxJobs = 4
    MaxFaults = 2
    FaultKinds <- AllFaults
CHECK_DEADLOCK FALSE
INVARIANTS TypeOK InOrder ChecksWhatItDeployed IInv NoOrphan
PROPERTIES NoRollback LifecycleSpec
