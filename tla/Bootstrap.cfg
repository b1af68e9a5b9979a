SPECIFICATION Spec
CONSTANTS
    a1 = a1
    a2 = a2
    Apps <- TwoApps
    SelfApps <- Self
    Unlabelled <- TwoApps
    MaxRev = 1
    Keep = 1
    InlineStatus = TRUE
    ReuseIds = FALSE
    AllowBad = TRUE
    AllowDelete = TRUE
    MaxJobs = 2
    MaxFaults = 1
    FaultKinds <- ApiOther
CHECK_DEADLOCK FALSE
INVARIANTS ExitMeansDeployed CollectsLatest
