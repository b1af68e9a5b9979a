SPECIFICATION FairSpec
CONSTANTS
    MaxReplicas = 2
    CertificateReady = TRUE
    Deploys <- TwoDeploys
    IdOf <- OwnIds
    MaxSends = 2
CHECK_DEADLOCK FALSE
INVARIANTS ReportsOwnStart
PROPERTIES ReadyMeansRolledOut ReportingCatchesUp
