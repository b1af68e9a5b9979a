SPECIFICATION Spec
CONSTANTS
    r1 = r1
    r2 = r2
    r3 = r3
    None = None
    NoAnnotations = NoAnnotations
    IngressSuffixes <- MCSuffixes
    HostRewriteRules <- NoRules
    HostPairs <- NoPairs
    IssuerTypeOverrides <- NoOverrides
    IssuerOverrides <- NoOverrides
    IssuerTypeDefault = "certmanager"
    IssuerDefault = None
    UseIngressTls = "disabled"
    TlsEntryPerHost = FALSE
    LongHosts <- NoHosts
    Specs <- MCSpecs
    ServiceAccountPerApp = TRUE
    Roles <- MCRoles
    UnlistedRoles <- MCUnlistedRoles
    BudgetUnavailable = 2
    MaxTries = 2
    MaxDeploys = 3
    MaxFaults = 1
CHECK_DEADLOCK FALSE
INVARIANTS TypeOK AsSpecified NoOldIngress ReferencesHold BoundOnce
PROPERTIES ForeignUntouched ScaleIsRecent
