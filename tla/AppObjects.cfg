SPECIFICATION Spec
CONSTANTS
    None = None
    Undefined = Undefined
    UseIngressTls = "default_on"
    DatadogImage = "datadog"
    Settings <- MCSettings
    Additional <- MCAdditional
    IngressSuffixes <- MCSuffixes
    HostRewriteRules <- MCRules
    HostPairs <- MCPairs
    IssuerTypeOverrides <- MCTypes
    IssuerOverrides <- MCIssuers
    IssuerTypeDefault = "certmanager"
    IssuerDefault = "default"
    TlsEntryPerHost = TRUE
    LongHosts <- NoHosts
    GlobalEnv <- MCGlobalEnv
    LegacyEnv <- MCLegacyEnv
    DeprecatedEnv = TRUE
    ServiceAccountPerApp = FALSE
    SecretInitContainers <- MCInit
    StrongboxImage = "strongbox-image"
    SecretsImages <- MCDefaultImages
    SecretsServiceAccount = None
CHECK_DEADLOCK FALSE
INVARIANTS ExplicitWins PortsResolve Version2Kept ServedOnce IssuerOfHost ManagedEnvWins PodIsSound
