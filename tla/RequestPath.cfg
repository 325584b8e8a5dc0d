\* One agent, one fingerprint, a primary call costs the whole agent budget.
CONSTANTS
    FailureThreshold = 1
    Cooldown = 2
    HalfOpenSuccessThreshold = 1
    HalfOpenMaxProbes = 1
    Requests <- HighAndMediumClients
    RequestOf <- HighAndMedium
    FingerprintOf <- SameText
    AgentOf <- SameAgent
    Price = 2
    GlobalLimit = 0
    DefaultAgentLimit = 2
    AgentLimits <- HalfACall
    LoopThreshold = 2
    LoopWindow = 1
    TickMs = 1500
SPECIFICATION Spec
INVARIANTS TypeOK RunawayBounded NoBlindRetry HumanTold ProbeOutstanding
PROPERTIES ProvidersGated OverspendBounded
