\* One client of medium risk with the default policy, which allows the fallback.
CONSTANTS
    FailureThreshold = 1
    Cooldown = 2
    HalfOpenSuccessThreshold = 1
    HalfOpenMaxProbes = 1
    Requests <- MediumClient
    RequestOf <- MediumByDefault
    FingerprintOf <- SameText
    AgentOf <- SameAgent
    Price = 2
    GlobalLimit = 0
    DefaultAgentLimit = 2
    AgentLimits <- Unchanged
    LoopThreshold = 2
    LoopWindow = 1
    TickMs = 1500
SPECIFICATION Spec
INVARIANT FallbackKeepsServing
