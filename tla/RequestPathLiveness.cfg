\* As RequestPath.cfg, without budgets: every admitted request is answered.
CONSTANTS
    FailureThreshold = 1
    Cooldown = 2
    HalfOpenSuccessThreshold = 1
    HalfOpenMaxProbes = 1
    Requests <- HighAndMediumClients
    RequestOf <- OnceAndMedium
    FingerprintOf <- SameText
    AgentOf <- SameAgent
    Price = 0
    GlobalLimit = 0
    DefaultAgentLimit = 0
    AgentLimits <- Unchanged
    LoopThreshold = 2
    LoopWindow = 1
    TickMs = 1500
SPECIFICATION FairSpec
PROPERTY Answered
