\* Two probes, both of which must succeed; calls shorter than the cooldown.
CONSTANTS
    FailureThreshold = 2
    Cooldown = 3
    HalfOpenSuccessThreshold = 2
    HalfOpenMaxProbes = 2
    Deadline = 2
    Callers = {c1, c2, c3}
SPECIFICATION FairSpec
INVARIANTS IndInv NoWedge HalfOpenIsolated
PROPERTIES ImplementsGate Recovers
