\* One peer; a third time unit outlives observations, a fourth seen events.
CONSTANTS
    Self = "self"
    Peers <- OnePeer
    Statuses <- OneVerdict
    ClusterSize = 2
    ObservationTTL = 1
    NodeTTL = 1
    SeenTTL = 1
    MaxTime = 3
    MaxPublished = 3
SPECIFICATION Spec
INVARIANTS IndInv NewestCounted DeadDropped
PROPERTY ReplayHarmless
\* The clock stops at MaxTime.
CHECK_DEADLOCK FALSE
