CONSTANTS
    ClassOf <- MostlyCritical
    Requests <- MostlyCriticalRequests
    Concurrency <- OnePerClass
    MaxQueue <- OnePerClass
    GlobalMax = 1
SPECIFICATION FairSpec
INVARIANTS Bookkeeping ReleaseFindsToken
PROPERTIES CriticalIsolated Quiesces
\* Every request is one-shot: the system stops when all have been answered.
CHECK_DEADLOCK FALSE
