CONSTANTS
    ClassOf <- Normals
    Requests <- NormalsRequests
    Concurrency <- OnePerClass
    MaxQueue <- OnePerClass
    GlobalMax = 0
SPECIFICATION Spec
INVARIANT QueueBounded
\* Every request is one-shot: the system stops when all have been answered.
CHECK_DEADLOCK FALSE
