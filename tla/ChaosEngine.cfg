\* Two engines, three requests: a scenario, its replacement and a late timer.
CONSTANTS
    Nodes <- TwoNodes
    Requests <- EachEffect
    Injected <- OneInjection
    Duration = 1
    MaxRequests = 3
SPECIFICATION FairSpec
INVARIANTS TypeOK IdleIsPristine AllRestored
PROPERTIES NeverCutShort EndsOnTime
\* Operators need not make further requests.
CHECK_DEADLOCK FALSE
