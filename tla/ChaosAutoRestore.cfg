\* One engine, node-failure and a misspelt request.
CONSTANTS
    Nodes <- OneNode
    Requests <- Misspelt
    Injected <- NoInjection
    Duration = 1
    MaxRequests = 2
SPECIFICATION FairSpec
PROPERTY AutoRestores
CHECK_DEADLOCK FALSE
