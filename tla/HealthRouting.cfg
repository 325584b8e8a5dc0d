\* Two nodes; a window of four probes at which every threshold can be met.
CONSTANTS
    Nodes <- TwoNodes
    Window = 4
    Full = 120
    Requests <- EachKind
    RequestOf <- Kinds
    Price = 2
    LocalMs = 20
    MaxCommands = 2
SPECIFICATION FairSpec
INVARIANTS TypeOK FailingNoticed PrimaryIffFlawless
PROPERTY RoutingRecovers
