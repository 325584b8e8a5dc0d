\* Two clients and two nodes, each of which may be down.
CONSTANTS
    Clients <- TwoClients
    N = 2
SPECIFICATION FairSpec
INVARIANTS TypeOK MissedWentToOthers RedoneOnlyIfLost
PROPERTY Served
