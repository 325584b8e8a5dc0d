\* One client, two nodes: the balancer resends what a lost connection carried.
CONSTANTS
    Clients <- OneClient
    N = 2
SPECIFICATION Spec
INVARIANT NotRedone
