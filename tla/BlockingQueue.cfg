CONSTANTS
    p = p
    c1 = c1
    c2 = c2
    r = r
    k = k
    m = m
    Pushers <- MCPushers
    Poppers <- MCPoppers
    Peekers <- MCPeekers
    Pollers <- MCPollers
    PushLimit = 2
SPECIFICATION FairSpec
INVARIANTS
    TypeOK
    NoLostWakeup
PROPERTIES
    ImplementsFifo
    EveryItemLeaves
