SPECIFICATION MCSpec
CONSTANTS
    w1 = w1
    w2 = w2
    p1 = p1
    p2 = p2
    g = g
    Workers <- MCWorkers
    Prayers <- MCPrayers
    Garbage <- MCGarbage
    Traffics <- MCTraffics
    Rejected <- MCRejected
    BatchSize = 2
    MaxEdits <- MCEdits
    MaxFaults = 2
INVARIANTS
    TypeOK
    NoPrayerForgotten
PROPERTY
    EveryMessageLeaves
CHECK_DEADLOCK FALSE
