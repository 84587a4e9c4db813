SPECIFICATION MCSpec
CONSTANTS
    w1 = w1
    w2 = w2
    u1 = u1
    u2 = u2
    me = me
    other = other
    s1 = s1
    s2 = s2
    s3 = s3
    p1 = p1
    p2 = p2
    t = t
    Workers <- MCWorkers
    Users <- MCUsers
    BatchSize = 1
    Interval = 2
    RefreshEnabled = TRUE
    MaxSignals = 2
    MaxFaults = 1
    People <- MCPeople
    Spaces <- MCSpaces
    Plans <- MCPlans
    Traditions <- MCTraditions
    Live <- MCLive
    Group <- MCGroup
    TraditionOf <- MCTraditionOf
    TagsOf <- MCTagsOf
    Freshness <- MCFreshness
    Weight <- MCWeight
    FreeImpressions = 1
    MaxPerType = 1
    Position <- MCPosition
INVARIANTS
    HoldersHold
    FreshInstallRetriesSoon
    ReasonsHold
    DismissingMakesRoom
PROPERTY
    SuggestionsCatchUp
