SPECIFICATION MCSpec
CONSTANTS
    r1 = r1
    r2 = r2
    c1 = c1
    own = own
    root = root
    other = other
    comment = comment
    broken = broken
    Requests <- MCRequests
    Clients <- MCClients
    ClientOf <- MCClientOf
    Limit = 2
    UseCache = TRUE
    MaxChanges = 2
    MaxFaults = 3
    Selected <- MCSelected
    TextOf <- MCTextOf
    ContentOf <- MCContentOf
    MaxPages = 2
    MaxSources = 2
    MaxTotal = 4
    MaxPerSource = 3
INVARIANTS
    LockoutsAccountedFor
    SourcesWithinBudget
    RootComesFirst
PROPERTIES
    WaitingHelps
    StaleContextsFade
