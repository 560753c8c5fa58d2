CONSTANTS
    t1 = t1
    o1 = o1
    o2 = o2
    None = None
    Stages = {"production", "staging"}
    Ticks = {t1}
    Owners = {o1, o2}
    MaxRuntimes = 2
    MaxPuts <- MCPuts
    MaxFailures <- MCFailures
    MaxLeases = 2
    MaxCrashes = 1
SPECIFICATION FairSpec
INVARIANT TypeOK
INVARIANT OneOwner
INVARIANT OwnerIsWatched
INVARIANT OwnerUnderLease
INVARIANT OperationUnderLease
INVARIANT ReloadTakesEffect
PROPERTY OwnerReturns
PROPERTY ExpiryStopsOwner
