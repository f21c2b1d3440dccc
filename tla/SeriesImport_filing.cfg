SPECIFICATION FairSpec
CONSTANTS
    area88 = area88
    area = area
    areaBang = areaBang
    other = other
    a1 = a1
    a2 = a2
    a3 = a3
    NoName = NoName
    Nobody = Nobody
    Arrivals <- MCArrivals
    Names <- MCNames
    Key <- MCKey
    AliasKey <- MCAliasKey
    Cleaned <- MCCleaned
    Bare <- MCBare
    Observed <- MCObserved
    KnownNow <- MCKnownNow
    Corroborated = {}
    Loose = {a3}
    LibraryNow = {other}
    ResolverOn = TRUE
    OutsideNames = {other}
    MaxOutside = 1
CHECK_DEADLOCK FALSE
INVARIANTS
    DeferredOnlyIfMoving
    Safety
PROPERTY
    EveryArrivalEnds
