SPECIFICATION FairCachingSpec
CONSTANTS
    n1 = n1
    Services <- NoneOrOne
    Version <- BelowBound
    MaxVersion = 2
    Caller = {c1, c2}
    History <- OneKept
    NoRecovery = NoRecovery
    Lacking = Lacking
    NoBuild = NoBuild
    MaxRecoveries = 1
CHECK_DEADLOCK FALSE
INVARIANTS HitIsOwnList
PROPERTIES CacheCatchesUp
