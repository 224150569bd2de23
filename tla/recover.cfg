SPECIFICATION FairSpec
CONSTANTS
    a = a
    b = b
    Service = {a, b}
    Versions <- NoneOrOne
    Caller = {t1, t2}
    Operator = {o1}
    NoOne = NoOne
    NoService = NoService
CHECK_DEADLOCK FALSE
INVARIANTS ListingIsAtomic
PROPERTIES HangsOnlyOnRecursion
