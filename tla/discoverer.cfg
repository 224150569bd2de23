SPECIFICATION FairSpec
CONSTANTS
    Adapters = {"consul", "etcd"}
    Key = {a}
    Caller = {t1, t2}
    Configurer = {u1}
    Closer = {s1}
    NoOne = NoOne
    NoKey = NoKey
    Opts = {o1, o2}
    Failed = Failed
    NoOpts = NoOpts
    MaxLists = 1
CHECK_DEADLOCK FALSE
INVARIANTS RegisteredOptsCurrent EmptyOnlyIfUnready
PROPERTIES WatchIsOpenedOnce RequestsReturn ShutdownReturns
