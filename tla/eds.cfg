SPECIFICATION Spec
CONSTANTS
    Cluster = {a, b}
    Caller = {t1, t2}
    Receiver = Receiver
    NoCluster = NoCluster
    MaxResponses = 3
    MaxWatches = 2
SYMMETRY CallersAndClusters
CHECK_DEADLOCK FALSE
INVARIANTS SubscribedIsWatched NoUpdateMissed VersionsAreDistinct
