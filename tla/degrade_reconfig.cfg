SPECIFICATION Spec
CONSTANTS
    n1 = n1
    n2 = n2
    n3 = n3
    Node = {n1, n2, n3}
    SelfProtectionID <- OwnAddress
    Updater = {u1}
    Configurer = {c1}
    Loop = {l1, l2, l3}
    NoLoop = NoLoop
    DegradeOpts <- OnAndOff
    Report <- FewReports
    InitEndpoints <- InitAll
    SettledHealth <- NoHealth
    MaxUpdates = 3
    MaxReconfigs = 1
    MaxVersion = 4
    MaxTime = 0
SYMMETRY LoopSymmetry
CHECK_DEADLOCK FALSE
INVARIANTS ProtectionIsOwned RunModeMatchesStatus NormalServesAdapter
PROPERTIES PanicIsFrozen AbnormalOnlyRecords
