SPECIFICATION Spec
CONSTANTS
    n1 = n1
    n2 = n2
    n3 = n3
    Node = {n1, n2, n3}
    SelfProtectionID <- SharedAddress
    Updater = {u1}
    Configurer = {c1}
    Loop = {l1, l2, l3}
    NoLoop = NoLoop
    DegradeOpts <- TwoThresholds
    Report <- Reports
    InitEndpoints <- InitAll
    SettledHealth <- NoHealth
    MaxUpdates = 3
    MaxReconfigs = 1
    MaxVersion = 4
    MaxTime = 1
SYMMETRY LoopSymmetry
CHECK_DEADLOCK FALSE
INVARIANTS PanicServesBaseline
PROPERTIES ChangeIsVisible ImplementsHistory ImplementsServed
