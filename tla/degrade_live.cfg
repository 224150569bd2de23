SPECIFICATION FairSpec
CONSTANTS
    n1 = n1
    n2 = n2
    n3 = n3
    Node = {n1, n2, n3}
    SelfProtectionID <- OwnAddress
    Updater = {u1}
    Configurer = {c1}
    Loop = {l1, l2}
    NoLoop = NoLoop
    DegradeOpts <- LenientOrOff
    Report <- LossReports
    InitEndpoints <- InitAll
    SettledHealth <- SomeHealth
    MaxUpdates = 2
    MaxReconfigs = 1
    MaxVersion = 2
    MaxTime = 0
CHECK_DEADLOCK FALSE

PROPERTIES ProtectionEnds PanicEnds CancelledLoopsEnd UpdatesTakeEffect
