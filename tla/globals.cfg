\* Two secrets, four ConfigMaps and three changes of the cluster, at any moment.
CONSTANTS
    Malformed = Malformed
    TrackInstances = TRUE
    Host <- MCHost
    Ref <- MCRef
    HostNS <- MCHostNS
    DefaultCrtSecret <- MCDefaultCrtSecret
    Secret <- MCSecret
    Content <- MCContent
    Confs <- MCConfs
    InitConf <- ConfFull
    InitSecrets <- MCInitSecrets
    ExternalFiles <- MCExternalFiles
    StaticCrossNamespaceSecrets = FALSE
    MaxChanges = 3
SPECIFICATION Spec
INVARIANTS
    CertsLoaded
    
    GlobalCurrent
    GlobalComplete
CHECK_DEADLOCK FALSE
