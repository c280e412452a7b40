CONSTANTS
    w1 = w1
    w2 = w2
    Worlds <- MCWorlds
    NoWorld = NoWorld
    Saves <- MCSaves
    Fresh = "fresh"
    Kinds <- MCKinds
    MaxBackups = 1
    MaxTroubles = 2
    CanFail = TRUE
    CanCrash = TRUE
    CanLag = TRUE
SPECIFICATION FilesSpec
INVARIANT PresentKept
INVARIANT OneFaultAbsorbed
INVARIANT OneBootWorld
INVARIANT LaunchedAsConfigured
INVARIANT NothingOrphaned
PROPERTY StoreSpec
CHECK_DEADLOCK FALSE
