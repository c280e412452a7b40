SPECIFICATION PanelFairSpec
CONSTANTS
    w1 = w1
    w2 = w2
    NoWorld = NoWorld
    Worlds <- MCOne
    WithCaves <- MCCaves
    WithMods <- MCMods
    WithToken <- MCOne
    CanLeak = TRUE
    CanHang = FALSE
    Kinds = {"start", "stop", "restart", "backup", "archive"}
    Requests = {"export", "upload"}
    CanFail = FALSE
    CanLose = FALSE
    CanKill = FALSE
    BootWorld = w1
PROPERTIES FailedStartLeavesNothing CallsReturn OperationsEnd CloseEnds
