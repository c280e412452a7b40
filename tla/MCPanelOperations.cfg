SPECIFICATION PanelSpec
CONSTANTS
    w1 = w1
    w2 = w2
    NoWorld = NoWorld
    Worlds <- MCWorlds
    WithCaves <- MCCaves
    WithMods <- MCMods
    WithToken <- MCWorlds
    CanLeak = FALSE
    CanHang = TRUE
    Kinds = {"start", "stop", "restart", "backup", "edit", "archive", "mods"}
    Requests = {}
    CanFail = TRUE
    CanLose = FALSE
    CanKill = TRUE
    BootWorld = NoWorld
INVARIANTS PanelTypeOK FilesAtRest NoGhostJob OneWorldRuns TableIsTruth
           NoDownloadBesideGame CleanStopNotesWorld
PROPERTY ExitLeavesNoGame
