SPECIFICATION PanelSpec
CONSTANTS
    w1 = w1
    w2 = w2
    NoWorld = NoWorld
    Worlds <- MCOne
    WithCaves <- MCOne
    WithMods <- MCOne
    WithToken <- MCOne
    CanLeak = FALSE
    CanHang = FALSE
    Kinds = {"start", "stop", "restart", "edit", "archive"}
    Requests = {"export", "upload", "update"}
    CanFail = FALSE
    CanLose = TRUE
    CanKill = TRUE
    BootWorld = NoWorld
INVARIANTS ExportAtRest UpdateAlone ImportedWorldIsDown
PROPERTY AccessSpec
