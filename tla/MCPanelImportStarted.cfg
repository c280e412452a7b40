SPECIFICATION PanelSpec
CONSTANTS
    w1 = w1
    w2 = w2
    NoWorld = NoWorld
    Worlds <- MCWorlds
    WithCaves <- MCCaves
    WithMods <- MCNone
    WithToken <- MCWorlds
    CanLeak = FALSE
    CanHang = FALSE
    Kinds = {"start"}
    Requests = {"upload"}
    CanFail = FALSE
    CanLose = FALSE
    CanKill = FALSE
    BootWorld = NoWorld
INVARIANT ImportStaysStopped
