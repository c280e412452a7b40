CONSTANTS
    w1 = w1
    w2 = w2
    p1 = p1
    p2 = p2
    p3 = p3
    Worlds <- MCWorlds
    NoWorld = NoWorld
    WithCaves <- MCWithCaves
    Processes <- MCProcesses
    GameStates = {"paused", "unpaused"}
    NoProcess = NoProcess
    MaxUnread = 2
    MaxUnheard = 1
    CanLag = TRUE
SPECIFICATION PauseSpec
INVARIANT BadgeTellsTruth
INVARIANT LoadedAsSaved
PROPERTY ConfirmedTruly
SYMMETRY MCSymmetry
CHECK_DEADLOCK FALSE
