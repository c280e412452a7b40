SPECIFICATION FairSpec
CONSTANTS
    Targets <- MCTargets
    CanLose = TRUE
    CanDelay = TRUE
    CanFail = TRUE
    CanKill = TRUE
INVARIANTS OneMaintenance CompletedMeansUp NoFalseSuccess
PROPERTIES KnownUpdateBlocks PhantomEnds
