SPECIFICATION Spec
CONSTANTS
    Targets = {"panel"}
    CanLose = TRUE
    CanDelay = FALSE
    CanFail = FALSE
    CanKill = FALSE
INVARIANT MutationsBlocked
