\* A StartedInstance applied after its call failed: its retry marks the next instance Running before its worker states exist.
CONSTANTS
    W = 2
    MaxInst = 2
    MaxFailures = 1
    HasDuration = FALSE
    LoadFails = FALSE
    LateSuccess = TRUE
    Starters = 1
SPECIFICATION Spec
INVARIANT RunningHasShards
CHECK_DEADLOCK FALSE
