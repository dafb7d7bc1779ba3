\* A loadBM error in doStartInstanceEvent schedules StartedInstance: the instance runs without worker states.
CONSTANTS
    W = 2
    MaxInst = 1
    MaxFailures = 1
    HasDuration = FALSE
    LoadFails = TRUE
    LateSuccess = FALSE
    Starters = 1
SPECIFICATION Spec
INVARIANT RunningHasShards
CHECK_DEADLOCK FALSE
