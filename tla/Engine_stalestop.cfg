\* The Duration timer of a stopped instance stops the next instance of the workflow.
CONSTANTS
    W = 2
    MaxInst = 2
    MaxFailures = 1
    HasDuration = TRUE
    LoadFails = FALSE
    LateSuccess = FALSE
    Starters = 1
SPECIFICATION Spec
PROPERTY OnlyAskedStops
CHECK_DEADLOCK FALSE
