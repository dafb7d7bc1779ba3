\* Crowds that may hold the largest 2-bit ID: Maximum() + 1 wraps to 0.
CONSTANTS
    Width = 2
    Ids = {1, 2, 3}
    MaxPerShard = 2
    StepUsers = {1, 2, 3}
    MaxFailures = 0
    HasDuration = FALSE
SPECIFICATION Spec
INVARIANT RoutingComplete
CHECK_DEADLOCK FALSE
