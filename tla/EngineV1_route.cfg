\* Every crowd of 2-bit IDs below the largest, shards of one or two users,
\* Step calls for every ID, and storage failures.
CONSTANTS
    Width = 2
    Ids = {0, 1, 2}
    MaxPerShard = 2
    StepUsers = {0, 1, 2, 3}
    MaxFailures = 1
    HasDuration = TRUE
SPECIFICATION Spec
INVARIANTS TypeOK RoutingComplete
PROPERTIES StartCompletes DurationEnds
CHECK_DEADLOCK FALSE
