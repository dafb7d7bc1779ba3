\* StopInstance right after StartInstance: the placement events of the
\* shards come after the stopped event.
CONSTANTS
    Width = 2
    Ids = {0, 1}
    MaxPerShard = 1
    StepUsers = {0}
    MaxFailures = 0
    HasDuration = FALSE
SPECIFICATION Spec
PROPERTY WorkersStopped
CHECK_DEADLOCK FALSE
