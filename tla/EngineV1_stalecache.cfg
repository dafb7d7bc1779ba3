\* One Step call that misses the cache races the whole lifecycle of the
\* instance: its Store of the ranges lands after the stopped event's.
CONSTANTS
    Width = 2
    Ids = {0, 1}
    MaxPerShard = 1
    StepUsers = {0}
    MaxFailures = 0
    HasDuration = FALSE
SPECIFICATION Spec
PROPERTY CacheInvalidated
CHECK_DEADLOCK FALSE
