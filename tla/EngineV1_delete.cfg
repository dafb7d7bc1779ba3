\* One-user crowd, no failures: a DeleteInstance call checks the start key
\* while a StartInstance call is between its reads and its command.
CONSTANTS
    Width = 2
    Ids = {0}
    MaxPerShard = 1
    StepUsers = {0}
    MaxFailures = 0
    HasDuration = FALSE
SPECIFICATION Spec
INVARIANT StartedKeepsMeta
CHECK_DEADLOCK FALSE
