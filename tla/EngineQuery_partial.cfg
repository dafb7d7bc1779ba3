\* One instance, two shards, no failures: a count or step query that read
\* the instance as Running scans the worker states while StopInstance's
\* Stopping event removes them.
CONSTANTS
    W = 2
    MaxInst = 1
    MaxFailures = 0
    HasDuration = FALSE
    LoadFails = FALSE
    LateSuccess = FALSE
    Starters = 1
SPECIFICATION QSpec
INVARIANT QueryComplete
CHECK_DEADLOCK FALSE
