\* Two instances in turn, started by two concurrent StartInstance calls,
\* no Duration: the worker states and the worker registry follow the
\* lifecycle across a stop and a restart, while a count or step query runs
\* beside the handler loop.  The engine may go idle once the last instance
\* is Stopped.
CONSTANTS
    W = 3
    MaxInst = 2
    MaxFailures = 3
    HasDuration = FALSE
    LoadFails = FALSE
    LateSuccess = FALSE
    Starters = 2
SPECIFICATION QSpec
INVARIANTS RunningHasShards NoOrphanWorker PlacementFree
PROPERTIES StartCompletes StopCompletes WorkersStopped
CHECK_DEADLOCK FALSE
