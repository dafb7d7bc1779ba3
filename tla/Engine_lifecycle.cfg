\* One instance with a Duration, every failure mode on: the start, stop
\* and worker retries all complete.  The engine may go idle once the
\* instance is Stopped, so deadlock is not an error.
CONSTANTS
    W = 3
    MaxInst = 1
    MaxFailures = 3
    HasDuration = TRUE
    LoadFails = TRUE
    LateSuccess = TRUE
    Starters = 2
SPECIFICATION Spec
INVARIANTS TypeOK NoOrphanWorker
PROPERTIES StartCompletes StopCompletes WorkersStopped
CHECK_DEADLOCK FALSE
