\* The stopWorker timer of a stopped instance deletes the next instance's worker from eng.workers.
CONSTANTS
    W = 2
    MaxInst = 2
    MaxFailures = 1
    HasDuration = TRUE
    LoadFails = FALSE
    LateSuccess = FALSE
    Starters = 1
SPECIFICATION Spec
INVARIANT NoOrphanWorker
CHECK_DEADLOCK FALSE
