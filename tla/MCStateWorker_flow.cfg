\* Flow workflow: events, crowd updates, timers and crashes; no expression
\* failures.  The queue-drain liveness is checked by the recover run, where
\* the reset() panic path exists.
CONSTANTS
    u1 = u1
    u2 = u2
    u3 = u3
    d1 = d1
    d2 = d2
    Users <- MCUsers
    Data <- MCData
    InitCrowd <- MCInitCrowd
    N = 3
    Kind <- FlowKind
    DirectTo <- FlowDirectTo
    Expr <- FlowExpr
    TimerTo <- FlowTimerTo
    CrowdUpdates <- MCCrowdUpdates
    MaxEvents = 3
    BatchMax = 2
    MaxErrors = 0
    MaxCrashes = 1
    TimerFromStep = TRUE
SPECIFICATION Spec
INVARIANT TypeOK
INVARIANT CrowdPartition
PROPERTY ShardRefinement
