\* Flow workflow: events, timers, crashes and expression failures; no crowd
\* updates.
CONSTANTS
    u1 = u1
    u2 = u2
    u3 = u3
    d1 = d1
    d2 = d2
    Users <- MCUsers
    Data <- MCData
    InitCrowd <- MCInitCrowd
    N = 3
    Kind <- FlowKind
    DirectTo <- FlowDirectTo
    Expr <- FlowExpr
    TimerTo <- FlowTimerTo
    CrowdUpdates <- NoCrowdUpdates
    MaxEvents = 3
    BatchMax = 2
    MaxErrors = 2
    MaxCrashes = 1
    TimerFromStep = TRUE
SPECIFICATION Spec
INVARIANT TypeOK
INVARIANT CrowdPartition
PROPERTY ShardRefinement
PROPERTY QueueDrained
