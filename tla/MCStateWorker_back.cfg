\* Back workflow: a direct step whose chain returns to the step that routed
\* into it, listed before that step.
CONSTANTS
    u1 = u1
    u2 = u2
    u3 = u3
    d1 = d1
    d2 = d2
    Users <- MCUsers
    Data <- MCData
    InitCrowd <- MCInitCrowd
    N = 3
    Kind <- BackKind
    DirectTo <- BackDirectTo
    Expr <- BackExpr
    TimerTo <- FlowTimerTo
    CrowdUpdates <- MCCrowdUpdates
    MaxEvents = 3
    BatchMax = 2
    MaxErrors = 0
    MaxCrashes = 1
    TimerFromStep = TRUE
SPECIFICATION Spec
INVARIANT CrowdPartition
