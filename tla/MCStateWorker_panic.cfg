\* Flow workflow with crowd updates and expression failures together.
CONSTANTS
    u1 = u1
    u2 = u2
    u3 = u3
    d1 = d1
    d2 = d2
    Users <- MCUsers
    Data <- MCData
    InitCrowd <- MCInitCrowd
    N = 3
    Kind <- FlowKind
    DirectTo <- FlowDirectTo
    Expr <- FlowExpr
    TimerTo <- FlowTimerTo
    CrowdUpdates <- MCCrowdUpdates
    MaxEvents = 3
    BatchMax = 3
    MaxErrors = 1
    MaxCrashes = 0
    TimerFromStep = TRUE
SPECIFICATION Spec
INVARIANT NoIndexPanic
