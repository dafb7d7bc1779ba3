\* Relay workflow whose timer expression selects over the whole workflow
\* crowd, as the comment in stepChanged describes.
CONSTANTS
    u1 = u1
    u2 = u2
    u3 = u3
    d1 = d1
    d2 = d2
    Users <- MCUsers
    Data <- MCData
    InitCrowd <- MCInitCrowd
    N = 3
    Kind <- RelayKind
    DirectTo <- FlowDirectTo
    Expr <- RelayExpr
    TimerTo <- RelayTimerTo
    CrowdUpdates <- MCCrowdUpdates
    MaxEvents = 3
    BatchMax = 2
    MaxErrors = 0
    MaxCrashes = 1
    TimerFromStep = FALSE
SPECIFICATION Spec
INVARIANT CrowdPartition
