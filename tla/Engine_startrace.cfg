\* Two StartInstance calls read the last instance before either command,
\* no failures, no Duration.  The engine may go idle once an instance is
\* Stopped.
CONSTANTS
    W = 1
    MaxInst = 2
    MaxFailures = 0
    HasDuration = FALSE
    LoadFails = FALSE
    LateSuccess = FALSE
    Starters = 2
SPECIFICATION Spec
INVARIANT SubtractsPrevious
CHECK_DEADLOCK FALSE
