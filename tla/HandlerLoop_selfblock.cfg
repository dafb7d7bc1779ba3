\* More workflows with an expired Duration replayed than stopInstanceC holds
\* (the code's 1024 scaled to 2): the handler blocks sending to itself.
CONSTANTS
    w1 = w1
    w2 = w2
    w3 = w3
    Wfs = {w1, w2, w3}
    StopCap = 2
    MaxFailures = 1
SPECIFICATION Spec
INVARIANT TypeOK
PROPERTY AllStopped
CHECK_DEADLOCK FALSE
