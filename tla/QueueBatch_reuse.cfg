\* One partition, no GC: the second batch after reset().
CONSTANTS
    Queues = {q1}
    Consumers = {c1, c2}
    MaxItems = 2
    MaxReqs = 3
    BatchMax = 2
    CountToClean = 6
    Width = 3
SPECIFICATION Spec
INVARIANT NoApplyPanic
