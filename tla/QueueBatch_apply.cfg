\* Two partitions, one request per batch; the queue never grows past
\* countToClean, so no GC runs.
CONSTANTS
    Queues = {q1, q2}
    Consumers = {c1, c2}
    MaxItems = 2
    MaxReqs = 3
    BatchMax = 1
    CountToClean = 6
    Width = 3
SPECIFICATION Spec
INVARIANT TypeOK
INVARIANT AckedItemsKept
PROPERTY AllApplied
