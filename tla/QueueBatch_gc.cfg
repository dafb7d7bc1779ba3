\* One partition; countToClean is 1, so the GC check fires as soon as two items are queued.
CONSTANTS
    Queues = {q1}
    Consumers = {c1, c2}
    MaxItems = 2
    MaxReqs = 3
    BatchMax = 2
    CountToClean = 1
    Width = 3
SPECIFICATION Spec
INVARIANT AckedItemsKept
PROPERTY GCSafety
