\* Two partitions in one shard, no GC: a batch with adds to both.
CONSTANTS
    Queues = {q1, q2}
    Consumers = {c1, c2}
    MaxItems = 2
    MaxReqs = 3
    BatchMax = 2
    CountToClean = 6
    Width = 3
SPECIFICATION Spec
INVARIANT AckedItemsKept
