\* One partition with GC: the unconditional log.Fatalf after RangeDelete.
CONSTANTS
    Queues = {q1}
    Consumers = {c1, c2}
    MaxItems = 2
    MaxReqs = 3
    BatchMax = 2
    CountToClean = 1
    Width = 3
SPECIFICATION Spec
PROPERTY AllApplied
