SPECIFICATION Spec
CONSTANTS
    NULL = NULL
    k1 = k1
    k2 = k2
    p1 = p1
    p2 = p2
    Keys = {k1, k2}
    Partitions = {p1, p2}
    PartitionOf <- TwoPartitions
    MaxOffsetsPerTrigger = 2
    MaxRestarts = 2
    MaxResets = 0
    MaxVersion = 3
    MaxChanges = 4
INVARIANTS
    TypeOK
    NoChangeIsSkipped
PROPERTY
    NarrowTableStopsTheJob
CHECK_DEADLOCK FALSE
