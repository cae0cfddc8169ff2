SPECIFICATION Spec
CONSTANTS
    NULL = NULL
    k1 = k1
    k2 = k2
    p1 = p1
    p2 = p2
    Keys = {k1, k2}
    Partitions = {p1, p2}
    PartitionOf <- TwoPartitions
    CommitClock <- SetBackClock
    RetentionCoversLag = FALSE
    MaxLsn = 1
    MaxOffsetsPerTrigger = 2
    MaxRewinds = 0
    MaxRestarts = 1
    MaxResets = 0
INVARIANTS LandedExactlyOnce
CHECK_DEADLOCK FALSE
