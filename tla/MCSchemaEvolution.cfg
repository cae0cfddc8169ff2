SPECIFICATION FairSpec
CONSTANTS
    NULL = NULL
    k1 = k1
    k2 = k2
    p1 = p1
    p2 = p2
    Keys = {k1}
    Partitions = {p1}
    PartitionOf <- OnePartition
    MaxOffsetsPerTrigger = 2
    MaxRestarts = 1
    MaxResets = 0
    MaxVersion = 2
    MaxChanges = 3
PROPERTY
    NothingBreaks
CHECK_DEADLOCK FALSE
