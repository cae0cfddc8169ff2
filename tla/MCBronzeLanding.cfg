SPECIFICATION Spec
CONSTANTS
    NULL = NULL
    k1 = k1
    k2 = k2
    p1 = p1
    p2 = p2
    Keys = {k1, k2}
    Partitions = {p1}
    PartitionOf <- OnePartition
    CommitClock <- SetBackClock
    RetentionCoversLag = TRUE
    MaxLsn = 2
    MaxOffsetsPerTrigger = 2
    MaxRewinds = 1
    MaxRestarts = 1
    MaxResets = 1
SYMMETRY KeySymmetry
INVARIANTS TypeOK CommittedRecordsLanded CopiesBoundedByFailures RebuildMirrorsSource
CHECK_DEADLOCK FALSE
