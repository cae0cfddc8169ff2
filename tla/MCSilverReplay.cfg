SPECIFICATION FairSpec
CONSTANTS
    NULL = NULL
    k1 = k1
    k2 = k2
    p1 = p1
    p2 = p2
    Keys = {k1, k2}
    Partitions = {p1, p2}
    PartitionOf <- TwoPartitions
    CommitClock <- SetBackClock
    MaxLsn = 2
    MaxOffsetsPerTrigger = 2
    MaxRewinds = 0
    MaxRestarts = 2
    MaxResets = 0
    RetentionCoversLag = TRUE
INVARIANTS OldChangeNeverWins
PROPERTIES ImplementsExactlyOnce EventuallyMirrorsSource
CHECK_DEADLOCK FALSE
