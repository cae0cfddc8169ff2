SPECIFICATION Spec
CONSTANTS
    NULL = NULL
    Runs = {r1, r2}
    Builders <- MCBuilders
    DbtRuns = {r1, r2}
    Gates = {r1, r2}
    Retries = 1
    MaxOrphans = 1
    Rows <- MCRows
    Histories <- MCHistories
    Built <- MCBuilt
    Suites <- MCSuites
    SuiteDirFound = TRUE
    DbtMarts <- MCDbtMarts
INVARIANT
    PublishedDataPassedGate
CHECK_DEADLOCK FALSE
