SPECIFICATION FairSpec
CONSTANTS
    NULL = NULL
    Runs = {r1, r2}
    Builders <- MCBuilders
    DbtRuns = {r1, r2}
    Gates = {r1, r2}
    Retries = 1
    MaxOrphans = 1
    Rows <- MCRows
    Histories <- MCHistories
    Built <- MCBuilt
    Suites <- MCSuites
    SuiteDirFound = TRUE
    DbtMarts <- MCDbtMarts
INVARIANTS
    TypeOK
    GateVerdictIsJustified
    GreenBuildLeavesFreshMarts
    BadMartIsReported
PROPERTIES
    MartsGoBackOnlyWhenBuildsOverlap
    EveryRunEnds
CHECK_DEADLOCK FALSE
