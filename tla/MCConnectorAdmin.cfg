SPECIFICATION FairSpec
CONSTANTS
    NULL = NULL
    Clients = {c1, c2}
    Configs = {g1}
    Attempts = 2
    MaxCalls = 2
INVARIANTS TypeOK HealthAnswerWasSo EndedDeleteLeftNoConnector
PROPERTIES Promise EveryCallEnds
CHECK_DEADLOCK FALSE
