SPECIFICATION Spec
CONSTANTS
    Toks = {1, 2}
    NCtx = 5
    NBatch = 2
    AddBos = 0
    Requests <- MCRequests
    Configs <- MCConfigs
    MaxLaunches = 3
    MaxFailures = 1
INVARIANTS CacheInMemory ContextComplete BatchesAccepted UpdatesProgress
CHECK_DEADLOCK FALSE
