SPECIFICATION FairSpec
CONSTANTS
    MaxThreads = 3
    Sizes = {2}
    NNodes = 2
    RawChunks = 4
    ChunkFactor = 2
    MaxGraphs = 2
    CanPause = TRUE
    CanAbort = TRUE
INVARIANTS
    SamePhase
    ComputedOnce
    AbortTogether
    ResetAlone
PROPERTIES
    CallsReturn
CHECK_DEADLOCK FALSE
