SPECIFICATION Spec
CONSTANTS
    MaxThreads = 2
    Sizes = {1, 2}
    NNodes = 1
    RawChunks = 2
    ChunkFactor = 1
    MaxGraphs = 3
    CanPause = FALSE
    CanAbort = FALSE
INVARIANTS
    ResetAlone
CHECK_DEADLOCK FALSE
