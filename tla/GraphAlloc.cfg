SPECIFICATION Spec
CONSTANTS
    Alignment = 2
    Half = 16
    MaxFreeBlocks = 2
    Sizes = {2, 3}
    MaxLeafs = 2
    MaxTensors = 5
    MaxFeatures = 3
    MaxGraphs = 2
    NewTopology = FALSE
INVARIANTS FreeBlocksExact TensorsIntact
CHECK_DEADLOCK FALSE
