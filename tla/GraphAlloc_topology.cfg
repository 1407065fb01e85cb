SPECIFICATION Spec
CONSTANTS
    Alignment = 2
    Half = 40
    MaxFreeBlocks = 2
    Sizes = {2, 3}
    MaxLeafs = 2
    MaxTensors = 4
    MaxFeatures = 3
    MaxGraphs = 2
    NewTopology = TRUE
INVARIANT TensorsIntact
CHECK_DEADLOCK FALSE
