SPECIFICATION Spec
CONSTANTS
    Configs <- MCConfigs
    MaxUbatches = 2
    MaxGraphs = 4
    MaxFailures = 1
INVARIANTS InputsCurrent OutputsOrdered
PROPERTIES DecodeCompletes
CHECK_DEADLOCK FALSE
