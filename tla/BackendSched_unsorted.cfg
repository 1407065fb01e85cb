SPECIFICATION Spec
CONSTANTS
    Configs <- MCUnsorted
    MaxUbatches = 2
    MaxGraphs = 4
    MaxFailures = 1
INVARIANT OutputsOrdered
CHECK_DEADLOCK FALSE
