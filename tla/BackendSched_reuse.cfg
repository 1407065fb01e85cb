SPECIFICATION Spec
CONSTANTS
    Configs <- MCReuse
    MaxUbatches = 2
    MaxGraphs = 4
    MaxFailures = 1
INVARIANT InputsCurrent
CHECK_DEADLOCK FALSE
