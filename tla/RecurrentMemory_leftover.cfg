SPECIFICATION Spec
CONSTANTS
    Size = 3
    MaxPos = 1
    MaxOps = 2
    SeqSets <- MCSeqSets
INVARIANTS StateCleared
CHECK_DEADLOCK FALSE
