SPECIFICATION FairSpec
CONSTANTS
    Capacity = 2
    MaxMsgs = 4
PROPERTIES
    PauseReturns
CHECK_DEADLOCK FALSE
