SPECIFICATION FairSpec
CONSTANTS
    Capacity = 2
    MaxMsgs = 5
INVARIANTS
    PrintedInOrder
    NothingLost
    ReconfigureAlone
PROPERTIES
    PauseReturnsUnlessFull
    EventuallyPrinted
CHECK_DEADLOCK FALSE
