SPECIFICATION Spec
CONSTANTS
    c1 = c1
    c2 = c2
    Clients = {c1, c2}
    Requests <- MCRequests
    NSlots = 2
    MaxTasks = 2
    MaxRounds = 1
    MaxFailures = 1
INVARIANTS NoTaskLost AnsweredOnce NoGhostWork
PROPERTIES Answered ShutdownEnds
CHECK_DEADLOCK FALSE
