SPECIFICATION Spec
CONSTANTS
    NCells = 6
    Seqs = {s0}
    Positions <- MCPositions6
    Toks = {a}
    NUbatch = 2
    MaxBatch = 4
    Cont = TRUE
    SwaType = "none"
    NSwa = 1
    MaxMoves = 1
    Ranges <- MCSingles
    CpRanges = {}
    Deltas = {}
    Divisors = {1}
    Shifts <- MCShifts
    Coupled = FALSE
    CpInto = "disjoint"
    CanFail = TRUE
    Faults = {}
VIEW MCView
PROPERTIES ImplementsStore
CHECK_DEADLOCK FALSE
