SPECIFICATION Spec
CONSTANTS
    NCells = 3
    Seqs = {s0, s1}
    Positions <- MCPositions3
    Toks = {a, b}
    NUbatch = 1
    MaxBatch = 2
    Cont = TRUE
    SwaType = "none"
    NSwa = 1
    MaxMoves = 5
    Ranges <- MCRanges
    CpRanges <- MCRanges
    Deltas = {}
    Divisors = {}
    Shifts <- MCShifts
    Coupled = TRUE
    CpInto = "disjoint"
    CanFail = TRUE
    Faults = {}
PROPERTIES ImplementsStore
CHECK_DEADLOCK FALSE
