SPECIFICATION Spec
CONSTANTS
    NCells = 4
    Seqs = {s0, s1}
    Positions <- MCPositions5
    Toks = {a}
    NUbatch = 1
    MaxBatch = 3
    Cont = FALSE
    SwaType = "standard"
    NSwa = 3
    MaxMoves = 5
    Ranges = {}
    CpRanges <- MCRanges
    Deltas = {}
    Divisors = {}
    Shifts <- MCShifts
    Coupled = FALSE
    CpInto = "empty"
    CanFail = FALSE
    Faults = {}
PROPERTIES RestoredWhenFull
CHECK_DEADLOCK FALSE
