SPECIFICATION Spec
CONSTANTS
    NCells = 4
    Seqs = {s0, s1}
    Positions <- MCPositions6
    Toks = {a}
    NUbatch = 1
    MaxBatch = 3
    Cont = FALSE
    SwaType = "standard"
    NSwa = 3
    MaxMoves = 5
    Ranges <- MCTails
    CpRanges <- MCRanges
    Deltas = {}
    Divisors = {}
    Shifts <- MCShifts
    Coupled = FALSE
    CpInto = "empty"
    CanFail = TRUE
    Faults = {}
INVARIANTS Contiguous
CHECK_DEADLOCK FALSE
