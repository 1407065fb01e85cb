SPECIFICATION Spec
CONSTANTS
    NCells = 3
    Seqs = {s0, s1}
    Positions <- MCPositions3
    Toks = {a, b}
    NUbatch = 1
    MaxBatch = 2
    Cont = TRUE
    SwaType = "none"
    NSwa = 1
    MaxMoves = 5
    Ranges <- MCRanges
    CpRanges <- MCRanges
    Deltas = {}
    Divisors = {2}
    Shifts <- MCShifts
    Coupled = FALSE
    CpInto = "disjoint"
    CanFail = FALSE
    Faults = {}
INVARIANTS PhaseOK
CHECK_DEADLOCK FALSE
