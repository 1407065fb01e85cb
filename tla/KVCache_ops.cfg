SPECIFICATION Spec
CONSTANTS
    NCells = 3
    Seqs = {s0, s1}
    Positions <- MCPositions3
    Toks = {a, b}
    NUbatch = 1
    MaxBatch = 2
    Cont = FALSE
    SwaType = "none"
    NSwa = 1
    MaxMoves = 2
    Ranges <- MCRanges
    CpRanges <- MCRanges
    Deltas <- MCDeltas
    Divisors = {}
    Shifts <- MCShifts
    Coupled = TRUE
    CpInto = "disjoint"
    CanFail = FALSE
    Faults = {}
SYMMETRY MCSymmetry
VIEW MCView
INVARIANTS IndexesExact ShiftsApplied
PROPERTIES ImplementsStore RoomFound
CHECK_DEADLOCK FALSE
