SPECIFICATION CallsSpec
CONSTANTS
    NCells = 3
    Seqs = {s0, s1}
    Positions <- MCPositions
    Deltas <- MCDeltas
    Divisors <- MCDivisors
    Shifts <- MCShifts
INVARIANTS UsedExact CountsExact RangeExact
