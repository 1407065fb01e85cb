----------------------------- MODULE MCKVCells ------------------------------
(* Values for the model checking of KVCellsCalls: three positions, a shift   *)
(* that empties a cell and one that does not, and at most two accumulated    *)
(* shifts in either direction.                                               *)
EXTENDS KVCellsCalls

MCPositions == 0 .. 2
MCDeltas    == {-2, 1}
MCDivisors  == {2}
MCShifts    == -2 .. 2

=============================================================================
