----------------------------- MODULE MCKVCache ------------------------------
(* Values for the model checking of KVCache. *)
EXTENDS KVCache, TLC

MCPositions3 == 0 .. 2
MCPositions4 == 0 .. 3
MCPositions5 == 0 .. 4
MCPositions6 == 0 .. 5
MCRanges     == {<<-1, -1>>, <<1, -1>>, <<-1, 1>>}
MCDeltas     == {-1, 1}
MCSingles    == {<<p, p + 1>> : p \in Positions}
MCTails      == {<<p, -1>> : p \in Positions}
MCShifts     == -1 .. 1

MCSymmetry   == Permutations(Toks) \cup Permutations(Seqs)
MCSeqSymmetry == Permutations(Seqs)

(* Two states that differ only in the data of empty cells, which no step      *)
(* reads before it is written, and in the call answered last have the same    *)
(* behaviours.                                                                *)
MCView == <<cells, head, [i \in cells.used |-> data[i]], todo>>

=============================================================================
