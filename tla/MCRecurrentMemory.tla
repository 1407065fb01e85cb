------------------------- MODULE MCRecurrentMemory -------------------------
(***************************************************************************)
(* RecurrentMemory with tokens of one sequence or of two.                    *)
(***************************************************************************)
EXTENDS RecurrentMemory

MCSeqSets == {<<s>> : s \in Ids} \cup {<<2, 1>>}
=============================================================================
