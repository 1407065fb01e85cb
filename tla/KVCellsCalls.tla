---------------------------- MODULE KVCellsCalls ----------------------------
(***************************************************************************)
(* One object of class llama_kv_cells_unified and any sequence of calls of *)
(* its methods that respects what the methods assert of their callers: the *)
(* "note: call only if" comments of src/llama-kv-cells.h.  The cache calls *)
(* the methods from loops over the cells; whatever the loops, they are     *)
(* behaviours of this module as long as the cache respects the assertions. *)
(***************************************************************************)
EXTENDS KVCells

CONSTANTS
    Deltas,    (* the arguments of pos_add                        *)
    Divisors,  (* the arguments of pos_div                        *)
    Shifts     (* bound: the shifts that accumulate in one cell   *)

ASSUME CallsAssumption == /\ Deltas \subseteq Int /\ Shifts \subseteq Int
                          /\ Divisors \subseteq (Nat \ {0})

VARIABLE cells

CallsInit == cells = ResetCells

Reset        == cells' = ResetCells
Reset_shift  == cells' = ResetShift(cells)

Call_mv(isrc, idst) ==
    /\ ~IsEmpty(cells, isrc) /\ IsEmpty(cells, idst)
    /\ cells' = Mv(cells, isrc, idst)

(* cp() saved (p, S) from a cell without a pending shift, so a cell that was *)
(* empty has no sequences; the cell has no pending shift now either.         *)
Call_set(i, p, S) ==
    /\ cells.shift[i] = 0
    /\ p = -1 => S = {}
    /\ cells' = SetCell(cells, i, p, S)

Call_rm(i) ==
    /\ ~IsEmpty(cells, i)
    /\ cells' = RmCell(cells, i)

Call_seq_rm(i, s) ==
    /\ ~IsEmpty(cells, i) /\ SeqHas(cells, i, s)
    /\ cells' = SeqRmCell(cells, i, {s})

Call_seq_keep(i, s) == cells' = SeqKeepCell(cells, i, s)

Call_seq_add(i, s) ==
    /\ ~IsEmpty(cells, i) /\ ~SeqHas(cells, i, s)
    /\ cells' = SeqAddCell(cells, i, {s})

Call_pos_set(i, p) ==
    /\ IsEmpty(cells, i) /\ cells.seq[i] = {}
    /\ cells' = PosSet(cells, i, p)

Call_pos_add(i, d) ==
    /\ ~IsEmpty(cells, i)
    /\ cells.pos[i] + d < 0 \/ cells.pos[i] + d \in Positions
    /\ cells.shift[i] + d \in Shifts
    /\ cells' = PosAdd(cells, i, d)

Call_pos_div(i, d) ==
    /\ ~IsEmpty(cells, i)
    /\ cells.pos[i] \div d \in Positions
    /\ cells' = PosDiv(cells, i, d)
    /\ cells'.shift[i] \in Shifts

CallsNext ==
    \/ Reset
    \/ Reset_shift
    \/ \E i \in Cells :
         \/ \E j \in Cells : Call_mv(i, j)
         \/ \E p \in Positions \cup {-1}, S \in SUBSET Seqs : Call_set(i, p, S)
         \/ Call_rm(i)
         \/ \E s \in Seqs : \/ Call_seq_rm(i, s)
                            \/ Call_seq_keep(i, s)
                            \/ Call_seq_add(i, s)
         \/ \E p \in Positions : Call_pos_set(i, p)
         \/ \E d \in Deltas    : Call_pos_add(i, d)
         \/ \E d \in Divisors  : Call_pos_div(i, d)

CallsSpec == CallsInit /\ [][CallsNext]_cells

-----------------------------------------------------------------------------
(* The metadata is a value of the class.  The counts are integers here: that *)
(* none is negative is part of CountsExact.                                  *)
CellsTypeOK == cells \in CellsType

(* The set used, which is only ever updated cell by cell, is exactly the set *)
(* of the cells with a position, and a cell without one is blank: no          *)
(* sequence and no pending shift that the next token there would inherit.     *)
UsedExact ==
    /\ cells.used = {i \in Cells : cells.pos[i] # -1}
    /\ \A i \in Cells : cells.pos[i] = -1 => cells.seq[i] = {} /\ cells.shift[i] = 0

(* "the set seq_pos[s][p] tells us how many times the position p is currently *)
(* present for sequence s": the count that the methods keep incrementally is  *)
(* the number of cells that it stands for.                                    *)
CountsExact ==
    \A s \in Seqs, p \in Positions :
        cells.seq_pos[s][p] =
            Cardinality({i \in Cells : s \in cells.seq[i] /\ cells.pos[i] = p})

(* A shift is never pending without has_shift, which alone makes the next     *)
(* update apply it.                                                           *)
ShiftAnnounced == (\E i \in Cells : cells.shift[i] # 0) => cells.has_shift

(* What the callers rely on: the positions of s that seq_pos_min and          *)
(* seq_pos_max see are the positions in the cells of s.                       *)
RangeExact ==
    \A s \in Seqs :
        LET P == {cells.pos[i] : i \in {j \in Cells : s \in cells.seq[j]}}
        IN  /\ P = {} => SeqPosMin(cells, s) = -1 /\ SeqPosMax(cells, s) = -1
            /\ P # {} => /\ SeqPosMin(cells, s) \in P /\ SeqPosMax(cells, s) \in P
                         /\ \A p \in P : /\ SeqPosMin(cells, s) <= p
                                         /\ p <= SeqPosMax(cells, s)

=============================================================================
