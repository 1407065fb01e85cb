------------------------------ MODULE KVCells -------------------------------
(***************************************************************************)
(* class llama_kv_cells_unified (src/llama-kv-cells.h): the metadata of    *)
(* the cells of a KV cache.  A cell holds one token: its position, the     *)
(* shift of that position that the K data does not show yet, and the set   *)
(* of sequences the token belongs to.  Two indexes are kept beside the     *)
(* cells, one method call at a time: the set of the used cells, and for    *)
(* each sequence how often each position occurs, whose first and last keys *)
(* answer seq_pos_min and seq_pos_max.                                     *)
(*                                                                         *)
(* The methods are operators from a value c of the class to its new value. *)
(* What the code asserts of its callers is the operator's precondition,    *)
(* here a conjunct of the action that calls it.                            *)
(***************************************************************************)
EXTENDS Integers, FiniteSets

CONSTANTS
    NCells,     (* pos.size()                                              *)
    Seqs,       (* the sequence ids, 0 .. LLAMA_MAX_SEQ - 1 in the code    *)
    Positions   (* bound: the positions that the callers reach             *)

ASSUME CellsAssumption == /\ NCells \in Nat
                          /\ Positions \subseteq Nat

Cells == 0 .. NCells - 1

CellsType == [pos       : [Cells -> Positions \cup {-1}],
              shift     : [Cells -> Int],
              seq       : [Cells -> SUBSET Seqs],
              used      : SUBSET Cells,
              seq_pos   : [Seqs -> [Positions -> Int]],
              has_shift : BOOLEAN]

-----------------------------------------------------------------------------
(* The methods. *)

ResetCells == [pos       |-> [i \in Cells |-> -1],
               shift     |-> [i \in Cells |-> 0],
               seq       |-> [i \in Cells |-> {}],
               used      |-> {},
               seq_pos   |-> [s \in Seqs |-> [p \in Positions |-> 0]],
               has_shift |-> FALSE]

ResetShift(c) ==
    [pos |-> c.pos, shift |-> [i \in Cells |-> 0], seq |-> c.seq,
     used |-> c.used, seq_pos |-> c.seq_pos, has_shift |-> FALSE]

IsEmpty(c, i)       == c.pos[i] = -1
SeqHas(c, i, s)     == s \in c.seq[i]
PosIn(c, i, p0, p1) == c.pos[i] >= p0 /\ c.pos[i] < p1

UsedMaxP1(c) == IF c.used = {} THEN 0
                ELSE 1 + CHOOSE i \in c.used : \A j \in c.used : j <= i

(* seq_pos_inc (d = 1) and seq_pos_dec (d = -1) of position p, for each of  *)
(* the sequences S: seq_pos_add and seq_pos_rm take them from the cell.     *)
SeqPosBump(sp, S, p, d) ==
    [s \in Seqs |-> [q \in Positions |->
        IF s \in S /\ q = p THEN sp[s][q] + d ELSE sp[s][q]]]

(* A position is a key of the map seq_pos[s] when its count is not zero. *)
Keys(c, s)      == {p \in Positions : c.seq_pos[s][p] # 0}
SeqPosMin(c, s) == IF Keys(c, s) = {} THEN -1
                   ELSE CHOOSE p \in Keys(c, s) : \A q \in Keys(c, s) : p <= q
SeqPosMax(c, s) == IF Keys(c, s) = {} THEN -1
                   ELSE CHOOSE p \in Keys(c, s) : \A q \in Keys(c, s) : q <= p

(* pos[i] = -1, shift[i] = 0, no sequence, not used: the fields of a cell   *)
(* that every method resets when the cell becomes empty.                    *)
Emptied(c, i, sp, shifted) ==
    [pos     |-> [c.pos EXCEPT ![i] = -1],
     shift   |-> [c.shift EXCEPT ![i] = 0],
     seq     |-> [c.seq EXCEPT ![i] = {}],
     used    |-> c.used \ {i},
     seq_pos |-> sp, has_shift |-> shifted]

(* Another position for cell i of the same sequences. *)
Moved(c, i, p, d) ==
    [pos       |-> [c.pos EXCEPT ![i] = p],
     shift     |-> [c.shift EXCEPT ![i] = @ + d],
     seq       |-> c.seq,
     used      |-> c.used,
     seq_pos   |-> SeqPosBump(SeqPosBump(c.seq_pos, c.seq[i], c.pos[i], -1),
                              c.seq[i], p, 1),
     has_shift |-> TRUE]

(* Other sequences for cell i. *)
Tagged(c, i, S, sp) ==
    [pos |-> c.pos, shift |-> c.shift, seq |-> [c.seq EXCEPT ![i] = S],
     used |-> c.used, seq_pos |-> sp, has_shift |-> c.has_shift]

Mv_StillUsed(c, isrc, idst) ==
    [pos       |-> [c.pos EXCEPT ![idst] = c.pos[isrc], ![isrc] = -1],
     shift     |-> [c.shift EXCEPT ![idst] = c.shift[isrc], ![isrc] = 0],
     seq       |-> [c.seq EXCEPT ![idst] = c.seq[isrc], ![isrc] = {}],
     used      |-> c.used \cup {idst},
     seq_pos   |-> c.seq_pos, has_shift |-> c.has_shift]

Mv(c, isrc, idst) ==
    [pos       |-> [c.pos EXCEPT ![idst] = c.pos[isrc], ![isrc] = -1],
     shift     |-> [c.shift EXCEPT ![idst] = c.shift[isrc], ![isrc] = 0],
     seq       |-> [c.seq EXCEPT ![idst] = c.seq[isrc], ![isrc] = {}],
     used      |-> (c.used \ {isrc}) \cup {idst},
     seq_pos   |-> c.seq_pos, has_shift |-> c.has_shift]

(* set(): back to the position p and the sequences S that cp() saved. *)
SetCell(c, i, p, S) ==
    LET sp == IF IsEmpty(c, i) THEN c.seq_pos
              ELSE SeqPosBump(c.seq_pos, c.seq[i], c.pos[i], -1)
    IN  [pos       |-> [c.pos EXCEPT ![i] = p],
         shift     |-> c.shift,
         seq       |-> [c.seq EXCEPT ![i] = S],
         used      |-> (c.used \cup (IF IsEmpty(c, i) /\ p # -1 THEN {i} ELSE {}))
                                 \ (IF ~IsEmpty(c, i) /\ p = -1 THEN {i} ELSE {}),
         seq_pos   |-> IF p = -1 THEN sp ELSE SeqPosBump(sp, S, p, 1),
         has_shift |-> c.has_shift]

RmCell(c, i) ==
    Emptied(c, i, SeqPosBump(c.seq_pos, c.seq[i], c.pos[i], -1), c.has_shift)

SeqRmCell_KeepsCount(c, i, S) ==
    IF c.seq[i] \ S = {} THEN Emptied(c, i, c.seq_pos, c.has_shift)
    ELSE Tagged(c, i, c.seq[i] \ S, SeqPosBump(c.seq_pos, S, c.pos[i], -1))

(* seq_rm() of each of the sequences S; the last one empties the cell. *)
SeqRmCell(c, i, S) ==
    LET sp == SeqPosBump(c.seq_pos, S, c.pos[i], -1)
    IN  IF c.seq[i] \ S = {} THEN Emptied(c, i, sp, c.has_shift)
        ELSE Tagged(c, i, c.seq[i] \ S, sp)

SeqKeepCell_AllCounted(c, i, s) ==
    IF SeqHas(c, i, s) THEN Tagged(c, i, {s}, c.seq_pos)
    ELSE IF c.seq[i] # {} THEN RmCell(c, i) ELSE c

SeqKeepCell(c, i, s) ==
    IF SeqHas(c, i, s)
    THEN Tagged(c, i, {s}, SeqPosBump(c.seq_pos, c.seq[i] \ {s}, c.pos[i], -1))
    ELSE IF c.seq[i] # {} THEN RmCell(c, i) ELSE c

(* seq_add() of each of the sequences S. *)
SeqAddCell(c, i, S) ==
    Tagged(c, i, c.seq[i] \cup S, SeqPosBump(c.seq_pos, S, c.pos[i], 1))

PosSet(c, i, p) ==
    [pos |-> [c.pos EXCEPT ![i] = p], shift |-> c.shift, seq |-> c.seq,
     used |-> c.used \cup {i}, seq_pos |-> c.seq_pos, has_shift |-> c.has_shift]

PosAdd_StaleCount(c, i, d) ==
    IF c.pos[i] + d < 0 THEN [RmCell(c, i) EXCEPT !.has_shift = TRUE]
    ELSE [Moved(c, i, c.pos[i] + d, d) EXCEPT
             !.seq_pos = SeqPosBump(c.seq_pos, c.seq[i], c.pos[i] + d, 1)]

(* A position that becomes negative empties the cell. *)
PosAdd(c, i, d) ==
    IF c.pos[i] + d < 0
    THEN Emptied(c, i, SeqPosBump(c.seq_pos, c.seq[i], c.pos[i], -1), TRUE)
    ELSE Moved(c, i, c.pos[i] + d, d)

(* The shift grows by the old position minus the new one. *)
PosDiv(c, i, d) == Moved(c, i, c.pos[i] \div d, c.pos[i] - (c.pos[i] \div d))

=============================================================================
