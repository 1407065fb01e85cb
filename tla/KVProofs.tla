--------------------------- MODULE KVProofs -------------------------------
(***************************************************************************)
(* Theorems about the KV cache, for any number of cells, any sequences,    *)
(* positions and batches.                                                  *)
(*                                                                         *)
(* The first part is about llama_kv_cells_unified alone (KVCellsCalls):    *)
(* under any sequence of method calls that respects the methods'           *)
(* assertions, the indexes that the methods keep one call at a time hold   *)
(* what they stand for.  The invariant Inv is stated for a value c of the  *)
(* class, so that what a method does to it is a lemma about constants.     *)
(*                                                                         *)
(* The second part is about the cache (KVCache).  Its operations are loops *)
(* of these methods over the cells; a lemma per loop says what it does to  *)
(* every cell and that it keeps the invariant of the cells, by an          *)
(* induction over the cells passed.  The invariant of the cache, KVInv,    *)
(* adds what links its variables: the slots that Prepare found are still   *)
(* good for the ubatches that are left.                                    *)
(*                                                                         *)
(* The third part shows that the cache implements KVStore: what each call  *)
(* does to the entries that the cells hold, and that the ubatches that are *)
(* left come after them.                                                   *)
(*                                                                         *)
(* The last part counts the free cells: a batch that fits into them is     *)
(* placed.                                                                 *)
(***************************************************************************)
EXTENDS KVCache, FiniteSetTheorems, NaturalsInduction, WellFoundedInduction, TLAPS

(* The cells that hold position p of sequence s. *)
At(c, s, p) == {i \in Cells : s \in c.seq[i] /\ c.pos[i] = p}

(* 1 if cell i is one of them. *)
Has(c, i, s, p) == IF s \in c.seq[i] /\ c.pos[i] = p THEN 1 ELSE 0

Used(c)      == /\ c.used = {i \in Cells : c.pos[i] # -1}
                /\ \A i \in Cells : c.pos[i] = -1 => c.seq[i] = {} /\ c.shift[i] = 0
Counted(c)   == \A s \in Seqs, p \in Positions :
                    c.seq_pos[s][p] = Cardinality(At(c, s, p))
Announced(c) == (\E i \in Cells : c.shift[i] # 0) => c.has_shift

Inv(c) == c \in CellsType /\ Used(c) /\ Counted(c) /\ Announced(c)

-----------------------------------------------------------------------------
(* Finitely many cells hold a position of a sequence. *)
LEMMA AtFinite ==
    ASSUME NEW c, NEW s, NEW p
    PROVE  IsFiniteSet(At(c, s, p)) /\ Cardinality(At(c, s, p)) \in Nat
<1>1. IsFiniteSet(Cells)
  BY CellsAssumption, FS_Interval DEF Cells
<1>2. At(c, s, p) \in SUBSET Cells
  BY DEF At
<1>3. IsFiniteSet(At(c, s, p))
  BY <1>1, <1>2, FS_Subset
<1>. QED
  BY <1>3, FS_CardinalityType

(* A method that touches cell i only keeps the counts if it adds, for every  *)
(* position of every sequence, what the cell gains minus what it loses.      *)
LEMMA OneCell ==
    ASSUME NEW c, NEW d, c \in CellsType, d \in CellsType, NEW i \in Cells, Counted(c),
           \A j \in Cells \ {i} : d.seq[j] = c.seq[j] /\ d.pos[j] = c.pos[j],
           \A s \in Seqs, p \in Positions :
               d.seq_pos[s][p] = c.seq_pos[s][p] - Has(c, i, s, p) + Has(d, i, s, p)
    PROVE  Counted(d)
<1>. SUFFICES ASSUME NEW s \in Seqs, NEW p \in Positions
              PROVE  d.seq_pos[s][p] = Cardinality(At(d, s, p))
  BY DEF Counted
<1>1. At(d, s, p) \ {i} = At(c, s, p) \ {i}
  BY DEF At
<1>2. Cardinality(At(c, s, p) \ {i}) = Cardinality(At(c, s, p)) - Has(c, i, s, p)
  <2>1. i \in At(c, s, p) <=> s \in c.seq[i] /\ c.pos[i] = p
    BY DEF At
  <2>2. Cardinality(At(c, s, p) \ {i}) = IF i \in At(c, s, p)
            THEN Cardinality(At(c, s, p)) - 1 ELSE Cardinality(At(c, s, p))
    BY AtFinite, FS_RemoveElement
  <2>3. Cardinality(At(c, s, p)) \in Nat
    BY AtFinite
  <2>. QED
    BY <2>1, <2>2, <2>3 DEF Has
<1>3. Cardinality(At(d, s, p) \ {i}) = Cardinality(At(d, s, p)) - Has(d, i, s, p)
  <2>1. i \in At(d, s, p) <=> s \in d.seq[i] /\ d.pos[i] = p
    BY DEF At
  <2>2. Cardinality(At(d, s, p) \ {i}) = IF i \in At(d, s, p)
            THEN Cardinality(At(d, s, p)) - 1 ELSE Cardinality(At(d, s, p))
    BY AtFinite, FS_RemoveElement
  <2>3. Cardinality(At(d, s, p)) \in Nat
    BY AtFinite
  <2>. QED
    BY <2>1, <2>2, <2>3 DEF Has
<1>4. Cardinality(At(c, s, p)) \in Nat /\ Cardinality(At(d, s, p)) \in Nat
  BY AtFinite
<1>5. Has(c, i, s, p) \in Int /\ Has(d, i, s, p) \in Int
  BY DEF Has
<1>6. c.seq_pos[s][p] = Cardinality(At(c, s, p))
  BY DEF Counted
<1>7. d.seq_pos[s][p] = c.seq_pos[s][p] - Has(c, i, s, p) + Has(d, i, s, p)
  OBVIOUS
<1>8. Cardinality(At(d, s, p)) - Has(d, i, s, p) = Cardinality(At(c, s, p)) - Has(c, i, s, p)
  BY <1>1, <1>2, <1>3
<1>. QED
  BY <1>4, <1>5, <1>6, <1>7, <1>8

(* seq_pos_inc and seq_pos_dec, count by count. *)
LEMMA BumpType ==
    ASSUME NEW sp \in [Seqs -> [Positions -> Int]], NEW S, NEW p, NEW e \in Int
    PROVE  /\ SeqPosBump(sp, S, p, e) \in [Seqs -> [Positions -> Int]]
           /\ \A s \in Seqs, q \in Positions :
                SeqPosBump(sp, S, p, e)[s][q] =
                    IF s \in S /\ q = p THEN sp[s][q] + e ELSE sp[s][q]
BY DEF SeqPosBump

-----------------------------------------------------------------------------
(* What each method writes, field by field. *)

LEMMA ResetInv == Inv(ResetCells)
<1>1. ResetCells \in CellsType
  BY DEF ResetCells, CellsType
<1>2. Used(ResetCells) /\ Announced(ResetCells)
  BY DEF ResetCells, Used, Announced
<1>3. \A s \in Seqs, p \in Positions : At(ResetCells, s, p) = {}
  BY DEF ResetCells, At
<1>4. Counted(ResetCells)
  BY <1>3, FS_EmptySet DEF Counted, ResetCells
<1>. QED
  BY <1>1, <1>2, <1>4 DEF Inv

LEMMA ResetShiftInv ==
    ASSUME NEW c, Inv(c)
    PROVE  Inv(ResetShift(c))
<1>. DEFINE d == ResetShift(c)
<1>1. /\ d.pos = c.pos /\ d.seq = c.seq /\ d.used = c.used /\ d.seq_pos = c.seq_pos
      /\ d.shift = [i \in Cells |-> 0] /\ d.has_shift = FALSE /\ d \in CellsType
  BY DEF Inv, CellsType, ResetShift
<1>. HIDE DEF d
<1>2. Used(d) /\ Announced(d)
  BY <1>1 DEF Inv, Used, Announced
<1>3. \A s \in Seqs, p \in Positions : At(d, s, p) = At(c, s, p)
  BY <1>1 DEF At
<1>4. Counted(d)
  BY <1>1, <1>3 DEF Inv, Counted
<1>. QED
  BY <1>1, <1>2, <1>4 DEF Inv, d

(* A method that takes the object from c to d writes cell i only: the others  *)
(* stay, the cell is blank when it has no position, used and has_shift follow *)
(* it, and the counts change as OneCell says.                                 *)
Writes(c, d, i) ==
    /\ \A j \in Cells \ {i} : /\ d.seq[j] = c.seq[j] /\ d.pos[j] = c.pos[j]
                              /\ d.shift[j] = c.shift[j]
    /\ d.used = IF d.pos[i] = -1 THEN c.used \ {i} ELSE c.used \cup {i}
    /\ d.pos[i] = -1 => d.seq[i] = {} /\ d.shift[i] = 0
    /\ d.has_shift \/ (~c.has_shift /\ d.shift[i] \in {0, c.shift[i]})
    /\ \A s \in Seqs, p \in Positions :
         d.seq_pos[s][p] = c.seq_pos[s][p] - Has(c, i, s, p) + Has(d, i, s, p)

LEMMA WritesInv ==
    ASSUME NEW c, Inv(c), NEW d \in CellsType, NEW i \in Cells, Writes(c, d, i)
    PROVE  Inv(d)
<1>1. Used(d)
  <2>1. d.used = {j \in Cells : d.pos[j] # -1}
    BY DEF Inv, Used, Writes
  <2>2. \A j \in Cells : d.pos[j] = -1 => d.seq[j] = {} /\ d.shift[j] = 0
    BY DEF Inv, Used, Writes
  <2>. QED
    BY <2>1, <2>2 DEF Used
<1>2. Announced(d)
  <2>. SUFFICES ASSUME NEW j \in Cells, d.shift[j] # 0, ~d.has_shift
                PROVE  FALSE
    BY DEF Announced
  <2>1. c.shift[j] = 0 /\ c.shift[i] = 0
    BY DEF Inv, Announced, Writes
  <2>. QED
    BY <2>1 DEF Writes
<1>3. Counted(d)
  BY OneCell DEF Inv, Writes
<1>. QED
  BY <1>1, <1>2, <1>3 DEF Inv

(* A cell loses its sequences, and its position is uncounted for them: rm,    *)
(* seq_rm of its last sequence, seq_keep of another one, and pos_add below    *)
(* zero, which also announces a shift.                                        *)
LEMMA EmptiedInv ==
    ASSUME NEW c, Inv(c), NEW i \in Cells, NEW S, c.seq[i] = S,
           NEW h \in {c.has_shift, TRUE}
    PROVE  Inv(Emptied(c, i, SeqPosBump(c.seq_pos, S, c.pos[i], -1), h))
<1>. DEFINE sp == SeqPosBump(c.seq_pos, S, c.pos[i], -1)
            d  == Emptied(c, i, sp, h)
<1>0. c \in CellsType
  BY DEF Inv
<1>1. /\ sp \in [Seqs -> [Positions -> Int]]
      /\ \A s \in Seqs, q \in Positions :
           sp[s][q] = IF s \in S /\ q = c.pos[i]
                      THEN c.seq_pos[s][q] + (-1) ELSE c.seq_pos[s][q]
  BY <1>0, BumpType DEF CellsType
<1>. HIDE DEF sp
<1>2. d \in CellsType
  <2>1. /\ [c.pos EXCEPT ![i] = -1] \in [Cells -> Positions \cup {-1}]
        /\ [c.shift EXCEPT ![i] = 0] \in [Cells -> Int]
        /\ [c.seq EXCEPT ![i] = {}] \in [Cells -> SUBSET Seqs]
        /\ c.used \ {i} \in SUBSET Cells
    BY <1>0 DEF CellsType
  <2>2. h \in BOOLEAN
    BY <1>0, Zenon DEF CellsType
  <2>. QED
    BY <1>1, <2>1, <2>2 DEF CellsType, Emptied
<1>3. /\ \A j \in Cells \ {i} : /\ d.seq[j] = c.seq[j] /\ d.pos[j] = c.pos[j]
                                /\ d.shift[j] = c.shift[j]
      /\ d.pos[i] = -1 /\ d.seq[i] = {} /\ d.shift[i] = 0
      /\ d.used = c.used \ {i} /\ d.seq_pos = sp /\ d.has_shift = h
  BY <1>0 DEF CellsType, Emptied
<1>. HIDE DEF d
<1>4. ASSUME NEW s \in Seqs, NEW p \in Positions
      PROVE  d.seq_pos[s][p] = c.seq_pos[s][p] - Has(c, i, s, p) + Has(d, i, s, p)
  <2>1. c.seq_pos[s][p] \in Int
    BY <1>0 DEF CellsType
  <2>2. Has(d, i, s, p) = 0
    BY <1>3 DEF Has
  <2>. QED
    BY <1>1, <1>3, <2>1, <2>2 DEF Has
<1>5. d.has_shift \/ ~c.has_shift
  BY <1>3
<1>6. Writes(c, d, i)
  BY <1>3, <1>4, <1>5 DEF Writes
<1>7. Inv(d)
  BY <1>2, <1>6, WritesInv
<1>. QED
  BY <1>7 DEF d, sp

(* A cell keeps its position and gets the sequences S: seq_rm, seq_keep and   *)
(* seq_add, if the counts follow.                                             *)
LEMMA TaggedInv ==
    ASSUME NEW c, Inv(c), NEW i \in Cells, c.pos[i] # -1, NEW S \in SUBSET Seqs,
           NEW sp \in [Seqs -> [Positions -> Int]],
           \A s \in Seqs, p \in Positions :
               sp[s][p] = c.seq_pos[s][p] - Has(c, i, s, p)
                            + (IF s \in S /\ c.pos[i] = p THEN 1 ELSE 0)
    PROVE  Inv(Tagged(c, i, S, sp))
<1>. DEFINE d == Tagged(c, i, S, sp)
<1>0. c \in CellsType
  BY DEF Inv
<1>1. d \in CellsType
  <2>1. [c.seq EXCEPT ![i] = S] \in [Cells -> SUBSET Seqs]
    BY <1>0 DEF CellsType
  <2>. QED
    BY <1>0, <2>1 DEF CellsType, Tagged
<1>2. /\ \A j \in Cells \ {i} : /\ d.seq[j] = c.seq[j] /\ d.pos[j] = c.pos[j]
                                /\ d.shift[j] = c.shift[j]
      /\ d.pos[i] = c.pos[i] /\ d.seq[i] = S /\ d.shift[i] = c.shift[i]
      /\ d.used = c.used /\ d.seq_pos = sp
  BY <1>0 DEF CellsType, Tagged
<1>3. d.has_shift = c.has_shift
  BY DEF Tagged
<1>. HIDE DEF d
<1>4. ASSUME NEW s \in Seqs, NEW p \in Positions
      PROVE  d.seq_pos[s][p] = c.seq_pos[s][p] - Has(c, i, s, p) + Has(d, i, s, p)
  BY <1>2 DEF Has
<1>5. d.used = c.used \cup {i}
  BY <1>2 DEF Inv, Used
<1>6. d.has_shift \/ ~c.has_shift
  BY <1>3
<1>7. Writes(c, d, i)
  BY <1>2, <1>4, <1>5, <1>6 DEF Writes
<1>. QED
  BY <1>1, <1>7, WritesInv DEF d

(* pos_add and pos_div: the position of a cell becomes p. *)
LEMMA MovedInv ==
    ASSUME NEW c, Inv(c), NEW i \in Cells, c.pos[i] # -1,
           NEW p \in Positions, NEW e \in Int
    PROVE  Inv(Moved(c, i, p, e))
<1>. DEFINE sp1 == SeqPosBump(c.seq_pos, c.seq[i], c.pos[i], -1)
            sp2 == SeqPosBump(sp1, c.seq[i], p, 1)
            d   == Moved(c, i, p, e)
<1>0. c \in CellsType
  BY DEF Inv
<1>1. /\ sp1 \in [Seqs -> [Positions -> Int]]
      /\ \A s \in Seqs, q \in Positions :
           sp1[s][q] = IF s \in c.seq[i] /\ q = c.pos[i]
                       THEN c.seq_pos[s][q] + (-1) ELSE c.seq_pos[s][q]
  BY <1>0, BumpType DEF CellsType
<1>. HIDE DEF sp1
<1>2. /\ sp2 \in [Seqs -> [Positions -> Int]]
      /\ \A s \in Seqs, q \in Positions :
           sp2[s][q] = IF s \in c.seq[i] /\ q = p THEN sp1[s][q] + 1 ELSE sp1[s][q]
  BY <1>1, BumpType
<1>3. d = [pos |-> [c.pos EXCEPT ![i] = p], shift |-> [c.shift EXCEPT ![i] = @ + e],
           seq |-> c.seq, used |-> c.used, seq_pos |-> sp2, has_shift |-> TRUE]
  BY DEF Moved, sp1
<1>. HIDE DEF sp2, d
<1>4. d \in CellsType
  <2>1. /\ [c.pos EXCEPT ![i] = p] \in [Cells -> Positions \cup {-1}]
        /\ [c.shift EXCEPT ![i] = @ + e] \in [Cells -> Int]
    BY <1>0 DEF CellsType
  <2>. QED
    BY <1>0, <1>2, <1>3, <2>1 DEF CellsType
<1>5. /\ \A j \in Cells \ {i} : /\ d.seq[j] = c.seq[j] /\ d.pos[j] = c.pos[j]
                                /\ d.shift[j] = c.shift[j]
      /\ d.pos[i] = p /\ d.seq[i] = c.seq[i]
      /\ d.used = c.used /\ d.seq_pos = sp2
  BY <1>0, <1>3 DEF CellsType
<1>6. d.has_shift
  BY <1>3
<1>7. ASSUME NEW s \in Seqs, NEW q \in Positions
      PROVE  d.seq_pos[s][q] = c.seq_pos[s][q] - Has(c, i, s, q) + Has(d, i, s, q)
  <2>1. c.seq_pos[s][q] \in Int
    BY <1>0 DEF CellsType
  <2>. QED
    BY <1>1, <1>2, <1>5, <2>1 DEF Has
<1>8. d.used = c.used \cup {i} /\ p # -1
  BY <1>5, CellsAssumption DEF Inv, Used
<1>9. Writes(c, d, i)
  BY <1>5, <1>6, <1>7, <1>8 DEF Writes
<1>. QED
  BY <1>4, <1>9, WritesInv DEF d

(* pos_set: the cell has no sequence yet, so nothing is counted. *)
LEMMA PosSetInv ==
    ASSUME NEW c, Inv(c), NEW i \in Cells, c.pos[i] = -1, c.seq[i] = {},
           NEW p \in Positions
    PROVE  Inv(PosSet(c, i, p))
<1>. DEFINE d == PosSet(c, i, p)
<1>0. c \in CellsType
  BY DEF Inv
<1>1. d \in CellsType
  <2>1. [c.pos EXCEPT ![i] = p] \in [Cells -> Positions \cup {-1}]
    BY <1>0 DEF CellsType
  <2>. QED
    BY <1>0, <2>1 DEF CellsType, PosSet
<1>2. /\ \A j \in Cells \ {i} : /\ d.seq[j] = c.seq[j] /\ d.pos[j] = c.pos[j]
                                /\ d.shift[j] = c.shift[j]
      /\ d.pos[i] = p /\ d.seq[i] = {} /\ d.shift[i] = c.shift[i]
      /\ d.used = c.used \cup {i} /\ d.seq_pos = c.seq_pos
  BY <1>0 DEF CellsType, PosSet
<1>3. d.has_shift = c.has_shift
  BY DEF PosSet
<1>. HIDE DEF d
<1>4. ASSUME NEW s \in Seqs, NEW q \in Positions
      PROVE  d.seq_pos[s][q] = c.seq_pos[s][q] - Has(c, i, s, q) + Has(d, i, s, q)
  <2>1. c.seq_pos[s][q] \in Int
    BY <1>0 DEF CellsType
  <2>. QED
    BY <1>2, <2>1 DEF Has
<1>5. p # -1
  BY CellsAssumption
<1>6. d.has_shift \/ ~c.has_shift
  BY <1>3
<1>7. Writes(c, d, i)
  BY <1>2, <1>4, <1>5, <1>6 DEF Writes
<1>. QED
  BY <1>1, <1>7, WritesInv DEF d

(* set: the position and the sequences that cp() saved. *)
LEMMA SetInv ==
    ASSUME NEW c, Inv(c), NEW i \in Cells, c.shift[i] = 0,
           NEW p \in Positions \cup {-1}, NEW S \in SUBSET Seqs, p = -1 => S = {}
    PROVE  Inv(SetCell(c, i, p, S))
<1>. DEFINE sp1 == IF IsEmpty(c, i) THEN c.seq_pos
                   ELSE SeqPosBump(c.seq_pos, c.seq[i], c.pos[i], -1)
            sp2 == IF p = -1 THEN sp1 ELSE SeqPosBump(sp1, S, p, 1)
            u   == (c.used \cup (IF IsEmpty(c, i) /\ p # -1 THEN {i} ELSE {}))
                           \ (IF ~IsEmpty(c, i) /\ p = -1 THEN {i} ELSE {})
            d   == SetCell(c, i, p, S)
<1>0. c \in CellsType
  BY DEF Inv
<1>1. /\ sp1 \in [Seqs -> [Positions -> Int]]
      /\ \A s \in Seqs, q \in Positions : sp1[s][q] = c.seq_pos[s][q] - Has(c, i, s, q)
  <2>1. CASE IsEmpty(c, i)
    <3>1. c.seq[i] = {}
      BY <2>1 DEF Inv, Used, IsEmpty
    <3>2. \A s \in Seqs, q \in Positions : c.seq_pos[s][q] \in Int
      BY <1>0 DEF CellsType
    <3>. QED
      BY <1>0, <2>1, <3>1, <3>2 DEF CellsType, Has
  <2>2. CASE ~IsEmpty(c, i)
    <3>1. sp1 = SeqPosBump(c.seq_pos, c.seq[i], c.pos[i], -1)
      BY <2>2
    <3>. HIDE DEF sp1
    <3>2. c.seq_pos \in [Seqs -> [Positions -> Int]]
      BY <1>0 DEF CellsType
    <3>3. /\ sp1 \in [Seqs -> [Positions -> Int]]
          /\ \A s \in Seqs, q \in Positions :
               sp1[s][q] = IF s \in c.seq[i] /\ q = c.pos[i]
                           THEN c.seq_pos[s][q] + (-1) ELSE c.seq_pos[s][q]
      BY <3>1, <3>2, BumpType
    <3>. QED
      BY <3>2, <3>3 DEF Has
  <2>. QED
    BY <2>1, <2>2
<1>. HIDE DEF sp1
<1>2. /\ sp2 \in [Seqs -> [Positions -> Int]]
      /\ \A s \in Seqs, q \in Positions :
           sp2[s][q] = sp1[s][q] + (IF s \in S /\ p = q THEN 1 ELSE 0)
  <2>1. CASE p = -1
    <3>1. S = {} /\ sp2 = sp1
      BY <2>1
    <3>. QED
      BY <1>1, <3>1
  <2>2. CASE p # -1
    <3>1. sp2 = SeqPosBump(sp1, S, p, 1)
      BY <2>2
    <3>. HIDE DEF sp2
    <3>2. /\ sp2 \in [Seqs -> [Positions -> Int]]
          /\ \A s \in Seqs, q \in Positions :
               sp2[s][q] = IF s \in S /\ q = p THEN sp1[s][q] + 1 ELSE sp1[s][q]
      BY <1>1, <3>1, BumpType
    <3>. QED
      BY <1>1, <3>2
  <2>. QED
    BY <2>1, <2>2
<1>3. u = IF p = -1 THEN c.used \ {i} ELSE c.used \cup {i}
  BY DEF Inv, Used, IsEmpty
<1>4. d = [pos |-> [c.pos EXCEPT ![i] = p], shift |-> c.shift,
           seq |-> [c.seq EXCEPT ![i] = S], used |-> u,
           seq_pos |-> sp2, has_shift |-> c.has_shift]
  BY DEF SetCell, sp1
<1>5. u \in SUBSET Cells
  BY <1>0 DEF CellsType
<1>. HIDE DEF sp2, u, d
<1>6. d \in CellsType
  <2>1. /\ [c.pos EXCEPT ![i] = p] \in [Cells -> Positions \cup {-1}]
        /\ [c.seq EXCEPT ![i] = S] \in [Cells -> SUBSET Seqs]
    BY <1>0 DEF CellsType
  <2>. QED
    BY <1>0, <1>2, <1>4, <1>5, <2>1 DEF CellsType
<1>7. /\ \A j \in Cells \ {i} : /\ d.seq[j] = c.seq[j] /\ d.pos[j] = c.pos[j]
                                /\ d.shift[j] = c.shift[j]
      /\ d.pos[i] = p /\ d.seq[i] = S /\ d.shift[i] = 0
      /\ d.used = u /\ d.seq_pos = sp2
  BY <1>0, <1>4 DEF CellsType
<1>8. d.has_shift = c.has_shift
  BY <1>4
<1>9. ASSUME NEW s \in Seqs, NEW q \in Positions
      PROVE  d.seq_pos[s][q] = c.seq_pos[s][q] - Has(c, i, s, q) + Has(d, i, s, q)
  BY <1>1, <1>2, <1>7 DEF Has
<1>10. d.has_shift \/ ~c.has_shift
  BY <1>8
<1>11. Writes(c, d, i)
  BY <1>3, <1>7, <1>9, <1>10 DEF Writes
<1>. QED
  BY <1>6, <1>11, WritesInv DEF d

(* mv: the token goes from a used cell to an empty one, and no count changes. *)
LEMMA MvInv ==
    ASSUME NEW c, Inv(c), NEW a \in Cells, NEW b \in Cells,
           c.pos[a] # -1, c.pos[b] = -1
    PROVE  Inv(Mv(c, a, b))
<1>. DEFINE d == Mv(c, a, b)
<1>0. c \in CellsType /\ a # b
  BY DEF Inv
<1>1. d \in CellsType
  <2>1. /\ [c.pos EXCEPT ![b] = c.pos[a], ![a] = -1] \in [Cells -> Positions \cup {-1}]
        /\ [c.shift EXCEPT ![b] = c.shift[a], ![a] = 0] \in [Cells -> Int]
        /\ [c.seq EXCEPT ![b] = c.seq[a], ![a] = {}] \in [Cells -> SUBSET Seqs]
        /\ (c.used \ {a}) \cup {b} \in SUBSET Cells
    BY <1>0 DEF CellsType
  <2>. QED
    BY <1>0, <2>1 DEF CellsType, Mv
<1>2. /\ \A j \in Cells \ {a, b} : /\ d.seq[j] = c.seq[j] /\ d.pos[j] = c.pos[j]
                                   /\ d.shift[j] = c.shift[j]
      /\ d.pos[a] = -1 /\ d.seq[a] = {} /\ d.shift[a] = 0
      /\ d.pos[b] = c.pos[a] /\ d.seq[b] = c.seq[a] /\ d.shift[b] = c.shift[a]
      /\ d.used = (c.used \ {a}) \cup {b} /\ d.seq_pos = c.seq_pos
  BY <1>0 DEF CellsType, Mv
<1>3. d.has_shift = c.has_shift
  BY DEF Mv
<1>. HIDE DEF d
<1>4. Used(d)
  <2>1. d.used = {j \in Cells : d.pos[j] # -1}
    BY <1>0, <1>2 DEF Inv, Used
  <2>2. \A j \in Cells : d.pos[j] = -1 => d.seq[j] = {} /\ d.shift[j] = 0
    BY <1>2 DEF Inv, Used
  <2>. QED
    BY <2>1, <2>2 DEF Used
<1>5. Announced(d)
  <2>. SUFFICES ASSUME NEW j \in Cells, d.shift[j] # 0
                PROVE  d.has_shift
    BY DEF Announced
  <2>1. \E k \in Cells : c.shift[k] # 0
    BY <1>2
  <2>. QED
    BY <1>3, <2>1 DEF Inv, Announced
<1>6. ASSUME NEW s \in Seqs, NEW p \in Positions
      PROVE  Cardinality(At(d, s, p)) = Cardinality(At(c, s, p))
  <2>1. c.seq[b] = {}
    BY DEF Inv, Used
  <2>2. CASE a \in At(c, s, p)
    <3>1. At(d, s, p) = (At(c, s, p) \ {a}) \cup {b}
      BY <1>0, <1>2, <2>1, <2>2 DEF At
    <3>2. b \notin At(c, s, p)
      BY <2>1 DEF At
    <3>3. /\ IsFiniteSet(At(c, s, p) \ {a})
          /\ Cardinality(At(c, s, p) \ {a}) = Cardinality(At(c, s, p)) - 1
      BY <2>2, AtFinite, FS_RemoveElement
    <3>4. Cardinality((At(c, s, p) \ {a}) \cup {b}) = Cardinality(At(c, s, p) \ {a}) + 1
      BY <3>2, <3>3, FS_AddElement
    <3>5. Cardinality(At(c, s, p)) \in Nat
      BY AtFinite
    <3>. QED
      BY <3>1, <3>3, <3>4, <3>5
  <2>3. CASE a \notin At(c, s, p)
    <3>1. At(d, s, p) = At(c, s, p)
      BY <1>0, <1>2, <2>1, <2>3 DEF At
    <3>. QED
      BY <3>1
  <2>. QED
    BY <2>2, <2>3
<1>7. Counted(d)
  BY <1>2, <1>6 DEF Inv, Counted
<1>. QED
  BY <1>1, <1>4, <1>5, <1>7 DEF Inv, d

(* seq_rm, seq_keep and seq_add: which sequences lose or gain the position. *)
LEMMA SeqRmInv ==
    ASSUME NEW c, Inv(c), NEW i \in Cells, c.pos[i] # -1,
           NEW S \in SUBSET c.seq[i]
    PROVE  Inv(SeqRmCell(c, i, S))
<1>. DEFINE sp == SeqPosBump(c.seq_pos, S, c.pos[i], -1)
<1>0. c \in CellsType
  BY DEF Inv
<1>1. /\ sp \in [Seqs -> [Positions -> Int]]
      /\ \A t \in Seqs, q \in Positions :
           sp[t][q] = IF t \in S /\ q = c.pos[i]
                      THEN c.seq_pos[t][q] + (-1) ELSE c.seq_pos[t][q]
  BY <1>0, BumpType DEF CellsType
<1>. HIDE DEF sp
<1>2. CASE c.seq[i] \ S = {}
  <2>1. c.seq[i] = S
    BY <1>2
  <2>2. SeqRmCell(c, i, S) = Emptied(c, i, SeqPosBump(c.seq_pos, S, c.pos[i], -1), c.has_shift)
    BY <1>2 DEF SeqRmCell
  <2>3. c.has_shift \in {c.has_shift, TRUE}
    OBVIOUS
  <2>. QED
    BY <2>1, <2>2, <2>3, EmptiedInv
<1>3. CASE c.seq[i] \ S # {}
  <2>1. SeqRmCell(c, i, S) = Tagged(c, i, c.seq[i] \ S, sp)
    BY <1>3 DEF SeqRmCell, sp
  <2>2. c.seq[i] \ S \in SUBSET Seqs
    BY <1>0 DEF CellsType
  <2>3. ASSUME NEW t \in Seqs, NEW p \in Positions
        PROVE  sp[t][p] = c.seq_pos[t][p] - Has(c, i, t, p)
                            + (IF t \in c.seq[i] \ S /\ c.pos[i] = p THEN 1 ELSE 0)
    <3>1. c.seq_pos[t][p] \in Int
      BY <1>0 DEF CellsType
    <3>. QED
      BY <1>1, <3>1 DEF Has
  <2>. QED
    BY <1>1, <2>1, <2>2, <2>3, TaggedInv
<1>. QED
  BY <1>2, <1>3

LEMMA SeqKeepInv ==
    ASSUME NEW c, Inv(c), NEW i \in Cells, NEW s \in Seqs
    PROVE  Inv(SeqKeepCell(c, i, s))
<1>. DEFINE sp == SeqPosBump(c.seq_pos, c.seq[i] \ {s}, c.pos[i], -1)
<1>0. c \in CellsType
  BY DEF Inv
<1>1. /\ sp \in [Seqs -> [Positions -> Int]]
      /\ \A t \in Seqs, q \in Positions :
           sp[t][q] = IF t \in c.seq[i] \ {s} /\ q = c.pos[i]
                      THEN c.seq_pos[t][q] + (-1) ELSE c.seq_pos[t][q]
  BY <1>0, BumpType DEF CellsType
<1>. HIDE DEF sp
<1>2. CASE s \in c.seq[i]
  <2>1. SeqKeepCell(c, i, s) = Tagged(c, i, {s}, sp)
    BY <1>2 DEF SeqKeepCell, SeqHas, sp
  <2>2. c.pos[i] # -1
    BY <1>2 DEF Inv, Used
  <2>3. ASSUME NEW t \in Seqs, NEW p \in Positions
        PROVE  sp[t][p] = c.seq_pos[t][p] - Has(c, i, t, p)
                            + (IF t \in {s} /\ c.pos[i] = p THEN 1 ELSE 0)
    <3>1. c.seq_pos[t][p] \in Int
      BY <1>0 DEF CellsType
    <3>. QED
      BY <1>1, <1>2, <3>1 DEF Has
  <2>. QED
    BY <1>1, <2>1, <2>2, <2>3, TaggedInv
<1>3. CASE s \notin c.seq[i] /\ c.seq[i] # {}
  <2>1. SeqKeepCell(c, i, s)
          = Emptied(c, i, SeqPosBump(c.seq_pos, c.seq[i], c.pos[i], -1), c.has_shift)
    BY <1>3 DEF SeqKeepCell, SeqHas, RmCell
  <2>2. c.has_shift \in {c.has_shift, TRUE}
    OBVIOUS
  <2>. QED
    BY <2>1, <2>2, EmptiedInv
<1>4. CASE s \notin c.seq[i] /\ c.seq[i] = {}
  BY <1>4 DEF SeqKeepCell, SeqHas
<1>. QED
  BY <1>2, <1>3, <1>4

LEMMA SeqAddInv ==
    ASSUME NEW c, Inv(c), NEW i \in Cells, c.pos[i] # -1,
           NEW S \in SUBSET Seqs, c.seq[i] \cap S = {}
    PROVE  Inv(SeqAddCell(c, i, S))
<1>. DEFINE sp == SeqPosBump(c.seq_pos, S, c.pos[i], 1)
<1>0. c \in CellsType
  BY DEF Inv
<1>1. /\ sp \in [Seqs -> [Positions -> Int]]
      /\ \A t \in Seqs, q \in Positions :
           sp[t][q] = IF t \in S /\ q = c.pos[i]
                      THEN c.seq_pos[t][q] + 1 ELSE c.seq_pos[t][q]
  BY <1>0, BumpType DEF CellsType
<1>2. SeqAddCell(c, i, S) = Tagged(c, i, c.seq[i] \cup S, sp)
  BY DEF SeqAddCell
<1>. HIDE DEF sp
<1>3. c.seq[i] \cup S \in SUBSET Seqs
  BY <1>0 DEF CellsType
<1>4. ASSUME NEW t \in Seqs, NEW p \in Positions
      PROVE  sp[t][p] = c.seq_pos[t][p] - Has(c, i, t, p)
                          + (IF t \in c.seq[i] \cup S /\ c.pos[i] = p THEN 1 ELSE 0)
  <2>1. c.seq_pos[t][p] \in Int
    BY <1>0 DEF CellsType
  <2>. QED
    BY <1>1, <2>1 DEF Has
<1>. QED
  BY <1>1, <1>2, <1>3, <1>4, TaggedInv

-----------------------------------------------------------------------------
(* Every call keeps the invariant of the object. *)
LEMMA CallsNextInv == Inv(cells) /\ [CallsNext]_cells => Inv(cells')
<1>. SUFFICES ASSUME Inv(cells), [CallsNext]_cells
              PROVE  Inv(cells')
  OBVIOUS
<1>0. cells \in CellsType
  BY DEF Inv
<1>1. CASE Reset
  BY <1>1, ResetInv DEF Reset
<1>2. CASE Reset_shift
  BY <1>2, ResetShiftInv DEF Reset_shift
<1>3. ASSUME NEW i \in Cells, NEW j \in Cells, Call_mv(i, j)
      PROVE  Inv(cells')
  BY <1>3, MvInv DEF Call_mv, IsEmpty
<1>4. ASSUME NEW i \in Cells, NEW p \in Positions \cup {-1}, NEW S \in SUBSET Seqs,
             Call_set(i, p, S)
      PROVE  Inv(cells')
  BY <1>4, SetInv DEF Call_set
<1>5. ASSUME NEW i \in Cells, Call_rm(i)
      PROVE  Inv(cells')
  <2>1. cells.has_shift \in {cells.has_shift, TRUE}
    OBVIOUS
  <2>2. cells' = Emptied(cells, i, SeqPosBump(cells.seq_pos, cells.seq[i], cells.pos[i], -1),
                         cells.has_shift)
    BY <1>5 DEF Call_rm, RmCell
  <2>. QED
    BY <2>1, <2>2, EmptiedInv
<1>6. ASSUME NEW i \in Cells, NEW s \in Seqs, Call_seq_rm(i, s)
      PROVE  Inv(cells')
  BY <1>6, SeqRmInv DEF Call_seq_rm, IsEmpty, SeqHas
<1>7. ASSUME NEW i \in Cells, NEW s \in Seqs, Call_seq_keep(i, s)
      PROVE  Inv(cells')
  BY <1>7, SeqKeepInv DEF Call_seq_keep
<1>8. ASSUME NEW i \in Cells, NEW s \in Seqs, Call_seq_add(i, s)
      PROVE  Inv(cells')
  BY <1>8, SeqAddInv DEF Call_seq_add, IsEmpty, SeqHas
<1>9. ASSUME NEW i \in Cells, NEW p \in Positions, Call_pos_set(i, p)
      PROVE  Inv(cells')
  BY <1>9, PosSetInv DEF Call_pos_set, IsEmpty
<1>10. ASSUME NEW i \in Cells, NEW d \in Deltas, Call_pos_add(i, d)
       PROVE  Inv(cells')
  <2>1. d \in Int /\ cells.pos[i] # -1 /\ cells' = PosAdd(cells, i, d)
    BY <1>10, CallsAssumption DEF Call_pos_add, IsEmpty
  <2>2. CASE cells.pos[i] + d < 0
    <3>1. cells' = Emptied(cells, i, SeqPosBump(cells.seq_pos, cells.seq[i], cells.pos[i], -1),
                           TRUE)
      BY <2>1, <2>2 DEF PosAdd
    <3>2. TRUE \in {cells.has_shift, TRUE}
      OBVIOUS
    <3>. QED
      BY <3>1, <3>2, EmptiedInv
  <2>3. CASE ~(cells.pos[i] + d < 0)
    <3>1. cells' = Moved(cells, i, cells.pos[i] + d, d)
      BY <2>1, <2>3 DEF PosAdd
    <3>2. cells.pos[i] + d \in Positions
      BY <1>10, <2>3 DEF Call_pos_add
    <3>. QED
      BY <2>1, <3>1, <3>2, MovedInv
  <2>. QED
    BY <2>2, <2>3
<1>11. ASSUME NEW i \in Cells, NEW d \in Divisors, Call_pos_div(i, d)
       PROVE  Inv(cells')
  <2>1. /\ cells.pos[i] # -1 /\ cells.pos[i] \div d \in Positions
        /\ cells' = Moved(cells, i, cells.pos[i] \div d,
                          cells.pos[i] - (cells.pos[i] \div d))
    BY <1>11 DEF Call_pos_div, IsEmpty, PosDiv
  <2>2. cells.pos[i] \in Int /\ cells.pos[i] \div d \in Int
    <3>1. cells.pos[i] \in Positions \cup {-1}
      BY <1>0 DEF CellsType
    <3>2. \A q \in Positions : q \in Int
      BY CellsAssumption
    <3>3. cells.pos[i] \in Int
      BY <3>1, <3>2
    <3>. DEFINE q == cells.pos[i] \div d
    <3>4. q \in Positions
      BY <2>1
    <3>. HIDE DEF q
    <3>5. q \in Int
      BY <3>2, <3>4
    <3>. QED
      BY <3>3, <3>5 DEF q
  <2>3. cells.pos[i] - (cells.pos[i] \div d) \in Int
    BY <2>2
  <2>. QED
    BY <2>1, <2>3, MovedInv
<1>12. CASE UNCHANGED cells
  BY <1>12
<1>. QED
  BY <1>1, <1>2, <1>3, <1>4, <1>5, <1>6, <1>7, <1>8, <1>9, <1>10, <1>11, <1>12 DEF CallsNext

(* The invariant holds throughout. *)
LEMMA InvHolds == CallsSpec => []Inv(cells)
<1>1. CallsInit => Inv(cells)
  BY ResetInv DEF CallsInit
<1>2. Inv(cells) /\ [CallsNext]_cells => Inv(cells)'
  BY CallsNextInv
<1>. QED
  BY <1>1, <1>2, PTL DEF CallsSpec

(* Whatever the calls, the object stays a value of the class. *)
THEOREM TypeCorrect == CallsSpec => []CellsTypeOK
<1>1. Inv(cells) => CellsTypeOK
  BY DEF Inv, CellsTypeOK
<1>. QED
  BY <1>1, InvHolds, PTL

(* The set used, which the methods update cell by cell, is the set of the    *)
(* cells with a position, and the other cells are blank.                     *)
THEOREM UsedCorrect == CallsSpec => []UsedExact
<1>1. Inv(cells) => UsedExact
  BY DEF Inv, Used, UsedExact
<1>. QED
  BY <1>1, InvHolds, PTL

(* Every count of seq_pos, which the methods increment and decrement, is the *)
(* number of cells that hold the position for the sequence.                  *)
THEOREM CountsCorrect == CallsSpec => []CountsExact
<1>1. Inv(cells) => CountsExact
  BY DEF Inv, Counted, At, CountsExact
<1>. QED
  BY <1>1, InvHolds, PTL

(* No shift is pending without has_shift. *)
THEOREM ShiftCorrect == CallsSpec => []ShiftAnnounced
<1>1. Inv(cells) => ShiftAnnounced
  BY DEF Inv, Announced, ShiftAnnounced
<1>. QED
  BY <1>1, InvHolds, PTL

-----------------------------------------------------------------------------
(* A finite set of integers that is not empty has a first and a last element: *)
(* among the sets of the elements up to p (from p on), one has no smaller one *)
(* inside.                                                                    *)
LEMMA FirstAndLast ==
    ASSUME NEW P \in SUBSET Int, IsFiniteSet(P), P # {}
    PROVE  /\ \E p \in P : \A q \in P : p <= q
           /\ \E p \in P : \A q \in P : q <= p
<1>. DEFINE R     == StrictSubsetOrdering(P)
            Low   == {{q \in P : q <= p} : p \in P}
            High  == {{q \in P : p <= q} : p \in P}
<1>0. PICK e \in P : TRUE
  OBVIOUS
<1>1. IsWellFoundedOn(R, SUBSET P)
  BY FS_StrictSubsetOrderingWellFounded, FS_FiniteSubsetsOfFinite
<1>2. PICK L \in Low : \A y \in Low : <<y, L>> \notin R
  <2>1. Low \subseteq SUBSET P
    OBVIOUS
  <2>2. Low # {}
    BY <1>0
  <2>. HIDE DEF Low, R
  <2>. QED
    BY <1>1, <2>1, <2>2, WFMin
<1>3. PICK H \in High : \A y \in High : <<y, H>> \notin R
  <2>1. High \subseteq SUBSET P
    OBVIOUS
  <2>2. High # {}
    <3>1. {q \in P : e <= q} \in High
      BY <1>0
    <3>. HIDE DEF High
    <3>. QED
      BY <3>1
  <2>. HIDE DEF High, R
  <2>. QED
    BY <1>1, <2>1, <2>2, WFMin
<1>4. \E p \in P : \A q \in P : p <= q
  <2>1. PICK p \in P : L = {q \in P : q <= p}
    OBVIOUS
  <2>2. ASSUME NEW q \in P, ~(p <= q)
        PROVE  FALSE
    <3>. DEFINE y == {x \in P : x <= q}
    <3>1. y \in Low /\ y \in SUBSET P /\ L \in SUBSET P
      BY <2>1
    <3>0. p \in Int /\ q \in Int /\ \A x \in P : x \in Int
      OBVIOUS
    <3>a. p \in L /\ p \notin y
      BY <2>1, <2>2, <3>0
    <3>b. \A x \in P : x <= q => x <= p
      BY <2>2, <3>0
    <3>2. y \subseteq L /\ p \in L /\ p \notin y
      BY <2>1, <3>a, <3>b
    <3>. HIDE DEF y
    <3>3. <<y, L>> \in R
      BY <3>1, <3>2 DEF StrictSubsetOrdering
    <3>. QED
      BY <1>2, <3>1, <3>3
  <2>. QED
    BY <2>2
<1>5. \E p \in P : \A q \in P : q <= p
  <2>1. PICK p \in P : H = {q \in P : p <= q}
    OBVIOUS
  <2>2. ASSUME NEW q \in P, ~(q <= p)
        PROVE  FALSE
    <3>. DEFINE y == {x \in P : q <= x}
    <3>1. y \in High /\ y \in SUBSET P /\ H \in SUBSET P
      BY <2>1
    <3>0. p \in Int /\ q \in Int /\ \A x \in P : x \in Int
      OBVIOUS
    <3>a. p \in H /\ p \notin y
      BY <2>1, <2>2, <3>0
    <3>b. \A x \in P : q <= x => p <= x
      BY <2>2, <3>0
    <3>2. y \subseteq H /\ p \in H /\ p \notin y
      BY <2>1, <3>a, <3>b
    <3>. HIDE DEF y
    <3>3. <<y, H>> \in R
      BY <3>1, <3>2 DEF StrictSubsetOrdering
    <3>. QED
      BY <1>3, <3>1, <3>3
  <2>. QED
    BY <2>2
<1>. QED
  BY <1>4, <1>5

(* The positions of s in the cells are the keys of its map seq_pos[s]. *)
LEMMA KeysArePositions ==
    ASSUME NEW c, Inv(c), NEW s \in Seqs
    PROVE  /\ Keys(c, s) = {c.pos[i] : i \in {j \in Cells : s \in c.seq[j]}}
           /\ Keys(c, s) \in SUBSET Int /\ IsFiniteSet(Keys(c, s))
<1>. DEFINE C == {j \in Cells : s \in c.seq[j]}
            P == {c.pos[i] : i \in C}
<1>0. c \in CellsType
  BY DEF Inv
<1>1. \A i \in C : c.pos[i] \in Positions
  <2>1. \A i \in C : c.pos[i] # -1
    BY DEF Inv, Used
  <2>. QED
    BY <1>0, <2>1 DEF CellsType
<1>2. ASSUME NEW p \in Positions
      PROVE  p \in Keys(c, s) <=> p \in P
  <2>1. c.seq_pos[s][p] = Cardinality(At(c, s, p))
    BY DEF Inv, Counted
  <2>2. Cardinality(At(c, s, p)) = 0 <=> At(c, s, p) = {}
    BY AtFinite, FS_EmptySet
  <2>3. At(c, s, p) # {} <=> p \in P
    BY DEF At
  <2>. QED
    BY <2>1, <2>2, <2>3 DEF Keys
<1>3. Keys(c, s) = P
  BY <1>1, <1>2 DEF Keys
<1>4. P \in SUBSET Int
  <2>1. \A q \in Positions : q \in Int
    BY CellsAssumption
  <2>2. \A i \in C : c.pos[i] \in Int
    BY <1>1, <2>1
  <2>. QED
    BY <2>2
<1>5. IsFiniteSet(P)
  <2>0. IsFiniteSet(Cells)
    BY CellsAssumption, FS_Interval DEF Cells
  <2>1. IsFiniteSet(C)
    BY <2>0, FS_Subset
  <2>2. [i \in C |-> c.pos[i]] \in Surjection(C, P)
    BY DEF Surjection
  <2>. HIDE DEF C, P
  <2>. QED
    BY <2>1, <2>2, FS_Surjection
<1>. QED
  BY <1>3, <1>4, <1>5

(* seq_pos_min and seq_pos_max of s span the positions P. *)
RangeOf(P, s) ==
    /\ P = {} => SeqPosMin(cells, s) = -1 /\ SeqPosMax(cells, s) = -1
    /\ P # {} => /\ SeqPosMin(cells, s) \in P /\ SeqPosMax(cells, s) \in P
                 /\ \A p \in P : SeqPosMin(cells, s) <= p /\ p <= SeqPosMax(cells, s)

LEMMA RangeKnown == Inv(cells) => RangeExact
<1>. SUFFICES ASSUME Inv(cells)
              PROVE  \A s \in Seqs :
                         RangeOf({cells.pos[i] : i \in {j \in Cells : s \in cells.seq[j]}}, s)
  BY DEF RangeExact, RangeOf
<1>. TAKE s \in Seqs
<1>. DEFINE P == {cells.pos[i] : i \in {j \in Cells : s \in cells.seq[j]}}
<1>1. Keys(cells, s) = P /\ P \in SUBSET Int /\ IsFiniteSet(P)
  BY KeysArePositions
<1>. HIDE DEF P
<1>2. ASSUME P = {} PROVE RangeOf(P, s)
  BY <1>1, <1>2 DEF SeqPosMin, SeqPosMax, RangeOf
<1>3. ASSUME P # {} PROVE RangeOf(P, s)
  <2>1. /\ \E p \in P : \A q \in P : p <= q
        /\ \E p \in P : \A q \in P : q <= p
    BY <1>1, <1>3, FirstAndLast
  <2>2. SeqPosMin(cells, s) = CHOOSE p \in P : \A q \in P : p <= q
    BY <1>1, <1>3 DEF SeqPosMin
  <2>3. SeqPosMax(cells, s) = CHOOSE p \in P : \A q \in P : q <= p
    BY <1>1, <1>3 DEF SeqPosMax
  <2>4. SeqPosMin(cells, s) \in P /\ \A q \in P : SeqPosMin(cells, s) <= q
    BY <2>1, <2>2
  <2>5. SeqPosMax(cells, s) \in P /\ \A q \in P : q <= SeqPosMax(cells, s)
    BY <2>1, <2>3
  <2>. QED
    BY <1>3, <2>4, <2>5 DEF RangeOf
<1>4. RangeOf(P, s)
  BY <1>2, <1>3
<1>. QED
  BY <1>4 DEF P

(* What the callers read with seq_pos_min and seq_pos_max is the first and   *)
(* the last position of the sequence that some cell holds, and -1 if none    *)
(* does.                                                                     *)
THEOREM RangeCorrect == CallsSpec => []RangeExact
  BY RangeKnown, InvHolds, PTL

-----------------------------------------------------------------------------
(* A nonempty set of natural numbers has a least element. *)
LEMMA LeastNatural ==
    ASSUME NEW P \in SUBSET Nat, P # {}
    PROVE  \E m \in P : \A k \in P : m <= k
  <1> DEFINE R == OpToRel(<, Nat)
  <1>1. IsWellFoundedOn(R, Nat)
    BY NatLessThanWellFounded, Zenon
  <1>2. \A k, m \in Nat : k < m => <<k, m>> \in R
    BY DEF OpToRel
  <1> HIDE DEF R
  <1>3. PICK m \in P : \A k \in P : ~(<<k, m>> \in R)
    BY <1>1, WFMin
  <1>4. \A k \in P : ~(k < m)
    BY <1>2, <1>3
  <1> QED  BY <1>4

(* Induction over a set of numbers: what loops of the code are followed by. *)
LEMMA Induct ==
    ASSUME NEW S, NEW n \in Nat, 0 \in S,
           \A k \in 0 .. n - 1 : k \in S => k + 1 \in S
    PROVE  0 .. n \subseteq S
  <1> SUFFICES ASSUME ~(0 .. n \subseteq S)  PROVE FALSE
    OBVIOUS
  <1> DEFINE P == {k \in 0 .. n : k \notin S}
  <1>1. P \in SUBSET Nat /\ P # {}
    OBVIOUS
  <1>2. PICK m \in P : \A k \in P : m <= k
    <2> HIDE DEF P
    <2> QED  BY <1>1, LeastNatural
  <1>3. m # 0 /\ m \in Nat /\ m <= n /\ m \notin S
    OBVIOUS
  <1>4. m - 1 \in 0 .. n - 1 /\ ~(m <= m - 1)
    BY <1>3
  <1>5. m - 1 \in S
    BY <1>2, <1>4
  <1>6. (m - 1) + 1 \in S
    BY <1>4, <1>5
  <1> QED  BY <1>3, <1>6



-----------------------------------------------------------------------------
(* The loops over the cells. *)

RmLoop(c, R)    == Each(LAMBDA a, i : SeqRmCell(a, i, R[i]), c, {i \in Cells : R[i] # {}})
CpLoop(c, s, K) == Each(LAMBDA a, i : SeqAddCell(a, i, {s}), c, K)
KeepLoop(c, s)  == Each(LAMBDA a, i : SeqKeepCell(a, i, s), c, Cells)
AddLoop(c, d, K) == Each(LAMBDA a, i : PosAdd(a, i, d), c, K)
DivLoop(c, d, K) == Each(LAMBDA a, i : PosDiv(a, i, d), c, K)
MvLoop(c, ids)  == Each(LAMBDA a, i : Mv(a, i, ids[i]), c, DOMAIN ids)
BackLoop(c, K, pos, seq) == Each(LAMBDA a, i : SetCell(a, i, pos[i], seq[i]), c, K)

(* seq_rm() cell by cell. *)
LEMMA RmSteps ==
    ASSUME NEW c, NEW R
    PROVE  \E a : /\ a[0] = c
                  /\ \A k \in 1 .. NCells : a[k] = IF k - 1 \in {i \in Cells : R[i] # {}} THEN SeqRmCell(a[k - 1], k - 1, R[k - 1]) ELSE a[k - 1]
                  /\ RmLoop(c, R) = a[NCells]
  <1> DEFINE base == c
             step(x, k) == IF k - 1 \in {i \in Cells : R[i] # {}} THEN SeqRmCell(x, k - 1, R[k - 1]) ELSE x
             S == {n \in Nat : \E f : f = [k \in 0 .. n |->
                        IF k = 0 THEN base ELSE step(f[k - 1], k)]}
             a == CHOOSE f : f = [k \in 0 .. NCells |->
                        IF k = 0 THEN base ELSE step(f[k - 1], k)]
  <1>1. RmLoop(c, R) = a[NCells]
    BY DEF RmLoop, Each
  <1> HIDE DEF base, step
  <1>2. 0 \in S
    <2> DEFINE f == [k \in 0 .. 0 |-> base]
    <2>1. f = [k \in 0 .. 0 |-> IF k = 0 THEN base ELSE step(f[k - 1], k)]
      OBVIOUS
    <2> HIDE DEF f
    <2> QED  BY <2>1
  <1>3. ASSUME NEW n \in Nat, n \in S  PROVE n + 1 \in S
    <2>1. PICK f : f = [k \in 0 .. n |-> IF k = 0 THEN base ELSE step(f[k - 1], k)]
      BY <1>3
    <2> DEFINE g == [k \in 0 .. n + 1 |-> IF k = n + 1 THEN step(f[n], n + 1) ELSE f[k]]
    <2>2. ASSUME NEW k \in 0 .. n + 1
          PROVE  g[k] = IF k = 0 THEN base ELSE step(g[k - 1], k)
      <3>1. CASE k = n + 1
        <4>1. (n + 1) - 1 = n /\ n \in 0 .. n + 1 /\ n # n + 1 /\ k # 0
          BY <3>1
        <4>2. g[k - 1] = f[n] /\ g[k] = step(f[n], k)
          BY <3>1, <4>1
        <4> QED  BY <4>1, <4>2
      <3>2. CASE k # n + 1
        <4>1. k \in 0 .. n /\ g[k] = f[k]
          BY <3>2
        <4>2. k # 0 => k - 1 \in 0 .. n + 1 /\ k - 1 # n + 1
          BY <4>1
        <4>3. k # 0 => g[k - 1] = f[k - 1]
          BY <4>2
        <4>4. f[k] = IF k = 0 THEN base ELSE step(f[k - 1], k)
          BY <2>1, <4>1
        <4> QED  BY <4>1, <4>3, <4>4
      <3> QED  BY <3>1, <3>2
    <2>3. g = [k \in 0 .. n + 1 |-> IF k = 0 THEN base ELSE step(g[k - 1], k)]
      BY <2>2
    <2> HIDE DEF g
    <2> QED  BY <2>3
  <1>4. NCells \in S
    <2> HIDE DEF S
    <2>1. 0 .. NCells \subseteq S
      <3>1. \A k \in 0 .. NCells - 1 : k \in S => k + 1 \in S
        BY <1>3, CellsAssumption
      <3>2. NCells \in Nat
        BY CellsAssumption
      <3> QED  BY <1>2, <3>1, <3>2, Induct
    <2> QED  BY <2>1, CellsAssumption
  <1>5. a = [k \in 0 .. NCells |-> IF k = 0 THEN base ELSE step(a[k - 1], k)]
    <2> HIDE DEF step, base
    <2> QED  BY <1>4
  <1> HIDE DEF a
  <1>6. a[0] = base /\ \A k \in 1 .. NCells : a[k] = step(a[k - 1], k)
    BY <1>5, CellsAssumption
  <1> QED  BY <1>1, <1>6 DEF base, step

(* seq_cp() cell by cell: a[k] is the value after the first k cells. *)
CpRun(a, c, s, K) ==
    /\ a[0] = c
    /\ \A k \in 1 .. NCells : a[k] = IF k - 1 \in K THEN SeqAddCell(a[k - 1], k - 1, {s}) ELSE a[k - 1]
    /\ CpLoop(c, s, K) = a[NCells]

(* Such values exist. *)
LEMMA CpSteps ==
    ASSUME NEW c, NEW s, NEW K
    PROVE  \E a : CpRun(a, c, s, K)
  <1> DEFINE base == c
             step(x, k) == IF k - 1 \in K THEN SeqAddCell(x, k - 1, {s}) ELSE x
             S == {n \in Nat : \E f : f = [k \in 0 .. n |->
                        IF k = 0 THEN base ELSE step(f[k - 1], k)]}
             a == CHOOSE f : f = [k \in 0 .. NCells |->
                        IF k = 0 THEN base ELSE step(f[k - 1], k)]
  <1>1. CpLoop(c, s, K) = a[NCells]
    BY DEF CpLoop, Each
  <1> HIDE DEF base, step
  <1>2. 0 \in S
    <2> DEFINE f == [k \in 0 .. 0 |-> base]
    <2>1. f = [k \in 0 .. 0 |-> IF k = 0 THEN base ELSE step(f[k - 1], k)]
      OBVIOUS
    <2> HIDE DEF f
    <2> QED  BY <2>1
  <1>3. ASSUME NEW n \in Nat, n \in S  PROVE n + 1 \in S
    <2>1. PICK f : f = [k \in 0 .. n |-> IF k = 0 THEN base ELSE step(f[k - 1], k)]
      BY <1>3
    <2> DEFINE g == [k \in 0 .. n + 1 |-> IF k = n + 1 THEN step(f[n], n + 1) ELSE f[k]]
    <2>2. ASSUME NEW k \in 0 .. n + 1
          PROVE  g[k] = IF k = 0 THEN base ELSE step(g[k - 1], k)
      <3>1. CASE k = n + 1
        <4>1. (n + 1) - 1 = n /\ n \in 0 .. n + 1 /\ n # n + 1 /\ k # 0
          BY <3>1
        <4>2. g[k - 1] = f[n] /\ g[k] = step(f[n], k)
          BY <3>1, <4>1
        <4> QED  BY <4>1, <4>2
      <3>2. CASE k # n + 1
        <4>1. k \in 0 .. n /\ g[k] = f[k]
          BY <3>2
        <4>2. k # 0 => k - 1 \in 0 .. n + 1 /\ k - 1 # n + 1
          BY <4>1
        <4>3. k # 0 => g[k - 1] = f[k - 1]
          BY <4>2
        <4>4. f[k] = IF k = 0 THEN base ELSE step(f[k - 1], k)
          BY <2>1, <4>1
        <4> QED  BY <4>1, <4>3, <4>4
      <3> QED  BY <3>1, <3>2
    <2>3. g = [k \in 0 .. n + 1 |-> IF k = 0 THEN base ELSE step(g[k - 1], k)]
      BY <2>2
    <2> HIDE DEF g
    <2> QED  BY <2>3
  <1>4. NCells \in S
    <2> HIDE DEF S
    <2>1. 0 .. NCells \subseteq S
      <3>1. \A k \in 0 .. NCells - 1 : k \in S => k + 1 \in S
        BY <1>3, CellsAssumption
      <3>2. NCells \in Nat
        BY CellsAssumption
      <3> QED  BY <1>2, <3>1, <3>2, Induct
    <2> QED  BY <2>1, CellsAssumption
  <1>5. a = [k \in 0 .. NCells |-> IF k = 0 THEN base ELSE step(a[k - 1], k)]
    <2> HIDE DEF step, base
    <2> QED  BY <1>4
  <1> HIDE DEF a
  <1>6. a[0] = base /\ \A k \in 1 .. NCells : a[k] = step(a[k - 1], k)
    BY <1>5, CellsAssumption
  <1>7. CpRun(a, c, s, K)
    BY <1>1, <1>6 DEF CpRun, base, step
  <1> QED  BY <1>7, Zenon

(* seq_keep() cell by cell. *)
LEMMA KeepSteps ==
    ASSUME NEW c, NEW s
    PROVE  \E a : /\ a[0] = c
                  /\ \A k \in 1 .. NCells : a[k] = IF k - 1 \in Cells THEN SeqKeepCell(a[k - 1], k - 1, s) ELSE a[k - 1]
                  /\ KeepLoop(c, s) = a[NCells]
  <1> DEFINE base == c
             step(x, k) == IF k - 1 \in Cells THEN SeqKeepCell(x, k - 1, s) ELSE x
             S == {n \in Nat : \E f : f = [k \in 0 .. n |->
                        IF k = 0 THEN base ELSE step(f[k - 1], k)]}
             a == CHOOSE f : f = [k \in 0 .. NCells |->
                        IF k = 0 THEN base ELSE step(f[k - 1], k)]
  <1>1. KeepLoop(c, s) = a[NCells]
    BY DEF KeepLoop, Each
  <1> HIDE DEF base, step
  <1>2. 0 \in S
    <2> DEFINE f == [k \in 0 .. 0 |-> base]
    <2>1. f = [k \in 0 .. 0 |-> IF k = 0 THEN base ELSE step(f[k - 1], k)]
      OBVIOUS
    <2> HIDE DEF f
    <2> QED  BY <2>1
  <1>3. ASSUME NEW n \in Nat, n \in S  PROVE n + 1 \in S
    <2>1. PICK f : f = [k \in 0 .. n |-> IF k = 0 THEN base ELSE step(f[k - 1], k)]
      BY <1>3
    <2> DEFINE g == [k \in 0 .. n + 1 |-> IF k = n + 1 THEN step(f[n], n + 1) ELSE f[k]]
    <2>2. ASSUME NEW k \in 0 .. n + 1
          PROVE  g[k] = IF k = 0 THEN base ELSE step(g[k - 1], k)
      <3>1. CASE k = n + 1
        <4>1. (n + 1) - 1 = n /\ n \in 0 .. n + 1 /\ n # n + 1 /\ k # 0
          BY <3>1
        <4>2. g[k - 1] = f[n] /\ g[k] = step(f[n], k)
          BY <3>1, <4>1
        <4> QED  BY <4>1, <4>2
      <3>2. CASE k # n + 1
        <4>1. k \in 0 .. n /\ g[k] = f[k]
          BY <3>2
        <4>2. k # 0 => k - 1 \in 0 .. n + 1 /\ k - 1 # n + 1
          BY <4>1
        <4>3. k # 0 => g[k - 1] = f[k - 1]
          BY <4>2
        <4>4. f[k] = IF k = 0 THEN base ELSE step(f[k - 1], k)
          BY <2>1, <4>1
        <4> QED  BY <4>1, <4>3, <4>4
      <3> QED  BY <3>1, <3>2
    <2>3. g = [k \in 0 .. n + 1 |-> IF k = 0 THEN base ELSE step(g[k - 1], k)]
      BY <2>2
    <2> HIDE DEF g
    <2> QED  BY <2>3
  <1>4. NCells \in S
    <2> HIDE DEF S
    <2>1. 0 .. NCells \subseteq S
      <3>1. \A k \in 0 .. NCells - 1 : k \in S => k + 1 \in S
        BY <1>3, CellsAssumption
      <3>2. NCells \in Nat
        BY CellsAssumption
      <3> QED  BY <1>2, <3>1, <3>2, Induct
    <2> QED  BY <2>1, CellsAssumption
  <1>5. a = [k \in 0 .. NCells |-> IF k = 0 THEN base ELSE step(a[k - 1], k)]
    <2> HIDE DEF step, base
    <2> QED  BY <1>4
  <1> HIDE DEF a
  <1>6. a[0] = base /\ \A k \in 1 .. NCells : a[k] = step(a[k - 1], k)
    BY <1>5, CellsAssumption
  <1> QED  BY <1>1, <1>6 DEF base, step

(* seq_add() cell by cell. *)
LEMMA AddSteps ==
    ASSUME NEW c, NEW d, NEW K
    PROVE  \E a : /\ a[0] = c
                  /\ \A k \in 1 .. NCells : a[k] = IF k - 1 \in K THEN PosAdd(a[k - 1], k - 1, d) ELSE a[k - 1]
                  /\ AddLoop(c, d, K) = a[NCells]
  <1> DEFINE base == c
             step(x, k) == IF k - 1 \in K THEN PosAdd(x, k - 1, d) ELSE x
             S == {n \in Nat : \E f : f = [k \in 0 .. n |->
                        IF k = 0 THEN base ELSE step(f[k - 1], k)]}
             a == CHOOSE f : f = [k \in 0 .. NCells |->
                        IF k = 0 THEN base ELSE step(f[k - 1], k)]
  <1>1. AddLoop(c, d, K) = a[NCells]
    BY DEF AddLoop, Each
  <1> HIDE DEF base, step
  <1>2. 0 \in S
    <2> DEFINE f == [k \in 0 .. 0 |-> base]
    <2>1. f = [k \in 0 .. 0 |-> IF k = 0 THEN base ELSE step(f[k - 1], k)]
      OBVIOUS
    <2> HIDE DEF f
    <2> QED  BY <2>1
  <1>3. ASSUME NEW n \in Nat, n \in S  PROVE n + 1 \in S
    <2>1. PICK f : f = [k \in 0 .. n |-> IF k = 0 THEN base ELSE step(f[k - 1], k)]
      BY <1>3
    <2> DEFINE g == [k \in 0 .. n + 1 |-> IF k = n + 1 THEN step(f[n], n + 1) ELSE f[k]]
    <2>2. ASSUME NEW k \in 0 .. n + 1
          PROVE  g[k] = IF k = 0 THEN base ELSE step(g[k - 1], k)
      <3>1. CASE k = n + 1
        <4>1. (n + 1) - 1 = n /\ n \in 0 .. n + 1 /\ n # n + 1 /\ k # 0
          BY <3>1
        <4>2. g[k - 1] = f[n] /\ g[k] = step(f[n], k)
          BY <3>1, <4>1
        <4> QED  BY <4>1, <4>2
      <3>2. CASE k # n + 1
        <4>1. k \in 0 .. n /\ g[k] = f[k]
          BY <3>2
        <4>2. k # 0 => k - 1 \in 0 .. n + 1 /\ k - 1 # n + 1
          BY <4>1
        <4>3. k # 0 => g[k - 1] = f[k - 1]
          BY <4>2
        <4>4. f[k] = IF k = 0 THEN base ELSE step(f[k - 1], k)
          BY <2>1, <4>1
        <4> QED  BY <4>1, <4>3, <4>4
      <3> QED  BY <3>1, <3>2
    <2>3. g = [k \in 0 .. n + 1 |-> IF k = 0 THEN base ELSE step(g[k - 1], k)]
      BY <2>2
    <2> HIDE DEF g
    <2> QED  BY <2>3
  <1>4. NCells \in S
    <2> HIDE DEF S
    <2>1. 0 .. NCells \subseteq S
      <3>1. \A k \in 0 .. NCells - 1 : k \in S => k + 1 \in S
        BY <1>3, CellsAssumption
      <3>2. NCells \in Nat
        BY CellsAssumption
      <3> QED  BY <1>2, <3>1, <3>2, Induct
    <2> QED  BY <2>1, CellsAssumption
  <1>5. a = [k \in 0 .. NCells |-> IF k = 0 THEN base ELSE step(a[k - 1], k)]
    <2> HIDE DEF step, base
    <2> QED  BY <1>4
  <1> HIDE DEF a
  <1>6. a[0] = base /\ \A k \in 1 .. NCells : a[k] = step(a[k - 1], k)
    BY <1>5, CellsAssumption
  <1> QED  BY <1>1, <1>6 DEF base, step

(* seq_div() cell by cell. *)
LEMMA DivSteps ==
    ASSUME NEW c, NEW d, NEW K
    PROVE  \E a : /\ a[0] = c
                  /\ \A k \in 1 .. NCells : a[k] = IF k - 1 \in K THEN PosDiv(a[k - 1], k - 1, d) ELSE a[k - 1]
                  /\ DivLoop(c, d, K) = a[NCells]
  <1> DEFINE base == c
             step(x, k) == IF k - 1 \in K THEN PosDiv(x, k - 1, d) ELSE x
             S == {n \in Nat : \E f : f = [k \in 0 .. n |->
                        IF k = 0 THEN base ELSE step(f[k - 1], k)]}
             a == CHOOSE f : f = [k \in 0 .. NCells |->
                        IF k = 0 THEN base ELSE step(f[k - 1], k)]
  <1>1. DivLoop(c, d, K) = a[NCells]
    BY DEF DivLoop, Each
  <1> HIDE DEF base, step
  <1>2. 0 \in S
    <2> DEFINE f == [k \in 0 .. 0 |-> base]
    <2>1. f = [k \in 0 .. 0 |-> IF k = 0 THEN base ELSE step(f[k - 1], k)]
      OBVIOUS
    <2> HIDE DEF f
    <2> QED  BY <2>1
  <1>3. ASSUME NEW n \in Nat, n \in S  PROVE n + 1 \in S
    <2>1. PICK f : f = [k \in 0 .. n |-> IF k = 0 THEN base ELSE step(f[k - 1], k)]
      BY <1>3
    <2> DEFINE g == [k \in 0 .. n + 1 |-> IF k = n + 1 THEN step(f[n], n + 1) ELSE f[k]]
    <2>2. ASSUME NEW k \in 0 .. n + 1
          PROVE  g[k] = IF k = 0 THEN base ELSE step(g[k - 1], k)
      <3>1. CASE k = n + 1
        <4>1. (n + 1) - 1 = n /\ n \in 0 .. n + 1 /\ n # n + 1 /\ k # 0
          BY <3>1
        <4>2. g[k - 1] = f[n] /\ g[k] = step(f[n], k)
          BY <3>1, <4>1
        <4> QED  BY <4>1, <4>2
      <3>2. CASE k # n + 1
        <4>1. k \in 0 .. n /\ g[k] = f[k]
          BY <3>2
        <4>2. k # 0 => k - 1 \in 0 .. n + 1 /\ k - 1 # n + 1
          BY <4>1
        <4>3. k # 0 => g[k - 1] = f[k - 1]
          BY <4>2
        <4>4. f[k] = IF k = 0 THEN base ELSE step(f[k - 1], k)
          BY <2>1, <4>1
        <4> QED  BY <4>1, <4>3, <4>4
      <3> QED  BY <3>1, <3>2
    <2>3. g = [k \in 0 .. n + 1 |-> IF k = 0 THEN base ELSE step(g[k - 1], k)]
      BY <2>2
    <2> HIDE DEF g
    <2> QED  BY <2>3
  <1>4. NCells \in S
    <2> HIDE DEF S
    <2>1. 0 .. NCells \subseteq S
      <3>1. \A k \in 0 .. NCells - 1 : k \in S => k + 1 \in S
        BY <1>3, CellsAssumption
      <3>2. NCells \in Nat
        BY CellsAssumption
      <3> QED  BY <1>2, <3>1, <3>2, Induct
    <2> QED  BY <2>1, CellsAssumption
  <1>5. a = [k \in 0 .. NCells |-> IF k = 0 THEN base ELSE step(a[k - 1], k)]
    <2> HIDE DEF step, base
    <2> QED  BY <1>4
  <1> HIDE DEF a
  <1>6. a[0] = base /\ \A k \in 1 .. NCells : a[k] = step(a[k - 1], k)
    BY <1>5, CellsAssumption
  <1> QED  BY <1>1, <1>6 DEF base, step

(* The moves of a defragmentation, one by one. *)
LEMMA MvSteps ==
    ASSUME NEW c, NEW ids
    PROVE  \E a : /\ a[0] = c
                  /\ \A k \in 1 .. NCells : a[k] = IF k - 1 \in DOMAIN ids THEN Mv(a[k - 1], k - 1, ids[k - 1]) ELSE a[k - 1]
                  /\ MvLoop(c, ids) = a[NCells]
  <1> DEFINE base == c
             step(x, k) == IF k - 1 \in DOMAIN ids THEN Mv(x, k - 1, ids[k - 1]) ELSE x
             S == {n \in Nat : \E f : f = [k \in 0 .. n |->
                        IF k = 0 THEN base ELSE step(f[k - 1], k)]}
             a == CHOOSE f : f = [k \in 0 .. NCells |->
                        IF k = 0 THEN base ELSE step(f[k - 1], k)]
  <1>1. MvLoop(c, ids) = a[NCells]
    BY DEF MvLoop, Each
  <1> HIDE DEF base, step
  <1>2. 0 \in S
    <2> DEFINE f == [k \in 0 .. 0 |-> base]
    <2>1. f = [k \in 0 .. 0 |-> IF k = 0 THEN base ELSE step(f[k - 1], k)]
      OBVIOUS
    <2> HIDE DEF f
    <2> QED  BY <2>1
  <1>3. ASSUME NEW n \in Nat, n \in S  PROVE n + 1 \in S
    <2>1. PICK f : f = [k \in 0 .. n |-> IF k = 0 THEN base ELSE step(f[k - 1], k)]
      BY <1>3
    <2> DEFINE g == [k \in 0 .. n + 1 |-> IF k = n + 1 THEN step(f[n], n + 1) ELSE f[k]]
    <2>2. ASSUME NEW k \in 0 .. n + 1
          PROVE  g[k] = IF k = 0 THEN base ELSE step(g[k - 1], k)
      <3>1. CASE k = n + 1
        <4>1. (n + 1) - 1 = n /\ n \in 0 .. n + 1 /\ n # n + 1 /\ k # 0
          BY <3>1
        <4>2. g[k - 1] = f[n] /\ g[k] = step(f[n], k)
          BY <3>1, <4>1
        <4> QED  BY <4>1, <4>2
      <3>2. CASE k # n + 1
        <4>1. k \in 0 .. n /\ g[k] = f[k]
          BY <3>2
        <4>2. k # 0 => k - 1 \in 0 .. n + 1 /\ k - 1 # n + 1
          BY <4>1
        <4>3. k # 0 => g[k - 1] = f[k - 1]
          BY <4>2
        <4>4. f[k] = IF k = 0 THEN base ELSE step(f[k - 1], k)
          BY <2>1, <4>1
        <4> QED  BY <4>1, <4>3, <4>4
      <3> QED  BY <3>1, <3>2
    <2>3. g = [k \in 0 .. n + 1 |-> IF k = 0 THEN base ELSE step(g[k - 1], k)]
      BY <2>2
    <2> HIDE DEF g
    <2> QED  BY <2>3
  <1>4. NCells \in S
    <2> HIDE DEF S
    <2>1. 0 .. NCells \subseteq S
      <3>1. \A k \in 0 .. NCells - 1 : k \in S => k + 1 \in S
        BY <1>3, CellsAssumption
      <3>2. NCells \in Nat
        BY CellsAssumption
      <3> QED  BY <1>2, <3>1, <3>2, Induct
    <2> QED  BY <2>1, CellsAssumption
  <1>5. a = [k \in 0 .. NCells |-> IF k = 0 THEN base ELSE step(a[k - 1], k)]
    <2> HIDE DEF step, base
    <2> QED  BY <1>4
  <1> HIDE DEF a
  <1>6. a[0] = base /\ \A k \in 1 .. NCells : a[k] = step(a[k - 1], k)
    BY <1>5, CellsAssumption
  <1> QED  BY <1>1, <1>6 DEF base, step

(* The cells of a slot are set back one by one. *)
LEMMA BackSteps ==
    ASSUME NEW c, NEW K, NEW pos, NEW seq
    PROVE  \E a : /\ a[0] = c
                  /\ \A k \in 1 .. NCells : a[k] = IF k - 1 \in K THEN SetCell(a[k - 1], k - 1, pos[k - 1], seq[k - 1]) ELSE a[k - 1]
                  /\ BackLoop(c, K, pos, seq) = a[NCells]
  <1> DEFINE base == c
             step(x, k) == IF k - 1 \in K THEN SetCell(x, k - 1, pos[k - 1], seq[k - 1]) ELSE x
             S == {n \in Nat : \E f : f = [k \in 0 .. n |->
                        IF k = 0 THEN base ELSE step(f[k - 1], k)]}
             a == CHOOSE f : f = [k \in 0 .. NCells |->
                        IF k = 0 THEN base ELSE step(f[k - 1], k)]
  <1>1. BackLoop(c, K, pos, seq) = a[NCells]
    BY DEF BackLoop, Each
  <1> HIDE DEF base, step
  <1>2. 0 \in S
    <2> DEFINE f == [k \in 0 .. 0 |-> base]
    <2>1. f = [k \in 0 .. 0 |-> IF k = 0 THEN base ELSE step(f[k - 1], k)]
      OBVIOUS
    <2> HIDE DEF f
    <2> QED  BY <2>1
  <1>3. ASSUME NEW n \in Nat, n \in S  PROVE n + 1 \in S
    <2>1. PICK f : f = [k \in 0 .. n |-> IF k = 0 THEN base ELSE step(f[k - 1], k)]
      BY <1>3
    <2> DEFINE g == [k \in 0 .. n + 1 |-> IF k = n + 1 THEN step(f[n], n + 1) ELSE f[k]]
    <2>2. ASSUME NEW k \in 0 .. n + 1
          PROVE  g[k] = IF k = 0 THEN base ELSE step(g[k - 1], k)
      <3>1. CASE k = n + 1
        <4>1. (n + 1) - 1 = n /\ n \in 0 .. n + 1 /\ n # n + 1 /\ k # 0
          BY <3>1
        <4>2. g[k - 1] = f[n] /\ g[k] = step(f[n], k)
          BY <3>1, <4>1
        <4> QED  BY <4>1, <4>2
      <3>2. CASE k # n + 1
        <4>1. k \in 0 .. n /\ g[k] = f[k]
          BY <3>2
        <4>2. k # 0 => k - 1 \in 0 .. n + 1 /\ k - 1 # n + 1
          BY <4>1
        <4>3. k # 0 => g[k - 1] = f[k - 1]
          BY <4>2
        <4>4. f[k] = IF k = 0 THEN base ELSE step(f[k - 1], k)
          BY <2>1, <4>1
        <4> QED  BY <4>1, <4>3, <4>4
      <3> QED  BY <3>1, <3>2
    <2>3. g = [k \in 0 .. n + 1 |-> IF k = 0 THEN base ELSE step(g[k - 1], k)]
      BY <2>2
    <2> HIDE DEF g
    <2> QED  BY <2>3
  <1>4. NCells \in S
    <2> HIDE DEF S
    <2>1. 0 .. NCells \subseteq S
      <3>1. \A k \in 0 .. NCells - 1 : k \in S => k + 1 \in S
        BY <1>3, CellsAssumption
      <3>2. NCells \in Nat
        BY CellsAssumption
      <3> QED  BY <1>2, <3>1, <3>2, Induct
    <2> QED  BY <2>1, CellsAssumption
  <1>5. a = [k \in 0 .. NCells |-> IF k = 0 THEN base ELSE step(a[k - 1], k)]
    <2> HIDE DEF step, base
    <2> QED  BY <1>4
  <1> HIDE DEF a
  <1>6. a[0] = base /\ \A k \in 1 .. NCells : a[k] = step(a[k - 1], k)
    BY <1>5, CellsAssumption
  <1> QED  BY <1>1, <1>6 DEF base, step

-----------------------------------------------------------------------------
(* What the methods do to the cell they are called for, and to the others. *)

Same(c, d, i) == d.pos[i] = c.pos[i] /\ d.shift[i] = c.shift[i] /\ d.seq[i] = c.seq[i]
Others(c, d, i) == \A j \in Cells : j # i => Same(c, d, j)

(* A cell with a position belongs to a sequence: not of the methods alone, but *)
(* of the way the cache calls them.                                            *)
Owned(c) == \A i \in Cells : c.pos[i] # -1 => c.seq[i] # {}
CInv(c)  == Inv(c) /\ Owned(c)

Blanked(d, i) == d.pos[i] = -1 /\ d.shift[i] = 0 /\ d.seq[i] = {}

LEMMA EmptiedAt ==
    ASSUME NEW c \in CellsType, NEW i \in Cells, NEW sp, NEW h
    PROVE  LET d == Emptied(c, i, sp, h)
           IN  Others(c, d, i) /\ Blanked(d, i) /\ d.has_shift = h
  BY DEF Emptied, CellsType, Others, Same, Blanked

LEMMA TaggedAt ==
    ASSUME NEW c \in CellsType, NEW i \in Cells, NEW S, NEW sp
    PROVE  LET d == Tagged(c, i, S, sp)
           IN  /\ Others(c, d, i) /\ d.has_shift = c.has_shift
               /\ d.pos[i] = c.pos[i] /\ d.shift[i] = c.shift[i] /\ d.seq[i] = S
  BY DEF Tagged, CellsType, Others, Same

LEMMA MovedAt ==
    ASSUME NEW c \in CellsType, NEW i \in Cells, NEW p, NEW e
    PROVE  LET d == Moved(c, i, p, e)
           IN  /\ Others(c, d, i)
               /\ d.pos[i] = p /\ d.shift[i] = c.shift[i] + e /\ d.seq[i] = c.seq[i]
  BY DEF Moved, CellsType, Others, Same

LEMMA PosSetAt ==
    ASSUME NEW c \in CellsType, NEW i \in Cells, NEW p
    PROVE  LET d == PosSet(c, i, p)
           IN  /\ Others(c, d, i) /\ d.has_shift = c.has_shift
               /\ d.pos[i] = p /\ d.shift[i] = c.shift[i] /\ d.seq[i] = c.seq[i]
  BY DEF PosSet, CellsType, Others, Same

LEMMA SetCellAt ==
    ASSUME NEW c \in CellsType, NEW i \in Cells, NEW p, NEW S
    PROVE  LET d == SetCell(c, i, p, S)
           IN  /\ Others(c, d, i) /\ d.has_shift = c.has_shift
               /\ d.pos[i] = p /\ d.shift[i] = c.shift[i] /\ d.seq[i] = S
  BY DEF SetCell, CellsType, Others, Same

(* The invariant that the cache needs is kept if it is kept in cell i. *)
LEMMA OwnedKept ==
    ASSUME NEW c, NEW d, NEW i \in Cells, Owned(c), Others(c, d, i),
           d.pos[i] # -1 => d.seq[i] # {}
    PROVE  Owned(d)
  BY DEF Owned, Others, Same

(* Cell i loses the sequences S, and is empty when none is left. *)
RmAt(c, d, S, i) ==
    /\ d.seq[i] = c.seq[i] \ S
    /\ c.seq[i] \ S = {} => d.pos[i] = -1 /\ d.shift[i] = 0
    /\ c.seq[i] \ S # {} => d.pos[i] = c.pos[i] /\ d.shift[i] = c.shift[i]

CpAt(c, d, S, i) ==
    /\ d.pos[i] = c.pos[i] /\ d.shift[i] = c.shift[i]
    /\ d.seq[i] = c.seq[i] \cup S

KeepAt(c, d, s, i) ==
    /\ s \in c.seq[i] => d.pos[i] = c.pos[i] /\ d.shift[i] = c.shift[i] /\ d.seq[i] = {s}
    /\ s \notin c.seq[i] => Blanked(d, i)

AddAt(c, d, e, i) ==
    /\ c.pos[i] + e < 0 => Blanked(d, i)
    /\ c.pos[i] + e >= 0 => /\ d.pos[i] = c.pos[i] + e /\ d.shift[i] = c.shift[i] + e
                            /\ d.seq[i] = c.seq[i]

DivAt(c, d, e, i) == d.pos[i] = c.pos[i] \div e /\ d.seq[i] = c.seq[i]

BackAt(c, d, p, S, i) == d.pos[i] = p /\ d.seq[i] = S /\ d.shift[i] = c.shift[i]

(* A call for cell i. *)
Called(c, d, i) == CInv(d) /\ Others(c, d, i)

LEMMA PosInt ==
    ASSUME NEW c \in CellsType
    PROVE  \A i \in Cells : c.pos[i] \in Int /\ (c.pos[i] # -1 => c.pos[i] \in Nat)
  <1>1. c.pos \in [Cells -> Positions \cup {-1}]
    BY DEF CellsType
  <1>2. \A p \in Positions \cup {-1} : p \in Int /\ (p # -1 => p \in Nat)
    BY CellsAssumption
  <1> QED  BY <1>1, <1>2

LEMMA SeqRmStep ==
    ASSUME NEW c, CInv(c), NEW i \in Cells, c.pos[i] # -1, NEW S \in SUBSET c.seq[i]
    PROVE  LET d == SeqRmCell(c, i, S)
           IN  Called(c, d, i) /\ RmAt(c, d, S, i) /\ d.has_shift = c.has_shift
  <1> DEFINE sp == SeqPosBump(c.seq_pos, S, c.pos[i], -1)
             d  == SeqRmCell(c, i, S)
  <1>1. Inv(c) /\ c \in CellsType
    BY DEF CInv, Inv
  <1>2. Inv(d)
    BY <1>1, SeqRmInv
  <1>3. CASE c.seq[i] \ S = {}
    <2>1. d = Emptied(c, i, sp, c.has_shift)
      BY <1>3 DEF SeqRmCell
    <2> HIDE DEF d, sp
    <2>2. Others(c, d, i) /\ Blanked(d, i) /\ d.has_shift = c.has_shift
      BY <1>1, <2>1, EmptiedAt
    <2>3. Owned(d)
      BY <2>2, OwnedKept DEF CInv, Blanked
    <2>4. RmAt(c, d, S, i)
      BY <1>3, <2>2 DEF RmAt, Blanked
    <2> QED  BY <1>2, <2>2, <2>3, <2>4 DEF Called, CInv, d
  <1>4. CASE c.seq[i] \ S # {}
    <2>1. d = Tagged(c, i, c.seq[i] \ S, sp)
      BY <1>4 DEF SeqRmCell
    <2> HIDE DEF d, sp
    <2>2. /\ Others(c, d, i) /\ d.has_shift = c.has_shift
          /\ d.pos[i] = c.pos[i] /\ d.shift[i] = c.shift[i] /\ d.seq[i] = c.seq[i] \ S
      BY <1>1, <2>1, TaggedAt
    <2>3. Owned(d)
      BY <1>4, <2>2, OwnedKept DEF CInv
    <2>4. RmAt(c, d, S, i)
      BY <1>4, <2>2 DEF RmAt
    <2> QED  BY <1>2, <2>2, <2>3, <2>4 DEF Called, CInv, d
  <1> QED  BY <1>3, <1>4

LEMMA SeqAddStep ==
    ASSUME NEW c, Inv(c), NEW i \in Cells, c.pos[i] # -1,
           NEW S \in SUBSET Seqs, c.seq[i] \cap S = {}
    PROVE  LET d == SeqAddCell(c, i, S)
           IN  Inv(d) /\ Others(c, d, i) /\ CpAt(c, d, S, i) /\ d.has_shift = c.has_shift
  <1> DEFINE d == SeqAddCell(c, i, S)
  <1>1. Inv(d) /\ c \in CellsType
    BY SeqAddInv DEF Inv
  <1>2. Others(c, d, i) /\ CpAt(c, d, S, i) /\ d.has_shift = c.has_shift
    BY <1>1, TaggedAt DEF SeqAddCell, CpAt
  <1> QED  BY <1>1, <1>2

LEMMA SeqKeepStep ==
    ASSUME NEW c, CInv(c), NEW i \in Cells, NEW s \in Seqs
    PROVE  LET d == SeqKeepCell(c, i, s)
           IN  Called(c, d, i) /\ KeepAt(c, d, s, i) /\ d.has_shift = c.has_shift
  <1> DEFINE d == SeqKeepCell(c, i, s)
  <1>1. Inv(c) /\ c \in CellsType /\ Owned(c)
    BY DEF CInv, Inv
  <1>2. Inv(d)
    BY <1>1, SeqKeepInv
  <1>3. CASE s \in c.seq[i]
    <2> DEFINE sp == SeqPosBump(c.seq_pos, c.seq[i] \ {s}, c.pos[i], -1)
    <2>1. d = Tagged(c, i, {s}, sp)
      BY <1>3 DEF SeqKeepCell, SeqHas
    <2> HIDE DEF d, sp
    <2>2. /\ Others(c, d, i) /\ d.has_shift = c.has_shift
          /\ d.pos[i] = c.pos[i] /\ d.shift[i] = c.shift[i] /\ d.seq[i] = {s}
      BY <1>1, <2>1, TaggedAt
    <2>3. Owned(d)
      BY <1>1, <2>2, OwnedKept
    <2>4. KeepAt(c, d, s, i)
      BY <1>3, <2>2 DEF KeepAt
    <2> QED  BY <1>2, <2>2, <2>3, <2>4 DEF Called, CInv, d
  <1>4. CASE s \notin c.seq[i] /\ c.seq[i] # {}
    <2> DEFINE sp == SeqPosBump(c.seq_pos, c.seq[i], c.pos[i], -1)
    <2>1. d = Emptied(c, i, sp, c.has_shift)
      BY <1>4 DEF SeqKeepCell, SeqHas, RmCell
    <2> HIDE DEF d, sp
    <2>2. Others(c, d, i) /\ Blanked(d, i) /\ d.has_shift = c.has_shift
      BY <1>1, <2>1, EmptiedAt
    <2>3. Owned(d)
      BY <1>1, <2>2, OwnedKept DEF Blanked
    <2>4. KeepAt(c, d, s, i)
      BY <1>4, <2>2 DEF KeepAt
    <2> QED  BY <1>2, <2>2, <2>3, <2>4 DEF Called, CInv, d
  <1>5. CASE c.seq[i] = {}
    <2>1. d = c
      BY <1>5 DEF SeqKeepCell, SeqHas
    <2> HIDE DEF d
    <2>2. Blanked(c, i)
      BY <1>1, <1>5 DEF Owned, Inv, Used, Blanked
    <2>3. KeepAt(c, d, s, i) /\ Others(c, d, i)
      BY <1>5, <2>1, <2>2 DEF KeepAt, Others, Same
    <2> QED  BY <1>1, <2>1, <2>3 DEF Called, CInv, d
  <1> QED  BY <1>3, <1>4, <1>5

LEMMA PosAddStep ==
    ASSUME NEW c, CInv(c), NEW i \in Cells, c.pos[i] # -1, NEW e \in Int,
           c.pos[i] + e < 0 \/ c.pos[i] + e \in Positions
    PROVE  LET d == PosAdd(c, i, e) IN Called(c, d, i) /\ AddAt(c, d, e, i)
  <1> DEFINE d == PosAdd(c, i, e)
  <1>0. Inv(c) /\ c \in CellsType /\ Owned(c)
    BY DEF CInv, Inv
  <1>1. Inv(c) /\ c \in CellsType /\ Owned(c) /\ c.pos[i] \in Int
    BY <1>0, PosInt
  <1>2. CASE c.pos[i] + e < 0
    <2> DEFINE sp == SeqPosBump(c.seq_pos, c.seq[i], c.pos[i], -1)
    <2>1. d = Emptied(c, i, sp, TRUE)
      BY <1>2 DEF PosAdd
    <2>2. Inv(Emptied(c, i, sp, TRUE))
      BY <1>1, EmptiedInv
    <2> HIDE DEF d, sp
    <2>3. Others(c, d, i) /\ Blanked(d, i)
      BY <1>1, <2>1, EmptiedAt
    <2>4. Owned(d)
      BY <1>1, <2>3, OwnedKept DEF Blanked
    <2>5. AddAt(c, d, e, i)
      BY <1>1, <1>2, <2>3 DEF AddAt
    <2> QED  BY <2>1, <2>2, <2>3, <2>4, <2>5 DEF Called, CInv, d
  <1>3. CASE ~(c.pos[i] + e < 0)
    <2>1. d = Moved(c, i, c.pos[i] + e, e)
      BY <1>3 DEF PosAdd
    <2>2. Inv(Moved(c, i, c.pos[i] + e, e))
      BY <1>1, <1>3, MovedInv
    <2> HIDE DEF d
    <2>3. /\ Others(c, d, i)
          /\ d.pos[i] = c.pos[i] + e /\ d.shift[i] = c.shift[i] + e /\ d.seq[i] = c.seq[i]
      BY <1>1, <2>1, MovedAt
    <2>4. Owned(d)
      BY <1>1, <2>3, OwnedKept DEF Owned
    <2>5. AddAt(c, d, e, i)
      BY <1>1, <1>3, <2>3 DEF AddAt
    <2> QED  BY <2>1, <2>2, <2>3, <2>4, <2>5 DEF Called, CInv, d
  <1> QED  BY <1>2, <1>3

LEMMA PosDivStep ==
    ASSUME NEW c, CInv(c), NEW i \in Cells, c.pos[i] # -1, NEW e \in Nat \ {0},
           c.pos[i] \div e \in Positions
    PROVE  LET d == PosDiv(c, i, e) IN Called(c, d, i) /\ DivAt(c, d, e, i)
  <1> DEFINE d == PosDiv(c, i, e)
             p == c.pos[i] \div e
  <1>0. Inv(c) /\ c \in CellsType /\ Owned(c)
    BY DEF CInv, Inv
  <1>1. Inv(c) /\ c \in CellsType /\ Owned(c) /\ c.pos[i] \in Int /\ p \in Int
    BY <1>0, PosInt
  <1>2. d = Moved(c, i, p, c.pos[i] - p) /\ c.pos[i] - p \in Int
    BY <1>1 DEF PosDiv
  <1> HIDE DEF d
  <1>3. p \in Positions
    OBVIOUS
  <1> HIDE DEF p
  <1>4. Inv(d)
    BY <1>1, <1>2, <1>3, MovedInv
  <1>5. Others(c, d, i) /\ d.pos[i] = p /\ d.seq[i] = c.seq[i]
    BY <1>1, <1>2, MovedAt
  <1>6. Owned(d)
    BY <1>1, <1>5, OwnedKept DEF Owned
  <1> QED  BY <1>4, <1>5, <1>6 DEF Called, CInv, d, p, DivAt

LEMMA SetCellStep ==
    ASSUME NEW c, CInv(c), NEW i \in Cells, c.shift[i] = 0,
           NEW p \in Positions \cup {-1}, NEW S \in SUBSET Seqs, p = -1 <=> S = {}
    PROVE  LET d == SetCell(c, i, p, S)
           IN  Called(c, d, i) /\ BackAt(c, d, p, S, i) /\ d.has_shift = c.has_shift
  <1> DEFINE d == SetCell(c, i, p, S)
  <1>1. Inv(c) /\ c \in CellsType /\ Owned(c)
    BY DEF CInv, Inv
  <1>2. Inv(d)
    BY <1>1, SetInv
  <1>3. /\ Others(c, d, i) /\ d.has_shift = c.has_shift
        /\ d.pos[i] = p /\ d.shift[i] = c.shift[i] /\ d.seq[i] = S
    BY <1>1, SetCellAt
  <1> HIDE DEF d
  <1>4. Owned(d)
    BY <1>1, <1>3, OwnedKept
  <1> QED  BY <1>2, <1>3, <1>4 DEF Called, CInv, d, BackAt

(* A token is placed in a cell. *)
PlacedAt(d, t, i) == d.pos[i] = t.pos /\ d.seq[i] = t.seqs /\ d.shift[i] = 0

LEMMA PlaceStep ==
    ASSUME NEW c, CInv(c), NEW i \in Cells, NEW t, t.pos \in Positions,
           t.seqs \in SUBSET Seqs, t.seqs # {}
    PROVE  LET d == Place(c, i, t)
           IN  Called(c, d, i) /\ PlacedAt(d, t, i) /\ d.has_shift = c.has_shift
  <1> DEFINE x == IF IsEmpty(c, i) THEN c ELSE RmCell(c, i)
             y == PosSet(x, i, t.pos)
             d == SeqAddCell(y, i, t.seqs)
  <1>1. Inv(c) /\ c \in CellsType /\ Owned(c)
    BY DEF CInv, Inv
  <1>2. Inv(x) /\ Others(c, x, i) /\ Blanked(x, i) /\ x.has_shift = c.has_shift
    <2>1. CASE c.pos[i] = -1
      <3>1. x = c
        BY <2>1 DEF IsEmpty
      <3>2. Blanked(c, i)
        BY <1>1, <2>1 DEF Inv, Used, Blanked
      <3> QED  BY <1>1, <3>1, <3>2 DEF Others, Same
    <2>2. CASE c.pos[i] # -1
      <3> DEFINE sp == SeqPosBump(c.seq_pos, c.seq[i], c.pos[i], -1)
      <3>1. x = Emptied(c, i, sp, c.has_shift)
        BY <2>2 DEF IsEmpty, RmCell
      <3>2. c.has_shift \in {c.has_shift, TRUE}
        OBVIOUS
      <3>3. Inv(Emptied(c, i, sp, c.has_shift))
        BY <1>1, <3>2, EmptiedInv
      <3> HIDE DEF sp, x
      <3>4. Others(c, x, i) /\ Blanked(x, i) /\ x.has_shift = c.has_shift
        BY <1>1, <3>1, EmptiedAt
      <3> QED  BY <3>1, <3>3, <3>4
    <2> QED  BY <2>1, <2>2
  <1> HIDE DEF x
  <1>3. Inv(y)
    BY <1>2, PosSetInv DEF Blanked
  <1>4. /\ Others(x, y, i) /\ y.has_shift = x.has_shift
        /\ y.pos[i] = t.pos /\ y.shift[i] = 0 /\ y.seq[i] = {}
    BY <1>2, PosSetAt DEF Blanked, Inv
  <1> HIDE DEF y
  <1>5. y.pos[i] # -1 /\ y.seq[i] \cap t.seqs = {}
    BY <1>4, CellsAssumption
  <1>6. Inv(d) /\ Others(y, d, i) /\ CpAt(y, d, t.seqs, i) /\ d.has_shift = y.has_shift
    BY <1>3, <1>5, SeqAddStep
  <1>7. d = Place(c, i, t)
    BY DEF Place, x, y
  <1> HIDE DEF d
  <1>8. PlacedAt(d, t, i) /\ d.has_shift = c.has_shift
    BY <1>2, <1>4, <1>6 DEF CpAt, PlacedAt
  <1>9. Others(c, d, i)
    BY <1>2, <1>4, <1>6 DEF Others, Same
  <1>10. Owned(d)
    BY <1>1, <1>8, <1>9, OwnedKept DEF PlacedAt
  <1> QED  BY <1>6, <1>7, <1>8, <1>9, <1>10 DEF Called, CInv

-----------------------------------------------------------------------------
(* What the loops do to every cell. *)

LEMMA RmFacts ==
    ASSUME NEW c, CInv(c), NEW R, \A i \in Cells : R[i] \in SUBSET c.seq[i]
    PROVE  LET d == RmLoop(c, R)
           IN  CInv(d) /\ (\A i \in Cells : RmAt(c, d, R[i], i)) /\ d.has_shift = c.has_shift
  <1> DEFINE Done(x, n) == /\ CInv(x) /\ x.has_shift = c.has_shift
                           /\ \A i \in Cells : i < n => RmAt(c, x, R[i], i)
                           /\ \A i \in Cells : i >= n => Same(c, x, i)
  <1>1. PICK a : /\ a[0] = c
                 /\ \A k \in 1 .. NCells : a[k] = IF k - 1 \in {i \in Cells : R[i] # {}} THEN SeqRmCell(a[k - 1], k - 1, R[k - 1]) ELSE a[k - 1]
                 /\ RmLoop(c, R) = a[NCells]
    BY RmSteps
  <1> DEFINE S == {n \in 0 .. NCells : Done(a[n], n)}
  <1>2. 0 \in S
    <2>1. Done(c, 0)
      BY CellsAssumption DEF Same, Cells
    <2> HIDE DEF Done
    <2> QED  BY <1>1, <2>1, CellsAssumption
  <1>3. ASSUME NEW n \in 0 .. NCells - 1, n \in S  PROVE n + 1 \in S
    <2> DEFINE x == a[n]
               d == a[n + 1]
    <2>1. n \in Cells /\ n + 1 \in 1 .. NCells /\ (n + 1) - 1 = n
      BY CellsAssumption DEF Cells
    <2>2. d = IF n \in {i \in Cells : R[i] # {}} THEN SeqRmCell(x, n, R[n]) ELSE x
      BY <1>1, <2>1
    <2>3. Done(x, n)
      BY <1>3
    <2> HIDE DEF d, x
    <2>4. CInv(x) /\ Same(c, x, n)
      BY <2>1, <2>3, CellsAssumption DEF Cells
    <2>5. CASE n \in {i \in Cells : R[i] # {}}
      <3>0. x.pos[n] # -1 /\ R[n] \in SUBSET x.seq[n] /\ d = SeqRmCell(x, n, R[n])
        <4>1. R[n] # {} /\ R[n] \in SUBSET x.seq[n]
          BY <2>1, <2>4, <2>5 DEF Same
        <4> QED  BY <2>1, <2>2, <2>4, <2>5, <4>1 DEF CInv, Inv, Used
      <3>1. Called(x, d, n) /\ RmAt(x, d, R[n], n) /\ d.has_shift = x.has_shift
        BY <2>1, <2>4, <3>0, SeqRmStep
      <3>2. RmAt(c, d, R[n], n)
        BY <2>4, <3>1 DEF RmAt, Same
      <3>5. \A i \in Cells : i < n + 1 => i < n \/ i = n
        BY <2>1 DEF Cells
      <3>6. \A i \in Cells : i >= n + 1 => i >= n /\ i # n
        BY <2>1 DEF Cells
      <3>7. \A i \in Cells : i < n => i # n
        BY <2>1 DEF Cells
      <3>8. \A i \in Cells : i < n => RmAt(c, d, R[i], i)
        BY <2>3, <3>1, <3>7 DEF Called, Others, Same, RmAt
      <3>9. \A i \in Cells : i >= n + 1 => Same(c, d, i)
        BY <2>3, <3>1, <3>6 DEF Called, Others, Same
      <3>10. Done(d, n + 1)
        BY <2>3, <3>1, <3>2, <3>5, <3>8, <3>9 DEF Called
      <3> HIDE DEF Done
      <3> QED  BY <2>1, <3>10 DEF d
    <2>6. CASE n \notin {i \in Cells : R[i] # {}}
      <3>1. d = x
        BY <2>2, <2>6
      <3>2. RmAt(c, x, R[n], n)
        <4>1. n \notin Cells => FALSE
          BY <2>1
        <4>2. x.seq[n] = {} => x.pos[n] = -1 /\ x.shift[n] = 0
          BY <2>1, <2>4 DEF CInv, Inv, Used, Owned
        <4> QED  BY <2>1, <2>4, <2>6, <4>1, <4>2 DEF Same, RmAt
      <3>3. \A i \in Cells : i < n + 1 => i < n \/ i = n
        BY <2>1 DEF Cells
      <3>4. \A i \in Cells : i >= n + 1 => i >= n
        BY <2>1 DEF Cells
      <3>5. Done(x, n + 1)
        BY <2>3, <3>2, <3>3, <3>4
      <3> HIDE DEF Done
      <3> QED  BY <2>1, <3>1, <3>5 DEF d
    <2> QED  BY <2>5, <2>6
  <1>4. 0 .. NCells \subseteq S
    <2> HIDE DEF S
    <2> QED  BY <1>2, <1>3, Induct, CellsAssumption
  <1>5. Done(a[NCells], NCells)
    <2> HIDE DEF Done
    <2> QED  BY <1>4, CellsAssumption
  <1>6. \A i \in Cells : i < NCells
    BY CellsAssumption DEF Cells
  <1> QED  BY <1>1, <1>5, <1>6

LEMMA CpFacts ==
    ASSUME NEW c, CInv(c), NEW s \in Seqs, NEW K \in SUBSET Cells, \A i \in K : c.pos[i] # -1 /\ s \notin c.seq[i]
    PROVE  LET d == CpLoop(c, s, K)
           IN  CInv(d) /\ (\A i \in Cells : CpAt(c, d, IF i \in K THEN {s} ELSE {}, i)) /\ d.has_shift = c.has_shift
  <1> DEFINE Done(x, n) == /\ CInv(x) /\ x.has_shift = c.has_shift
                           /\ \A i \in Cells : i < n => CpAt(c, x, IF i \in K THEN {s} ELSE {}, i)
                           /\ \A i \in Cells : i >= n => Same(c, x, i)
  <1>0. PICK a : CpRun(a, c, s, K)
    BY CpSteps, Zenon
  <1>1. /\ a[0] = c
        /\ \A k \in 1 .. NCells : a[k] = IF k - 1 \in K THEN SeqAddCell(a[k - 1], k - 1, {s}) ELSE a[k - 1]
        /\ CpLoop(c, s, K) = a[NCells]
    BY <1>0, Zenon DEF CpRun
  <1> DEFINE S == {n \in 0 .. NCells : Done(a[n], n)}
  <1>2. 0 \in S
    <2>1. Done(c, 0)
      BY CellsAssumption DEF Same, Cells
    <2> HIDE DEF Done
    <2> QED  BY <1>1, <2>1, CellsAssumption
  <1>3. ASSUME NEW n \in 0 .. NCells - 1, n \in S  PROVE n + 1 \in S
    <2> DEFINE x == a[n]
               d == a[n + 1]
    <2>1. n \in Cells /\ n + 1 \in 1 .. NCells /\ (n + 1) - 1 = n
      BY CellsAssumption DEF Cells
    <2>2. d = IF n \in K THEN SeqAddCell(x, n, {s}) ELSE x
      BY <1>1, <2>1
    <2>3. Done(x, n)
      BY <1>3
    <2> HIDE DEF d, x
    <2>4. CInv(x) /\ Same(c, x, n)
      BY <2>1, <2>3, CellsAssumption DEF Cells
    <2>5. CASE n \in K
      <3>0. x.pos[n] # -1 /\ x.seq[n] \cap {s} = {} /\ Inv(x) /\ d = SeqAddCell(x, n, {s})
        BY <2>2, <2>4, <2>5 DEF Same, CInv
      <3>a. Inv(d) /\ Others(x, d, n) /\ CpAt(x, d, {s}, n) /\ d.has_shift = x.has_shift
        BY <2>1, <3>0, SeqAddStep
      <3>b. Owned(d)
        BY <2>1, <2>4, <3>a, OwnedKept DEF CInv, CpAt
      <3>1. Called(x, d, n) /\ d.has_shift = x.has_shift
        BY <3>a, <3>b DEF Called, CInv
      <3>2. CpAt(c, d, IF n \in K THEN {s} ELSE {}, n)
        BY <2>4, <2>5, <3>a DEF CpAt, Same
      <3>5. \A i \in Cells : i < n + 1 => i < n \/ i = n
        BY <2>1 DEF Cells
      <3>6. \A i \in Cells : i >= n + 1 => i >= n /\ i # n
        BY <2>1 DEF Cells
      <3>7. \A i \in Cells : i < n => i # n
        BY <2>1 DEF Cells
      <3>8. \A i \in Cells : i < n => CpAt(c, d, IF i \in K THEN {s} ELSE {}, i)
        BY <2>3, <3>1, <3>7 DEF Called, Others, Same, CpAt
      <3>9. \A i \in Cells : i >= n + 1 => Same(c, d, i)
        BY <2>3, <3>1, <3>6 DEF Called, Others, Same
      <3>10. Done(d, n + 1)
        BY <2>3, <3>1, <3>2, <3>5, <3>8, <3>9 DEF Called
      <3> HIDE DEF Done
      <3> QED  BY <2>1, <3>10 DEF d
    <2>6. CASE n \notin K
      <3>1. d = x
        BY <2>2, <2>6
      <3>2. CpAt(c, x, IF n \in K THEN {s} ELSE {}, n)
        <4>1. n \notin Cells => FALSE
          BY <2>1
        <4>2. x.seq[n] = {} => x.pos[n] = -1 /\ x.shift[n] = 0
          BY <2>1, <2>4 DEF CInv, Inv, Used, Owned
        <4> QED  BY <2>1, <2>4, <2>6, <4>1, <4>2 DEF Same, CpAt
      <3>3. \A i \in Cells : i < n + 1 => i < n \/ i = n
        BY <2>1 DEF Cells
      <3>4. \A i \in Cells : i >= n + 1 => i >= n
        BY <2>1 DEF Cells
      <3>5. Done(x, n + 1)
        BY <2>3, <3>2, <3>3, <3>4
      <3> HIDE DEF Done
      <3> QED  BY <2>1, <3>1, <3>5 DEF d
    <2> QED  BY <2>5, <2>6
  <1>4. 0 .. NCells \subseteq S
    <2> HIDE DEF S
    <2> QED  BY <1>2, <1>3, Induct, CellsAssumption
  <1>5. Done(a[NCells], NCells)
    <2> HIDE DEF Done
    <2> QED  BY <1>4, CellsAssumption
  <1>6. \A i \in Cells : i < NCells
    BY CellsAssumption DEF Cells
  <1> QED  BY <1>1, <1>5, <1>6

LEMMA KeepFacts ==
    ASSUME NEW c, CInv(c), NEW s \in Seqs
    PROVE  LET d == KeepLoop(c, s)
           IN  CInv(d) /\ (\A i \in Cells : KeepAt(c, d, s, i)) /\ d.has_shift = c.has_shift
  <1> DEFINE Done(x, n) == /\ CInv(x) /\ x.has_shift = c.has_shift
                           /\ \A i \in Cells : i < n => KeepAt(c, x, s, i)
                           /\ \A i \in Cells : i >= n => Same(c, x, i)
  <1>1. PICK a : /\ a[0] = c
                 /\ \A k \in 1 .. NCells : a[k] = IF k - 1 \in Cells THEN SeqKeepCell(a[k - 1], k - 1, s) ELSE a[k - 1]
                 /\ KeepLoop(c, s) = a[NCells]
    BY KeepSteps
  <1> DEFINE S == {n \in 0 .. NCells : Done(a[n], n)}
  <1>2. 0 \in S
    <2>1. Done(c, 0)
      BY CellsAssumption DEF Same, Cells
    <2> HIDE DEF Done
    <2> QED  BY <1>1, <2>1, CellsAssumption
  <1>3. ASSUME NEW n \in 0 .. NCells - 1, n \in S  PROVE n + 1 \in S
    <2> DEFINE x == a[n]
               d == a[n + 1]
    <2>1. n \in Cells /\ n + 1 \in 1 .. NCells /\ (n + 1) - 1 = n
      BY CellsAssumption DEF Cells
    <2>2. d = IF n \in Cells THEN SeqKeepCell(x, n, s) ELSE x
      BY <1>1, <2>1
    <2>3. Done(x, n)
      BY <1>3
    <2> HIDE DEF d, x
    <2>4. CInv(x) /\ Same(c, x, n)
      BY <2>1, <2>3, CellsAssumption DEF Cells
    <2>5. CASE n \in Cells
      <3>1. Called(x, d, n) /\ KeepAt(x, d, s, n) /\ d.has_shift = x.has_shift
        BY <2>1, <2>2, <2>4, SeqKeepStep
      <3>2. KeepAt(c, d, s, n)
        BY <2>4, <3>1 DEF KeepAt, Same
      <3>5. \A i \in Cells : i < n + 1 => i < n \/ i = n
        BY <2>1 DEF Cells
      <3>6. \A i \in Cells : i >= n + 1 => i >= n /\ i # n
        BY <2>1 DEF Cells
      <3>7. \A i \in Cells : i < n => i # n
        BY <2>1 DEF Cells
      <3>8. \A i \in Cells : i < n => KeepAt(c, d, s, i)
        BY <2>3, <3>1, <3>7 DEF Called, Others, Same, KeepAt, Blanked
      <3>9. \A i \in Cells : i >= n + 1 => Same(c, d, i)
        BY <2>3, <3>1, <3>6 DEF Called, Others, Same
      <3>10. Done(d, n + 1)
        BY <2>3, <3>1, <3>2, <3>5, <3>8, <3>9 DEF Called
      <3> HIDE DEF Done
      <3> QED  BY <2>1, <3>10 DEF d
    <2>6. CASE n \notin Cells
      <3>1. d = x
        BY <2>2, <2>6
      <3>2. KeepAt(c, x, s, n)
        <4>1. n \notin Cells => FALSE
          BY <2>1
        <4>2. x.seq[n] = {} => x.pos[n] = -1 /\ x.shift[n] = 0
          BY <2>1, <2>4 DEF CInv, Inv, Used, Owned
        <4> QED  BY <2>1, <2>4, <2>6, <4>1, <4>2 DEF Same, KeepAt, Blanked
      <3>3. \A i \in Cells : i < n + 1 => i < n \/ i = n
        BY <2>1 DEF Cells
      <3>4. \A i \in Cells : i >= n + 1 => i >= n
        BY <2>1 DEF Cells
      <3>5. Done(x, n + 1)
        BY <2>3, <3>2, <3>3, <3>4
      <3> HIDE DEF Done
      <3> QED  BY <2>1, <3>1, <3>5 DEF d
    <2> QED  BY <2>5, <2>6
  <1>4. 0 .. NCells \subseteq S
    <2> HIDE DEF S
    <2> QED  BY <1>2, <1>3, Induct, CellsAssumption
  <1>5. Done(a[NCells], NCells)
    <2> HIDE DEF Done
    <2> QED  BY <1>4, CellsAssumption
  <1>6. \A i \in Cells : i < NCells
    BY CellsAssumption DEF Cells
  <1> QED  BY <1>1, <1>5, <1>6

LEMMA AddFacts ==
    ASSUME NEW c, CInv(c), NEW e \in Int, NEW K \in SUBSET Cells,
           \A i \in K : c.pos[i] # -1 /\ (c.pos[i] + e < 0 \/ c.pos[i] + e \in Positions)
    PROVE  LET d == AddLoop(c, e, K)
           IN  CInv(d) /\ (\A i \in Cells : (IF i \in K THEN AddAt(c, d, e, i) ELSE Same(c, d, i)))
  <1> DEFINE Done(x, n) == /\ CInv(x)
                           /\ \A i \in Cells : i < n => (IF i \in K THEN AddAt(c, x, e, i) ELSE Same(c, x, i))
                           /\ \A i \in Cells : i >= n => Same(c, x, i)
  <1>1. PICK a : /\ a[0] = c
                 /\ \A k \in 1 .. NCells : a[k] = IF k - 1 \in K THEN PosAdd(a[k - 1], k - 1, e) ELSE a[k - 1]
                 /\ AddLoop(c, e, K) = a[NCells]
    BY AddSteps
  <1> DEFINE S == {n \in 0 .. NCells : Done(a[n], n)}
  <1>2. 0 \in S
    <2>1. Done(c, 0)
      BY CellsAssumption DEF Same, Cells
    <2> HIDE DEF Done
    <2> QED  BY <1>1, <2>1, CellsAssumption
  <1>3. ASSUME NEW n \in 0 .. NCells - 1, n \in S  PROVE n + 1 \in S
    <2> DEFINE x == a[n]
               d == a[n + 1]
    <2>1. n \in Cells /\ n + 1 \in 1 .. NCells /\ (n + 1) - 1 = n
      BY CellsAssumption DEF Cells
    <2>2. d = IF n \in K THEN PosAdd(x, n, e) ELSE x
      BY <1>1, <2>1
    <2>3. Done(x, n)
      BY <1>3
    <2> HIDE DEF d, x
    <2>4. CInv(x) /\ Same(c, x, n)
      BY <2>1, <2>3, CellsAssumption DEF Cells
    <2>5. CASE n \in K
      <3>0. x.pos[n] # -1 /\ (x.pos[n] + e < 0 \/ x.pos[n] + e \in Positions) /\ d = PosAdd(x, n, e)
        BY <2>2, <2>4, <2>5 DEF Same
      <3>1. Called(x, d, n) /\ AddAt(x, d, e, n)
        BY <2>1, <2>4, <3>0, PosAddStep
      <3>2. IF n \in K THEN AddAt(c, d, e, n) ELSE Same(c, d, n)
        BY <2>4, <2>5, <3>1 DEF AddAt, Same
      <3>5. \A i \in Cells : i < n + 1 => i < n \/ i = n
        BY <2>1 DEF Cells
      <3>6. \A i \in Cells : i >= n + 1 => i >= n /\ i # n
        BY <2>1 DEF Cells
      <3>7. \A i \in Cells : i < n => i # n
        BY <2>1 DEF Cells
      <3>8. \A i \in Cells : i < n => (IF i \in K THEN AddAt(c, d, e, i) ELSE Same(c, d, i))
        BY <2>3, <3>1, <3>7 DEF Called, Others, Same, AddAt, Blanked
      <3>9. \A i \in Cells : i >= n + 1 => Same(c, d, i)
        BY <2>3, <3>1, <3>6 DEF Called, Others, Same
      <3>10. Done(d, n + 1)
        BY <2>3, <3>1, <3>2, <3>5, <3>8, <3>9 DEF Called
      <3> HIDE DEF Done
      <3> QED  BY <2>1, <3>10 DEF d
    <2>6. CASE n \notin K
      <3>1. d = x
        BY <2>2, <2>6
      <3>2. (IF n \in K THEN AddAt(c, x, e, n) ELSE Same(c, x, n))
        <4>1. n \notin Cells => FALSE
          BY <2>1
        <4>2. x.seq[n] = {} => x.pos[n] = -1 /\ x.shift[n] = 0
          BY <2>1, <2>4 DEF CInv, Inv, Used, Owned
        <4> QED  BY <2>1, <2>4, <2>6, <4>1, <4>2 DEF Same, AddAt, Blanked
      <3>3. \A i \in Cells : i < n + 1 => i < n \/ i = n
        BY <2>1 DEF Cells
      <3>4. \A i \in Cells : i >= n + 1 => i >= n
        BY <2>1 DEF Cells
      <3>5. Done(x, n + 1)
        BY <2>3, <3>2, <3>3, <3>4
      <3> HIDE DEF Done
      <3> QED  BY <2>1, <3>1, <3>5 DEF d
    <2> QED  BY <2>5, <2>6
  <1>4. 0 .. NCells \subseteq S
    <2> HIDE DEF S
    <2> QED  BY <1>2, <1>3, Induct, CellsAssumption
  <1>5. Done(a[NCells], NCells)
    <2> HIDE DEF Done
    <2> QED  BY <1>4, CellsAssumption
  <1>6. \A i \in Cells : i < NCells
    BY CellsAssumption DEF Cells
  <1> QED  BY <1>1, <1>5, <1>6

LEMMA DivFacts ==
    ASSUME NEW c, CInv(c), NEW e \in Nat \ {0}, NEW K \in SUBSET Cells,
           \A i \in K : c.pos[i] # -1 /\ c.pos[i] \div e \in Positions
    PROVE  LET d == DivLoop(c, e, K)
           IN  CInv(d) /\ (\A i \in Cells : (IF i \in K THEN DivAt(c, d, e, i) ELSE Same(c, d, i)))
  <1> DEFINE Done(x, n) == /\ CInv(x)
                           /\ \A i \in Cells : i < n => (IF i \in K THEN DivAt(c, x, e, i) ELSE Same(c, x, i))
                           /\ \A i \in Cells : i >= n => Same(c, x, i)
  <1>1. PICK a : /\ a[0] = c
                 /\ \A k \in 1 .. NCells : a[k] = IF k - 1 \in K THEN PosDiv(a[k - 1], k - 1, e) ELSE a[k - 1]
                 /\ DivLoop(c, e, K) = a[NCells]
    BY DivSteps
  <1> DEFINE S == {n \in 0 .. NCells : Done(a[n], n)}
  <1>2. 0 \in S
    <2>1. Done(c, 0)
      BY CellsAssumption DEF Same, Cells
    <2> HIDE DEF Done
    <2> QED  BY <1>1, <2>1, CellsAssumption
  <1>3. ASSUME NEW n \in 0 .. NCells - 1, n \in S  PROVE n + 1 \in S
    <2> DEFINE x == a[n]
               d == a[n + 1]
    <2>1. n \in Cells /\ n + 1 \in 1 .. NCells /\ (n + 1) - 1 = n
      BY CellsAssumption DEF Cells
    <2>2. d = IF n \in K THEN PosDiv(x, n, e) ELSE x
      BY <1>1, <2>1
    <2>3. Done(x, n)
      BY <1>3
    <2> HIDE DEF d, x
    <2>4. CInv(x) /\ Same(c, x, n)
      BY <2>1, <2>3, CellsAssumption DEF Cells
    <2>5. CASE n \in K
      <3>0. x.pos[n] # -1 /\ x.pos[n] \div e \in Positions /\ d = PosDiv(x, n, e)
        BY <2>2, <2>4, <2>5 DEF Same
      <3>1. Called(x, d, n) /\ DivAt(x, d, e, n)
        BY <2>1, <2>4, <3>0, PosDivStep
      <3>2. IF n \in K THEN DivAt(c, d, e, n) ELSE Same(c, d, n)
        BY <2>4, <2>5, <3>1 DEF DivAt, Same
      <3>5. \A i \in Cells : i < n + 1 => i < n \/ i = n
        BY <2>1 DEF Cells
      <3>6. \A i \in Cells : i >= n + 1 => i >= n /\ i # n
        BY <2>1 DEF Cells
      <3>7. \A i \in Cells : i < n => i # n
        BY <2>1 DEF Cells
      <3>8. \A i \in Cells : i < n => (IF i \in K THEN DivAt(c, d, e, i) ELSE Same(c, d, i))
        BY <2>3, <3>1, <3>7 DEF Called, Others, Same, DivAt
      <3>9. \A i \in Cells : i >= n + 1 => Same(c, d, i)
        BY <2>3, <3>1, <3>6 DEF Called, Others, Same
      <3>10. Done(d, n + 1)
        BY <2>3, <3>1, <3>2, <3>5, <3>8, <3>9 DEF Called
      <3> HIDE DEF Done
      <3> QED  BY <2>1, <3>10 DEF d
    <2>6. CASE n \notin K
      <3>1. d = x
        BY <2>2, <2>6
      <3>2. (IF n \in K THEN DivAt(c, x, e, n) ELSE Same(c, x, n))
        <4>1. n \notin Cells => FALSE
          BY <2>1
        <4>2. x.seq[n] = {} => x.pos[n] = -1 /\ x.shift[n] = 0
          BY <2>1, <2>4 DEF CInv, Inv, Used, Owned
        <4> QED  BY <2>1, <2>4, <2>6, <4>1, <4>2 DEF Same, DivAt
      <3>3. \A i \in Cells : i < n + 1 => i < n \/ i = n
        BY <2>1 DEF Cells
      <3>4. \A i \in Cells : i >= n + 1 => i >= n
        BY <2>1 DEF Cells
      <3>5. Done(x, n + 1)
        BY <2>3, <3>2, <3>3, <3>4
      <3> HIDE DEF Done
      <3> QED  BY <2>1, <3>1, <3>5 DEF d
    <2> QED  BY <2>5, <2>6
  <1>4. 0 .. NCells \subseteq S
    <2> HIDE DEF S
    <2> QED  BY <1>2, <1>3, Induct, CellsAssumption
  <1>5. Done(a[NCells], NCells)
    <2> HIDE DEF Done
    <2> QED  BY <1>4, CellsAssumption
  <1>6. \A i \in Cells : i < NCells
    BY CellsAssumption DEF Cells
  <1> QED  BY <1>1, <1>5, <1>6

(* The cells K can be set back to the positions pos and the sequences seq. *)
BackOK(c, K, pos, seq) ==
    \A i \in K : /\ c.shift[i] = 0 /\ pos[i] \in Positions \cup {-1}
                /\ seq[i] \in SUBSET Seqs /\ (pos[i] = -1 <=> seq[i] = {})
BackTo(c, d, K, pos, seq) ==
    /\ CInv(d) /\ d.has_shift = c.has_shift
    /\ \A i \in Cells : IF i \in K THEN BackAt(c, d, pos[i], seq[i], i) ELSE Same(c, d, i)

LEMMA BackFacts ==
    ASSUME NEW c, CInv(c), NEW K \in SUBSET Cells, NEW pos, NEW seq, BackOK(c, K, pos, seq)
    PROVE  BackTo(c, BackLoop(c, K, pos, seq), K, pos, seq)
  <1> DEFINE Done(x, n) == /\ CInv(x) /\ x.has_shift = c.has_shift
                           /\ \A i \in Cells : i < n => (IF i \in K THEN BackAt(c, x, pos[i], seq[i], i) ELSE Same(c, x, i))
                           /\ \A i \in Cells : i >= n => Same(c, x, i)
  <1>0. \A i \in K : /\ c.shift[i] = 0 /\ pos[i] \in Positions \cup {-1}
                     /\ seq[i] \in SUBSET Seqs /\ (pos[i] = -1 <=> seq[i] = {})
    BY DEF BackOK
  <1>1. PICK a : /\ a[0] = c
                 /\ \A k \in 1 .. NCells : a[k] = IF k - 1 \in K THEN SetCell(a[k - 1], k - 1, pos[k - 1], seq[k - 1]) ELSE a[k - 1]
                 /\ BackLoop(c, K, pos, seq) = a[NCells]
    BY BackSteps
  <1> DEFINE S == {n \in 0 .. NCells : Done(a[n], n)}
  <1>2. 0 \in S
    <2>1. Done(c, 0)
      BY CellsAssumption DEF Same, Cells
    <2> HIDE DEF Done
    <2> QED  BY <1>1, <2>1, CellsAssumption
  <1>3. ASSUME NEW n \in 0 .. NCells - 1, n \in S  PROVE n + 1 \in S
    <2> DEFINE x == a[n]
               d == a[n + 1]
    <2>1. n \in Cells /\ n + 1 \in 1 .. NCells /\ (n + 1) - 1 = n
      BY CellsAssumption DEF Cells
    <2>2. d = IF n \in K THEN SetCell(x, n, pos[n], seq[n]) ELSE x
      BY <1>1, <2>1
    <2>3. Done(x, n)
      BY <1>3
    <2> HIDE DEF d, x
    <2>4. CInv(x) /\ Same(c, x, n)
      BY <2>1, <2>3, CellsAssumption DEF Cells
    <2>5. CASE n \in K
      <3>0. x.shift[n] = 0 /\ d = SetCell(x, n, pos[n], seq[n])
        BY <1>0, <2>2, <2>4, <2>5 DEF Same
      <3>1. Called(x, d, n) /\ BackAt(x, d, pos[n], seq[n], n) /\ d.has_shift = x.has_shift
        BY <1>0, <2>1, <2>4, <2>5, <3>0, SetCellStep
      <3>2. IF n \in K THEN BackAt(c, d, pos[n], seq[n], n) ELSE Same(c, d, n)
        BY <2>4, <2>5, <3>1 DEF BackAt, Same
      <3>5. \A i \in Cells : i < n + 1 => i < n \/ i = n
        BY <2>1 DEF Cells
      <3>6. \A i \in Cells : i >= n + 1 => i >= n /\ i # n
        BY <2>1 DEF Cells
      <3>7. \A i \in Cells : i < n => i # n
        BY <2>1 DEF Cells
      <3>8. \A i \in Cells : i < n => (IF i \in K THEN BackAt(c, d, pos[i], seq[i], i) ELSE Same(c, d, i))
        BY <2>3, <3>1, <3>7 DEF Called, Others, Same, BackAt
      <3>9. \A i \in Cells : i >= n + 1 => Same(c, d, i)
        BY <2>3, <3>1, <3>6 DEF Called, Others, Same
      <3>10. Done(d, n + 1)
        BY <2>3, <3>1, <3>2, <3>5, <3>8, <3>9 DEF Called
      <3> HIDE DEF Done
      <3> QED  BY <2>1, <3>10 DEF d
    <2>6. CASE n \notin K
      <3>1. d = x
        BY <2>2, <2>6
      <3>2. (IF n \in K THEN BackAt(c, x, pos[n], seq[n], n) ELSE Same(c, x, n))
        <4>1. n \notin Cells => FALSE
          BY <2>1
        <4>2. x.seq[n] = {} => x.pos[n] = -1 /\ x.shift[n] = 0
          BY <2>1, <2>4 DEF CInv, Inv, Used, Owned
        <4> QED  BY <2>1, <2>4, <2>6, <4>1, <4>2 DEF Same, BackAt
      <3>3. \A i \in Cells : i < n + 1 => i < n \/ i = n
        BY <2>1 DEF Cells
      <3>4. \A i \in Cells : i >= n + 1 => i >= n
        BY <2>1 DEF Cells
      <3>5. Done(x, n + 1)
        BY <2>3, <3>2, <3>3, <3>4
      <3> HIDE DEF Done
      <3> QED  BY <2>1, <3>1, <3>5 DEF d
    <2> QED  BY <2>5, <2>6
  <1>4. 0 .. NCells \subseteq S
    <2> HIDE DEF S
    <2> QED  BY <1>2, <1>3, Induct, CellsAssumption
  <1>5. Done(a[NCells], NCells)
    <2> HIDE DEF Done
    <2> QED  BY <1>4, CellsAssumption
  <1>6. \A i \in Cells : i < NCells
    BY CellsAssumption DEF Cells
  <1> QED  BY <1>1, <1>5, <1>6 DEF BackTo

(* The moves of a defragmentation: from used cells to empty ones, no two to    *)
(* the same.                                                                   *)
MovesOK(c, ids) ==
    /\ DOMAIN ids \subseteq Cells
    /\ \A i \in DOMAIN ids : c.pos[i] # -1 /\ ids[i] \in Cells /\ c.pos[ids[i]] = -1
    /\ \A i, j \in DOMAIN ids : ids[i] = ids[j] => i = j

(* Cell j has in d what cell i had in c. *)
Took(c, d, i, j) == d.pos[j] = c.pos[i] /\ d.shift[j] = c.shift[i] /\ d.seq[j] = c.seq[i]

LEMMA MvStep ==
    ASSUME NEW c, CInv(c), NEW i \in Cells, NEW j \in Cells, c.pos[i] # -1, c.pos[j] = -1
    PROVE  LET d == Mv(c, i, j)
           IN  /\ CInv(d) /\ d.has_shift = c.has_shift
               /\ Took(c, d, i, j) /\ Blanked(d, i)
               /\ \A k \in Cells : k \notin {i, j} => Same(c, d, k)
  <1> DEFINE d == Mv(c, i, j)
  <1>1. Inv(c) /\ c \in CellsType /\ Owned(c) /\ i # j
    BY DEF CInv, Inv
  <1>2. Inv(d)
    BY <1>1, MvInv
  <1>3. /\ d.has_shift = c.has_shift /\ Took(c, d, i, j) /\ Blanked(d, i)
        /\ \A k \in Cells : k \notin {i, j} => Same(c, d, k)
    BY <1>1 DEF Mv, CellsType, Took, Blanked, Same
  <1> HIDE DEF d
  <1>4. Owned(d)
    BY <1>1, <1>3 DEF Owned, Took, Blanked, Same
  <1> QED  BY <1>2, <1>3, <1>4 DEF CInv, d

LEMMA MvFacts ==
    ASSUME NEW c, CInv(c), NEW ids, MovesOK(c, ids)
    PROVE  LET d == MvLoop(c, ids)
           IN  /\ CInv(d) /\ d.has_shift = c.has_shift
               /\ \A j \in DOMAIN ids : Took(c, d, j, ids[j]) /\ Blanked(d, j)
               /\ \A i \in Cells : i \notin DOMAIN ids /\ (\A j \in DOMAIN ids : ids[j] # i)
                                     => Same(c, d, i)
  <1> DEFINE D == DOMAIN ids
             Done(x, n) ==
                /\ CInv(x) /\ x.has_shift = c.has_shift
                /\ \A j \in D : j < n => Took(c, x, j, ids[j]) /\ Blanked(x, j)
                /\ \A i \in Cells : (\A j \in D : j < n => i # j /\ i # ids[j]) => Same(c, x, i)
  <1>0. /\ D \subseteq Cells /\ \A i \in D : c.pos[i] # -1 /\ ids[i] \in Cells /\ c.pos[ids[i]] = -1
        /\ \A i, j \in D : ids[i] = ids[j] => i = j
    BY DEF MovesOK
  <1>1. PICK a : /\ a[0] = c
                 /\ \A k \in 1 .. NCells : a[k] = IF k - 1 \in DOMAIN ids THEN Mv(a[k - 1], k - 1, ids[k - 1]) ELSE a[k - 1]
                 /\ MvLoop(c, ids) = a[NCells]
    BY MvSteps
  <1> DEFINE S == {n \in 0 .. NCells : Done(a[n], n)}
  <1>2. 0 \in S
    <2>1. \A j \in D : ~(j < 0)
      BY <1>0, CellsAssumption DEF Cells
    <2>2. Done(c, 0)
      BY <2>1 DEF Same
    <2> HIDE DEF Done
    <2> QED  BY <1>1, <2>2, CellsAssumption
  <1>3. ASSUME NEW n \in 0 .. NCells - 1, n \in S  PROVE n + 1 \in S
    <2> DEFINE x == a[n]
               d == a[n + 1]
    <2>1. n \in Cells /\ n + 1 \in 1 .. NCells /\ (n + 1) - 1 = n
      BY CellsAssumption DEF Cells
    <2>2. d = IF n \in D THEN Mv(x, n, ids[n]) ELSE x
      BY <1>1, <2>1
    <2>3. Done(x, n)
      BY <1>3
    <2> HIDE DEF d, x, D
    <2>4. \A i \in Cells : i < n + 1 <=> (i < n \/ i = n)
      BY <2>1 DEF Cells
    <2>5. CASE n \in D
      <3> DEFINE t == ids[n]
      <3>1. t \in Cells /\ c.pos[t] = -1 /\ c.pos[n] # -1 /\ d = Mv(x, n, t)
        BY <1>0, <2>2, <2>5
      <3>2. \A j \in D : j < n => n # j /\ n # ids[j] /\ t # j /\ t # ids[j]
        BY <1>0, <2>1, <2>5, <3>1 DEF Cells
      <3> HIDE DEF t
      <3>3. Same(c, x, n) /\ Same(c, x, t)
        BY <2>1, <2>3, <3>1, <3>2
      <3>4. CInv(x) /\ x.pos[n] # -1 /\ x.pos[t] = -1
        BY <2>3, <3>1, <3>3 DEF Same
      <3>5. /\ CInv(d) /\ d.has_shift = x.has_shift
            /\ Took(x, d, n, t) /\ Blanked(d, n)
            /\ \A k \in Cells : k \notin {n, t} => Same(x, d, k)
        BY <2>1, <3>1, <3>4, MvStep
      <3>6. Took(c, d, n, t)
        BY <3>3, <3>5 DEF Took, Same
      <3>7. ASSUME NEW j \in D, j < n
            PROVE  Took(c, d, j, ids[j]) /\ Blanked(d, j)
        <4>1. Took(c, x, j, ids[j]) /\ Blanked(x, j) /\ j \in Cells /\ ids[j] \in Cells
          BY <1>0, <2>3, <3>7
        <4>2. Same(x, d, j) /\ Same(x, d, ids[j])
          BY <3>2, <3>5, <3>7, <4>1
        <4> QED  BY <4>1, <4>2 DEF Took, Blanked, Same
      <3>8. ASSUME NEW i \in Cells, \A j \in D : j < n + 1 => i # j /\ i # ids[j]
            PROVE  Same(c, d, i)
        <4>1. \A j \in D : j < n => i # j /\ i # ids[j]
          BY <1>0, <2>4, <3>8
        <4>2. i # n /\ i # t
          BY <2>1, <2>4, <2>5, <3>8 DEF t
        <4>3. Same(c, x, i) /\ Same(x, d, i)
          BY <2>3, <3>5, <4>1, <4>2
        <4> QED  BY <4>3 DEF Same
      <3>9. \A j \in D : j < n + 1 => Took(c, d, j, ids[j]) /\ Blanked(d, j)
        BY <1>0, <2>4, <3>5, <3>6, <3>7 DEF t
      <3>10. Done(d, n + 1)
        BY <2>3, <3>5, <3>8, <3>9
      <3> HIDE DEF Done
      <3> QED  BY <2>1, <3>10 DEF d
    <2>6. CASE n \notin D
      <3>1. \A j \in D : j < n + 1 <=> j < n
        BY <1>0, <2>4, <2>6
      <3>2. Done(x, n + 1)
        BY <2>3, <3>1
      <3> HIDE DEF Done
      <3> QED  BY <2>1, <2>2, <2>6, <3>2 DEF d
    <2> QED  BY <2>5, <2>6
  <1>4. 0 .. NCells \subseteq S
    <2> HIDE DEF S
    <2> QED  BY <1>2, <1>3, Induct, CellsAssumption
  <1>5. Done(a[NCells], NCells)
    <2> HIDE DEF Done
    <2> QED  BY <1>4, CellsAssumption
  <1>6. \A i \in Cells : i < NCells
    BY CellsAssumption DEF Cells
  <1> QED  BY <1>0, <1>1, <1>5, <1>6

PlaceRun(a, c, idxs, toks) ==
    /\ a[0] = c
    /\ \A k \in 1 .. Len(idxs) : a[k] = Place(a[k - 1], idxs[k], toks[k])
    /\ PlaceAll(c, idxs, toks) = a[Len(idxs)]

(* The tokens of an ubatch are placed one by one. *)
LEMMA PlaceSteps ==
    ASSUME NEW c, NEW idxs, NEW toks, Len(idxs) \in Nat
    PROVE  \E a : PlaceRun(a, c, idxs, toks)
  <1> DEFINE base == c
             step(x, k) == Place(x, idxs[k], toks[k])
             S == {n \in Nat : \E f : f = [k \in 0 .. n |->
                        IF k = 0 THEN base ELSE step(f[k - 1], k)]}
             a == CHOOSE f : f = [k \in 0 .. Len(idxs) |->
                        IF k = 0 THEN base ELSE step(f[k - 1], k)]
  <1>1. PlaceAll(c, idxs, toks) = a[Len(idxs)]
    BY DEF PlaceAll
  <1> HIDE DEF base, step
  <1>2. 0 \in S
    <2> DEFINE f == [k \in 0 .. 0 |-> base]
    <2>1. f = [k \in 0 .. 0 |-> IF k = 0 THEN base ELSE step(f[k - 1], k)]
      OBVIOUS
    <2> HIDE DEF f
    <2> QED  BY <2>1
  <1>3. ASSUME NEW n \in Nat, n \in S  PROVE n + 1 \in S
    <2>1. PICK f : f = [k \in 0 .. n |-> IF k = 0 THEN base ELSE step(f[k - 1], k)]
      BY <1>3
    <2> DEFINE g == [k \in 0 .. n + 1 |-> IF k = n + 1 THEN step(f[n], n + 1) ELSE f[k]]
    <2>2. ASSUME NEW k \in 0 .. n + 1
          PROVE  g[k] = IF k = 0 THEN base ELSE step(g[k - 1], k)
      <3>1. CASE k = n + 1
        <4>1. (n + 1) - 1 = n /\ n \in 0 .. n + 1 /\ n # n + 1 /\ k # 0
          BY <3>1
        <4>2. g[k - 1] = f[n] /\ g[k] = step(f[n], k)
          BY <3>1, <4>1
        <4> QED  BY <4>1, <4>2
      <3>2. CASE k # n + 1
        <4>1. k \in 0 .. n /\ g[k] = f[k]
          BY <3>2
        <4>2. k # 0 => k - 1 \in 0 .. n + 1 /\ k - 1 # n + 1
          BY <4>1
        <4>3. k # 0 => g[k - 1] = f[k - 1]
          BY <4>2
        <4>4. f[k] = IF k = 0 THEN base ELSE step(f[k - 1], k)
          BY <2>1, <4>1
        <4> QED  BY <4>1, <4>3, <4>4
      <3> QED  BY <3>1, <3>2
    <2>3. g = [k \in 0 .. n + 1 |-> IF k = 0 THEN base ELSE step(g[k - 1], k)]
      BY <2>2
    <2> HIDE DEF g
    <2> QED  BY <2>3
  <1>4. Len(idxs) \in S
    <2> HIDE DEF S
    <2>1. 0 .. Len(idxs) \subseteq S
      <3>1. \A k \in 0 .. Len(idxs) - 1 : k \in S => k + 1 \in S
        BY <1>3
      <3>2. Len(idxs) \in Nat
        OBVIOUS
      <3> QED  BY <1>2, <3>1, <3>2, Induct
    <2> QED  BY <2>1
  <1>5. a = [k \in 0 .. Len(idxs) |-> IF k = 0 THEN base ELSE step(a[k - 1], k)]
    <2> HIDE DEF step, base
    <2> QED  BY <1>4
  <1> HIDE DEF a
  <1>6. a[0] = base /\ \A k \in 1 .. Len(idxs) : a[k] = step(a[k - 1], k)
    BY <1>5
  <1> QED  BY <1>1, <1>6 DEF base, step, PlaceRun

(* A slot: cells for the tokens, which have positions and sequences. *)
TokOK(t)       == t \in TokType /\ t.lead \in t.seqs /\ (Coupled \/ t.seqs = {t.lead})
UbatchOK(toks) == /\ toks \in Seq(TokType) /\ Len(toks) >= 1
                  /\ \A k \in 1 .. Len(toks) : TokOK(toks[k])
SlotOK(idxs, toks) == UbatchOK(toks) /\ idxs \in Seq(Cells) /\ Len(idxs) = Len(toks)

LEMMA PlaceFacts ==
    ASSUME NEW c, CInv(c), NEW idxs, NEW toks, SlotOK(idxs, toks)
    PROVE  LET d == PlaceAll(c, idxs, toks)
           IN  /\ CInv(d) /\ d.has_shift = c.has_shift
               /\ \A k \in 1 .. Len(idxs) :
                     \E l \in 1 .. Len(idxs) : idxs[l] = idxs[k] /\ PlacedAt(d, toks[l], idxs[k])
               /\ \A i \in Cells : i \notin Range(idxs) => Same(c, d, i)
  <1> DEFINE N == Len(idxs)
             Done(x, n) ==
                /\ CInv(x) /\ x.has_shift = c.has_shift
                /\ \A k \in 1 .. n : \E l \in 1 .. n :
                      idxs[l] = idxs[k] /\ PlacedAt(x, toks[l], idxs[k])
                /\ \A i \in Cells : i \notin Range(idxs) => Same(c, x, i)
  <1>0. N \in Nat /\ DOMAIN idxs = 1 .. N /\ \A k \in 1 .. N : idxs[k] \in Cells /\ TokOK(toks[k])
    BY DEF SlotOK, UbatchOK
  <1>1. PICK a : /\ a[0] = c
                 /\ \A k \in 1 .. N : a[k] = Place(a[k - 1], idxs[k], toks[k])
                 /\ PlaceAll(c, idxs, toks) = a[N]
    <2>1. Len(idxs) \in Nat
      BY DEF SlotOK
    <2>2. \E a : PlaceRun(a, c, idxs, toks)
      BY <2>1, PlaceSteps, Zenon
    <2> QED  BY <2>2 DEF PlaceRun
  <1> HIDE DEF N
  <1> DEFINE S == {n \in 0 .. N : Done(a[n], n)}
  <1>2. 0 \in S
    <2>1. Done(c, 0)
      BY DEF Same
    <2> HIDE DEF Done
    <2> QED  BY <1>0, <1>1, <2>1
  <1>3. ASSUME NEW n \in 0 .. N - 1, n \in S  PROVE n + 1 \in S
    <2> DEFINE x == a[n]
               d == a[n + 1]
               m == n + 1
    <2>1. m \in 1 .. N /\ m - 1 = n /\ m \in Nat
      BY <1>0
    <2>2. d = Place(x, idxs[m], toks[m])
      BY <1>1, <2>1
    <2>3. Done(x, n)
      BY <1>3
    <2>4. \A k : k \in 1 .. m <=> k \in 1 .. n \/ k = m
      BY <1>0
    <2> HIDE DEF d, x, m
    <2>5. idxs[m] \in Cells /\ TokOK(toks[m]) /\ idxs[m] \in Range(idxs)
      BY <1>0, <2>1 DEF Range
    <2>6. CInv(d) /\ Others(x, d, idxs[m]) /\ PlacedAt(d, toks[m], idxs[m]) /\ d.has_shift = x.has_shift
      <3>1. toks[m].pos \in Positions /\ toks[m].seqs \in SUBSET Seqs /\ toks[m].seqs # {}
        BY <2>5 DEF TokOK, TokType
      <3> QED  BY <2>2, <2>3, <2>5, <3>1, PlaceStep DEF Called
    <2>7. \A i \in Cells : i \notin Range(idxs) => Same(c, d, i)
      BY <2>3, <2>5, <2>6 DEF Others, Same
    <2>8. ASSUME NEW k \in 1 .. m
          PROVE  \E l \in 1 .. m : idxs[l] = idxs[k] /\ PlacedAt(d, toks[l], idxs[k])
      <3>1. CASE idxs[k] = idxs[m]
        BY <2>1, <2>4, <2>6, <3>1
      <3>2. CASE idxs[k] # idxs[m]
        <4>1. k \in 1 .. n
          BY <2>4, <3>2
        <4>2. PICK l \in 1 .. n : idxs[l] = idxs[k] /\ PlacedAt(x, toks[l], idxs[k])
          BY <2>3, <4>1
        <4>3. k \in 1 .. N
          BY <1>0, <2>1, <4>1
        <4>4. Same(x, d, idxs[k])
          BY <1>0, <2>6, <3>2, <4>3 DEF Others
        <4>5. PlacedAt(d, toks[l], idxs[k])
          BY <4>2, <4>4 DEF PlacedAt, Same
        <4> QED  BY <2>4, <4>2, <4>5
      <3> QED  BY <3>1, <3>2
    <2>9. Done(d, m)
      BY <2>3, <2>6, <2>7, <2>8
    <2> HIDE DEF Done
    <2> QED  BY <2>1, <2>9 DEF d, m
  <1>4. 0 .. N \subseteq S
    <2> HIDE DEF S
    <2> QED  BY <1>0, <1>2, <1>3, Induct
  <1>5. Done(a[N], N)
    <2> HIDE DEF Done
    <2> QED  BY <1>0, <1>4
  <1> QED  BY <1>1, <1>5 DEF N

-----------------------------------------------------------------------------
(* Elements by rank, slots and defragmentation plans. *)

LEMMA MinFacts ==
    ASSUME NEW S \in SUBSET Nat, S # {}
    PROVE  Min(S) \in S /\ \A y \in S : Min(S) <= y
  BY LeastNatural DEF Min

LEMMA CellsFacts ==
    /\ IsFiniteSet(Cells) /\ Cells \subseteq Nat /\ NCells \in Nat
    /\ \A i : i \in Cells <=> i \in Nat /\ i < NCells
    /\ \A S \in SUBSET Cells : IsFiniteSet(S) /\ Cardinality(S) \in Nat
  <1>1. NCells \in Nat
    BY CellsAssumption
  <1>2. IsFiniteSet(Cells) /\ Cells \subseteq Nat
    BY <1>1, FS_Interval DEF Cells
  <1>3. \A i : i \in Cells <=> i \in Nat /\ i < NCells
    BY <1>1 DEF Cells
  <1>4. \A S \in SUBSET Cells : IsFiniteSet(S) /\ Cardinality(S) \in Nat
    BY <1>2, FS_Subset, FS_CardinalityType
  <1> QED  BY <1>1, <1>2, <1>3, <1>4

(* The keys of S tell its elements apart; and z has the rank k among them. *)
Ranked(S, key) ==
    /\ IsFiniteSet(S) /\ \A x \in S : key[x] \in Int
    /\ \A x, y \in S : key[x] = key[y] => x = y
AtRank(S, key, k, z) == z \in S /\ Cardinality({y \in S : key[y] < key[z]}) = k

(* Every rank below the cardinality has its element: the ranks are as many     *)
(* numbers as there are elements, and no two elements have the same.           *)
LEMMA NthFacts ==
    ASSUME NEW S, NEW key, Ranked(S, key), NEW k \in Nat, k < Cardinality(S)
    PROVE  AtRank(S, key, k, Nth(S, key, k))
  <1> DEFINE B(x) == {y \in S : key[y] < key[x]}
             f == [x \in S |-> Cardinality(B(x))]
             N == Cardinality(S)
             T == 0 .. N - 1
  <1>0. /\ IsFiniteSet(S) /\ \A x \in S : key[x] \in Int
        /\ \A x, y \in S : key[x] = key[y] => x = y
    BY DEF Ranked
  <1>1. N \in Nat
    BY <1>0, FS_CardinalityType
  <1>2. IsFiniteSet(T) /\ Cardinality(T) = N
    <2>1. 0 \in Int /\ N - 1 \in Int
      BY <1>1
    <2>2. IsFiniteSet(T) /\ Cardinality(T) = IF 0 > N - 1 THEN 0 ELSE (N - 1) - 0 + 1
      BY <2>1, FS_Interval
    <2> HIDE DEF N, T
    <2> QED  BY <1>1, <2>2
  <1>3. ASSUME NEW x \in S
        PROVE  IsFiniteSet(B(x)) /\ Cardinality(B(x)) \in T
    <2>1. B(x) \in SUBSET S /\ x \notin B(x) /\ B(x) # S
      BY <1>0
    <2> HIDE DEF B
    <2>2. /\ IsFiniteSet(B(x)) /\ Cardinality(B(x)) <= N /\ (N = Cardinality(B(x)) => S = B(x))
          /\ Cardinality(B(x)) \in Nat
      BY <1>0, <2>1, FS_Subset, FS_CardinalityType
    <2> QED  BY <1>1, <2>1, <2>2
  <1>4. ASSUME NEW x \in S, NEW y \in S, key[x] < key[y]
        PROVE  Cardinality(B(x)) # Cardinality(B(y))
    <2>1. B(x) \in SUBSET B(y) /\ x \in B(y) /\ x \notin B(x)
      BY <1>0, <1>4
    <2> HIDE DEF B
    <2> QED  BY <1>3, <2>1, FS_Subset
  <1>5. f \in Injection(S, T)
    <2>1. f \in [S -> T]
      BY <1>3
    <2>2. ASSUME NEW x \in S, NEW y \in S, f[x] = f[y]  PROVE x = y
      <3>1. key[x] \in Int /\ key[y] \in Int
        BY <1>0
      <3>2. ~(key[x] < key[y]) /\ ~(key[y] < key[x])
        BY <1>4, <2>2
      <3> QED  BY <1>0, <3>1, <3>2
    <2> HIDE DEF f, T
    <2> QED  BY <2>1, <2>2 DEF Injection, IsInjective
  <1>6. f \in Surjection(S, T)
    <2> HIDE DEF f, T, N
    <2> QED  BY <1>0, <1>2, <1>5, FS_Injection DEF N
  <1>7. k \in T
    BY <1>1
  <1>8. \E x \in S : f[x] = k
    <2> HIDE DEF f, T
    <2> QED  BY <1>6, <1>7 DEF Surjection
  <1>9. \E x \in S : Cardinality({y \in S : key[y] < key[x]}) = k
    BY <1>8
  <1> QED  BY <1>9 DEF Nth, AtRank

(* A slot for n tokens: as many cells, all usable, no two the same. *)
SlotFound(c, idxs, n) ==
    /\ idxs \in Seq(Cells) /\ Len(idxs) = n
    /\ \A k \in 1 .. n : idxs[k] \in Cells /\ CanUse(c, idxs[k])
    /\ \A k, l \in 1 .. n : idxs[k] = idxs[l] => k = l

LEMMA FindFacts ==
    ASSUME NEW m, m.head \in 0 .. NCells, NEW n \in Nat, n >= 1,
           Find_slot(m, n) # <<>>
    PROVE  SlotFound(m.cells, Find_slot(m, n), n)
  <1> DEFINE c == m.cells
             h == IF m.head > Cardinality(c.used) + 2 * n THEN 0 ELSE m.head
             usable == {i \in Cells : CanUse(c, i)}
             turn   == [i \in Cells |-> IF i >= h THEN i - h ELSE i + NCells - h]
             starts == {a \in Cells : /\ a + n <= NCells
                                      /\ \A k \in a .. a + n - 1 : CanUse(c, k)}
             ahead  == {a \in starts : a >= h}
             first  == Min(IF ahead = {} THEN starts ELSE ahead)
             seq1   == [k \in 1 .. n |-> first + k - 1]
             seq2   == [k \in 1 .. n |-> Nth(usable, turn, k - 1)]
  <1>1. Find_slot(m, n) = IF Cont THEN IF starts = {} THEN <<>> ELSE seq1
                          ELSE IF Cardinality(usable) < n THEN <<>> ELSE seq2
    BY DEF Find_slot
  <1>2. h \in Nat /\ h <= NCells
    BY CellsFacts
  <1>3. CASE Cont /\ starts # {}
    <2>1. first \in starts
      <3>1. starts \in SUBSET Nat /\ ahead \in SUBSET Nat /\ ahead \subseteq starts
        BY CellsFacts
      <3> HIDE DEF starts, ahead
      <3> QED  BY <1>3, <3>1, MinFacts
    <2>2. first \in Nat /\ first + n <= NCells /\ \A k \in first .. first + n - 1 : CanUse(c, k)
      BY <2>1, CellsFacts
    <2> HIDE DEF first, starts
    <2>3. \A k \in 1 .. n : seq1[k] \in Cells /\ CanUse(c, seq1[k])
      <3>1. \A k \in 1 .. n : first + k - 1 \in first .. first + n - 1 /\ first + k - 1 \in Cells
        BY <2>2, CellsFacts
      <3> QED  BY <2>2, <3>1
    <2>4. \A k, l \in 1 .. n : seq1[k] = seq1[l] => k = l
      BY <2>2
    <2>5. seq1 \in Seq(Cells) /\ Len(seq1) = n /\ Find_slot(m, n) = seq1
      BY <1>1, <1>3, <2>3
    <2> HIDE DEF seq1
    <2> QED  BY <2>3, <2>4, <2>5 DEF SlotFound
  <1>4. CASE ~Cont /\ ~(Cardinality(usable) < n)
    <2>1. IsFiniteSet(usable) /\ Cardinality(usable) \in Nat
      BY CellsFacts
    <2>2. Ranked(usable, turn)
      <3> HIDE DEF h, usable
      <3>1. \A x \in usable : x \in Cells /\ x \in Nat /\ x < NCells /\ NCells \in Nat
        BY CellsFacts DEF usable
      <3>2. \A x \in usable : turn[x] = IF x >= h THEN x - h ELSE x + NCells - h
        BY <3>1
      <3> HIDE DEF turn
      <3>3. \A x \in usable : turn[x] \in Int
        BY <1>2, <3>1, <3>2
      <3>4. ASSUME NEW x \in usable, NEW y \in usable, turn[x] = turn[y]  PROVE x = y
        <4>1. x \in Nat /\ y \in Nat /\ x < NCells /\ y < NCells /\ NCells \in Nat
          BY <3>1
        <4>2. (IF x >= h THEN x - h ELSE x + NCells - h) = IF y >= h THEN y - h ELSE y + NCells - h
          BY <3>2, <3>4
        <4> QED  BY <1>2, <4>1, <4>2
      <3> QED  BY <2>1, <3>3, <3>4 DEF Ranked
    <2>3. ASSUME NEW k \in 1 .. n
          PROVE  AtRank(usable, turn, k - 1, seq2[k])
      <3>1. k - 1 \in Nat /\ k - 1 < Cardinality(usable)
        BY <1>4, <2>1
      <3>2. seq2[k] = Nth(usable, turn, k - 1)
        OBVIOUS
      <3> HIDE DEF usable, turn, seq2
      <3> QED  BY <2>1, <2>2, <3>1, <3>2, NthFacts
    <2>4. \A k, l \in 1 .. n : seq2[k] = seq2[l] => k = l
      <3> SUFFICES ASSUME NEW k \in 1 .. n, NEW l \in 1 .. n, seq2[k] = seq2[l]  PROVE k = l
        OBVIOUS
      <3> HIDE DEF usable, turn, seq2
      <3>1. k - 1 = l - 1
        BY <2>3 DEF AtRank
      <3> QED  BY <3>1
    <2>5. \A k \in 1 .. n : seq2[k] \in Cells /\ CanUse(c, seq2[k])
      <3>1. \A k \in 1 .. n : seq2[k] \in usable
        <4> HIDE DEF seq2, usable, turn
        <4> QED  BY <2>3 DEF AtRank
      <3> HIDE DEF seq2
      <3> QED  BY <3>1
    <2>6. seq2 \in Seq(Cells) /\ Len(seq2) = n /\ Find_slot(m, n) = seq2
      BY <1>1, <1>4, <2>5
    <2> HIDE DEF seq2
    <2> QED  BY <2>4, <2>5, <2>6 DEF SlotFound
  <1> QED  BY <1>1, <1>3, <1>4

(* The search that need not be contiguous misses no usable cell. *)
LEMMA NoSlot ==
    ASSUME NEW m, NEW n \in Nat, n >= 1, ~Cont, Find_slot(m, n) = <<>>
    PROVE  Cardinality({i \in Cells : CanUse(m.cells, i)}) < n
  <1> DEFINE usable == {i \in Cells : CanUse(m.cells, i)}
             h == IF m.head > Cardinality(m.cells.used) + 2 * n THEN 0 ELSE m.head
             turn == [i \in Cells |-> IF i >= h THEN i - h ELSE i + NCells - h]
             s == [k \in 1 .. n |-> Nth(usable, turn, k - 1)]
  <1>1. Find_slot(m, n) = IF Cardinality(usable) < n THEN <<>> ELSE s
    BY DEF Find_slot
  <1>2. s # <<>>
    <2>1. 1 \in DOMAIN s
      OBVIOUS
    <2> HIDE DEF s
    <2> QED  BY <2>1
  <1> HIDE DEF s
  <1> QED  BY <1>1, <1>2 DEF usable

(* As many free cells below n_used as used cells above: the assertion of        *)
(* defrag_prepare, "this can only happen if n_used is not accurate".            *)
LEMMA HolesFilled ==
    ASSUME NEW U \in SUBSET Cells
    PROVE  LET low == 0 .. Cardinality(U) - 1
           IN  /\ IsFiniteSet(low \ U) /\ IsFiniteSet(U \ low)
               /\ Cardinality(low \ U) = Cardinality(U \ low)
  <1> DEFINE n == Cardinality(U)
             low == 0 .. n - 1
  <1>1. IsFiniteSet(U) /\ n \in Nat
    BY CellsFacts
  <1>2. IsFiniteSet(low) /\ Cardinality(low) = n
    <2>1. 0 \in Int /\ n - 1 \in Int
      BY <1>1
    <2>2. IsFiniteSet(low) /\ Cardinality(low) = IF 0 > n - 1 THEN 0 ELSE (n - 1) - 0 + 1
      BY <2>1, FS_Interval
    <2> HIDE DEF n, low
    <2> QED  BY <1>1, <2>2
  <1> HIDE DEF low
  <1>3. /\ IsFiniteSet(low \ U) /\ IsFiniteSet(U \ low) /\ IsFiniteSet(low \cap U)
        /\ Cardinality(low \ U) \in Nat /\ Cardinality(U \ low) \in Nat
        /\ Cardinality(low \cap U) \in Nat
    BY <1>1, <1>2, FS_Subset, FS_CardinalityType
  <1>4. Cardinality(low) = Cardinality(low \ U) + Cardinality(low \cap U)
    <2>1. low = (low \ U) \cup (low \cap U) /\ (low \ U) \cap (low \cap U) = {}
      OBVIOUS
    <2> QED  BY <1>3, <2>1, FS_Union, FS_EmptySet
  <1>5. n = Cardinality(U \ low) + Cardinality(low \cap U)
    <2>1. U = (U \ low) \cup (low \cap U) /\ (U \ low) \cap (low \cap U) = {}
      OBVIOUS
    <2> QED  BY <1>3, <2>1, FS_Union, FS_EmptySet
  <1> QED  BY <1>2, <1>3, <1>4, <1>5 DEF low

(* The moves that defrag_prepare plans are from used cells to free ones. *)
LEMMA DefragFacts ==
    ASSUME NEW c, CInv(c)
    PROVE  MovesOK(c, Defrag_prepare(c))
  <1> DEFINE n      == Cardinality(c.used)
             low    == 0 .. n - 1
             free   == low \ c.used
             above  == c.used \ low
             Further(d) == {e \in free : IF e < d THEN ~(e .. d \subseteq free)
                                        ELSE e > d /\ d .. e \subseteq free}
             source == [d \in free |-> Nth(above, [i \in above |-> -i], Cardinality(Further(d)))]
             starts == {d \in free : d - 1 \in free => source[d - 1] + 1 # source[d]}
             moved  == {d \in free : Cardinality({e \in starts : e <= d}) <= MaxMoves}
             ids    == [i \in {source[d] : d \in moved} |-> CHOOSE d \in moved : source[d] = i]
  <1>1. Defrag_prepare(c) = ids
    BY DEF Defrag_prepare
  <1>2. c.used \in SUBSET Cells /\ c.used = {i \in Cells : c.pos[i] # -1}
    BY DEF CInv, Inv, Used, CellsType
  <1>3. n \in Nat /\ n <= NCells
    <2>1. IsFiniteSet(Cells) /\ Cardinality(Cells) = NCells
      <3>1. 0 \in Int /\ NCells - 1 \in Int /\ NCells \in Nat
        BY CellsFacts
      <3>2. Cardinality(0 .. NCells - 1) = IF 0 > NCells - 1 THEN 0 ELSE (NCells - 1) - 0 + 1
        BY <3>1, FS_Interval
      <3> QED  BY <3>1, <3>2, CellsFacts DEF Cells
    <2> QED  BY <1>2, <2>1, FS_Subset, CellsFacts
  <1>4. \A d \in free : d \in Cells /\ c.pos[d] = -1
    <2>1. \A d \in low : d \in Cells
      <3> HIDE DEF n
      <3> QED  BY <1>3, CellsFacts
    <2> HIDE DEF low
    <2> QED  BY <1>2, <2>1
  <1>5. \A i \in above : i \in Cells /\ c.pos[i] # -1 /\ i \in Int
    BY <1>2, CellsFacts
  <1>6. IsFiniteSet(free) /\ IsFiniteSet(above) /\ Cardinality(free) = Cardinality(above)
    BY <1>2, HolesFilled
  <1>7. ASSUME NEW d \in free  PROVE source[d] \in above
    <2> DEFINE k   == Cardinality(Further(d))
               key == [i \in above |-> -i]
    <2>1. k \in Nat /\ k < Cardinality(above)
      <3>1. Further(d) \in SUBSET free /\ d \notin Further(d) /\ Further(d) # free
        BY <1>4, CellsFacts
      <3> HIDE DEF Further, free, above
      <3>2. IsFiniteSet(Further(d)) /\ Cardinality(Further(d)) <= Cardinality(free)
            /\ Cardinality(Further(d)) # Cardinality(free)
        BY <1>6, <3>1, FS_Subset
      <3>3. Cardinality(Further(d)) \in Nat /\ Cardinality(free) \in Nat
        BY <1>6, <3>2, FS_CardinalityType
      <3> QED  BY <1>6, <3>2, <3>3
    <2>2. Ranked(above, key)
      <3>1. \A x \in above : key[x] = -x
        OBVIOUS
      <3> HIDE DEF key, above
      <3>2. \A x \in above : key[x] \in Int
        BY <1>5, <3>1
      <3>3. \A x, y \in above : key[x] = key[y] => x = y
        BY <1>5, <3>1
      <3> QED  BY <1>6, <3>2, <3>3 DEF Ranked
    <2>3. source[d] = Nth(above, key, k)
      OBVIOUS
    <2> HIDE DEF k, key, above, source
    <2>4. AtRank(above, key, k, Nth(above, key, k))
      BY <2>1, <2>2, NthFacts
    <2> QED  BY <2>3, <2>4 DEF AtRank
  <1> HIDE DEF n, low, free, above, Further, source, starts
  <1>8. moved \subseteq free
    OBVIOUS
  <1> HIDE DEF moved
  <1>9. DOMAIN ids = {source[d] : d \in moved}
        /\ \A i \in DOMAIN ids : ids[i] \in moved /\ source[ids[i]] = i
    OBVIOUS
  <1> HIDE DEF ids
  <1> QED  BY <1>1, <1>4, <1>5, <1>7, <1>8, <1>9 DEF MovesOK

-----------------------------------------------------------------------------
(* The memory: its invariant, and the phase of its data.                      *)

MemType == [cells : CellsType, head : 0 .. NCells, data : DataType]
MInv(m) == m \in MemType /\ CInv(m.cells)

(* The data of each cell is rotated to its position, but for the shift. *)
Phased(m) == \A i \in Cells : m.cells.pos[i] # -1 =>
                m.cells.pos[i] = m.data[i].rope + m.cells.shift[i]

(* The entry in cell i, and all entries of the memory. *)
EntAt(m, i) == [tok |-> m.data[i].tok, pos |-> m.cells.pos[i], seqs |-> m.cells.seq[i]]
Held(m)     == {EntAt(m, i) : i \in {j \in Cells : m.cells.pos[j] # -1}}

(* What cell i of d holds, it also held in c. *)
Thinner(c, d, i) ==
    /\ d.pos[i] # -1 => d.pos[i] = c.pos[i] /\ d.shift[i] = c.shift[i]
    /\ d.pos[i] = -1 \/ c.pos[i] # -1

(* m with other cells and another head. *)
Recelled(m, c, h) == [m EXCEPT !.cells = c, !.head = h]

LEMMA RecelledInv ==
    ASSUME NEW m, MInv(m), NEW c, CInv(c), NEW h \in 0 .. NCells
    PROVE  LET d == Recelled(m, c, h)
           IN  /\ MInv(d) /\ d.cells = c /\ d.data = m.data /\ d.head = h
               /\ d = [cells |-> c, head |-> h, data |-> m.data]
  <1>1. m \in MemType /\ c \in CellsType
    BY DEF MInv, CInv, Inv
  <1> DEFINE d == Recelled(m, c, h)
  <1>2. d \in MemType /\ d.cells = c /\ d.head = h /\ d.data = m.data
    BY <1>1 DEF MemType, Recelled
  <1> HIDE DEF d
  <1>3. d = [cells |-> d.cells, head |-> d.head, data |-> d.data]
    BY <1>2 DEF MemType
  <1>4. d = [cells |-> c, head |-> h, data |-> m.data]
    BY <1>2, <1>3
  <1> QED  BY <1>2, <1>4 DEF MInv, d

LEMMA ThinnerPhase ==
    ASSUME NEW m, NEW d, d.data = m.data, \A i \in Cells : Thinner(m.cells, d.cells, i), Phased(m)
    PROVE  Phased(d)
  BY DEF Thinner, Phased

(* The head goes to a cell that was freed, or stays. *)
LEMMA HeadInRange ==
    ASSUME NEW m, MInv(m), NEW c
    PROVE  HeadToFreed(m, c) \in 0 .. NCells
  <1> DEFINE freed == m.cells.used \ c.used
  <1>1. freed \in SUBSET Nat /\ (\A i \in freed : i <= NCells) /\ m.head \in 0 .. NCells /\ NCells \in Nat
    BY CellsFacts DEF MInv, MemType, CellsType
  <1>2. HeadToFreed(m, c) = IF freed # {} THEN Min(freed \cup {m.head}) ELSE m.head
    BY DEF HeadToFreed
  <1>3. freed \cup {m.head} \in SUBSET Nat /\ freed \cup {m.head} # {}
    BY <1>1
  <1>4. \A i \in freed \cup {m.head} : i \in 0 .. NCells
    BY <1>1
  <1> HIDE DEF freed
  <1>5. Min(freed \cup {m.head}) \in freed \cup {m.head}
    BY <1>3, MinFacts
  <1>6. Min(freed \cup {m.head}) \in 0 .. NCells /\ m.head \in 0 .. NCells
    BY <1>4, <1>5
  <1> QED  BY <1>2, <1>6

(* The loop of seq_rm() calls: the memory, cell by cell. *)
LEMMA RmAllFacts ==
    ASSUME NEW m, MInv(m), NEW R, \A i \in Cells : R[i] \in SUBSET m.cells.seq[i]
    PROVE  LET d == RmAll(m, R)
           IN  /\ MInv(d) /\ d.data = m.data /\ d.cells.has_shift = m.cells.has_shift
               /\ \A i \in Cells : RmAt(m.cells, d.cells, R[i], i)
               /\ \A i \in Cells : Thinner(m.cells, d.cells, i)
  <1> DEFINE c == RmLoop(m.cells, R)
             d == RmAll(m, R)
  <1>1. d = Recelled(m, c, HeadToFreed(m, c))
    BY DEF RmAll, RmLoop, Recelled
  <1>2. /\ CInv(c) /\ c.has_shift = m.cells.has_shift
        /\ \A i \in Cells : RmAt(m.cells, c, R[i], i)
    BY RmFacts DEF MInv
  <1> HIDE DEF c, d
  <1>3. HeadToFreed(m, c) \in 0 .. NCells
    BY HeadInRange
  <1>4. MInv(d) /\ d.cells = c /\ d.data = m.data
    BY <1>1, <1>2, <1>3, RecelledInv
  <1>5. \A i \in Cells : Thinner(m.cells, c, i)
    <2>1. \A i \in Cells : m.cells.pos[i] = -1 => m.cells.seq[i] = {}
      BY DEF MInv, CInv, Inv, Used
    <2>2. \A i \in Cells : c.pos[i] # -1 => c.seq[i] # {}
      BY <1>2 DEF CInv, Owned
    <2> QED  BY <1>2, <2>1, <2>2 DEF RmAt, Thinner
  <1> QED  BY <1>2, <1>4, <1>5 DEF d

(* The hits of a range are used cells. *)
LEMMA HitsUsed ==
    ASSUME NEW c, CInv(c), NEW s, NEW r
    PROVE  /\ Hits(c, s, r) \in SUBSET Cells
           /\ \A i \in Hits(c, s, r) : c.pos[i] # -1 /\ s \in c.seq[i]
  BY DEF Hits, SeqHas, CInv, Inv, Used

Keeps(m, d) == MInv(d) /\ (Phased(m) => Phased(d))

LEMMA SeqRmKeeps ==
    ASSUME NEW m, MInv(m), NEW s \in Seqs, NEW r
    PROVE  LET d == Seq_rm(m, s, r)
           IN  /\ Keeps(m, d) /\ d.data = m.data
               /\ \A i \in Cells : RmAt(m.cells, d.cells, IF i \in Hits(m.cells, s, r) THEN {s} ELSE {}, i)
  <1> DEFINE K == Hits(m.cells, s, r)
             R == [i \in Cells |-> IF i \in K THEN {s} ELSE {}]
  <1>1. \A i \in Cells : R[i] \in SUBSET m.cells.seq[i]
    BY HitsUsed DEF MInv
  <1>2. Seq_rm(m, s, r) = RmAll(m, R)
    BY DEF Seq_rm
  <1>3. \A i \in Cells : R[i] = IF i \in Hits(m.cells, s, r) THEN {s} ELSE {}
    OBVIOUS
  <1> HIDE DEF R, K
  <1>4. /\ MInv(RmAll(m, R)) /\ RmAll(m, R).data = m.data
        /\ \A i \in Cells : RmAt(m.cells, RmAll(m, R).cells, R[i], i)
        /\ \A i \in Cells : Thinner(m.cells, RmAll(m, R).cells, i)
    BY <1>1, RmAllFacts
  <1>5. Phased(m) => Phased(RmAll(m, R))
    BY <1>4, ThinnerPhase
  <1> QED  BY <1>2, <1>3, <1>4, <1>5 DEF Keeps

LEMMA SeqCpKeeps ==
    ASSUME NEW m, MInv(m), NEW src \in Seqs, NEW dst \in Seqs, NEW r,
           \A i \in Hits(m.cells, src, r) : src = dst \/ dst \notin m.cells.seq[i]
    PROVE  LET d == Seq_cp(m, src, dst, r)
           IN  /\ Keeps(m, d) /\ d.data = m.data
               /\ src = dst => d = m
               /\ src # dst => \A i \in Cells :
                     CpAt(m.cells, d.cells, IF i \in Hits(m.cells, src, r) THEN {dst} ELSE {}, i)
  <1> DEFINE K == Hits(m.cells, src, r)
             c == CpLoop(m.cells, dst, K)
             d == Seq_cp(m, src, dst, r)
  <1>1. CASE src = dst
    <2>1. d = m
      BY <1>1 DEF Seq_cp, MInv, MemType
    <2> QED  BY <1>1, <2>1 DEF Keeps
  <1>2. CASE src # dst
    <2>1. d = Recelled(m, c, m.head)
      BY <1>2 DEF Seq_cp, CpLoop, Recelled, MInv, MemType
    <2>2. K \in SUBSET Cells /\ \A i \in K : m.cells.pos[i] # -1 /\ dst \notin m.cells.seq[i]
      BY <1>2, HitsUsed DEF MInv
    <2>3. CInv(m.cells) /\ m.head \in 0 .. NCells
      BY DEF MInv, MemType
    <2> HIDE DEF K, d
    <2>4. CInv(c) /\ \A i \in Cells : CpAt(m.cells, c, IF i \in K THEN {dst} ELSE {}, i)
      BY <2>2, <2>3, CpFacts
    <2> HIDE DEF c
    <2>5. MInv(d) /\ d.cells = c /\ d.data = m.data
      BY <2>1, <2>3, <2>4, RecelledInv
    <2>6. \A i \in Cells : Thinner(m.cells, c, i)
      BY <2>4 DEF CpAt, Thinner
    <2>7. MInv(d) /\ (Phased(m) => Phased(d))
      BY <2>5, <2>6, ThinnerPhase
    <2> QED  BY <1>2, <2>4, <2>5, <2>7 DEF Keeps, d, K
  <1> QED  BY <1>1, <1>2

LEMMA SeqKeepKeeps ==
    ASSUME NEW m, MInv(m), NEW s \in Seqs
    PROVE  LET d == Seq_keep(m, s)
           IN  /\ Keeps(m, d) /\ d.data = m.data
               /\ \A i \in Cells : KeepAt(m.cells, d.cells, s, i)
  <1> DEFINE c == KeepLoop(m.cells, s)
             d == Seq_keep(m, s)
  <1>1. d = Recelled(m, c, HeadToFreed(m, c))
    BY DEF Seq_keep, KeepLoop, Recelled
  <1>2. CInv(c) /\ \A i \in Cells : KeepAt(m.cells, c, s, i)
    BY KeepFacts DEF MInv
  <1> HIDE DEF c, d
  <1>3. HeadToFreed(m, c) \in 0 .. NCells
    BY HeadInRange
  <1>4. MInv(d) /\ d.cells = c /\ d.data = m.data
    BY <1>1, <1>2, <1>3, RecelledInv
  <1>5. \A i \in Cells : Thinner(m.cells, c, i)
    <2>1. \A i \in Cells : m.cells.pos[i] = -1 => m.cells.seq[i] = {}
      BY DEF MInv, CInv, Inv, Used
    <2> QED  BY <1>2, <2>1 DEF KeepAt, Thinner, Blanked
  <1>6. MInv(d) /\ (Phased(m) => Phased(d))
    BY <1>4, <1>5, ThinnerPhase
  <1> QED  BY <1>2, <1>4, <1>6 DEF Keeps, d

LEMMA SeqAddKeeps ==
    ASSUME NEW m, MInv(m), NEW s \in Seqs, NEW r, NEW e \in Int,
           \A i \in Hits(m.cells, s, r) :
               m.cells.pos[i] + e < 0 \/ m.cells.pos[i] + e \in Positions
    PROVE  LET d == Seq_add(m, s, r, e)
           IN  /\ Keeps(m, d) /\ d.data = m.data
               /\ e = 0 \/ Lo(r) = Hi(r) => d = m
               /\ ~(e = 0 \/ Lo(r) = Hi(r)) => \A i \in Cells :
                     IF i \in Hits(m.cells, s, r) THEN AddAt(m.cells, d.cells, e, i)
                     ELSE Same(m.cells, d.cells, i)
  <1> DEFINE K == Hits(m.cells, s, r)
             c == AddLoop(m.cells, e, K)
             freed == m.cells.used \ c.used
             h == IF freed = {} THEN 0 ELSE Min(freed)
             d == Seq_add(m, s, r, e)
  <1>1. d = IF e = 0 \/ Lo(r) = Hi(r) THEN m ELSE Recelled(m, c, h)
    BY DEF Seq_add, AddLoop, Recelled
  <1>2. K \in SUBSET Cells /\ \A i \in K : m.cells.pos[i] # -1
    BY HitsUsed DEF MInv
  <1>3. CInv(m.cells) /\ m.cells \in CellsType
    BY DEF MInv, MemType
  <1> HIDE DEF d
  <1>4. /\ CInv(c)
        /\ \A i \in Cells : IF i \in K THEN AddAt(m.cells, c, e, i) ELSE Same(m.cells, c, i)
    BY <1>2, <1>3, AddFacts
  <1> HIDE DEF K, c
  <1>5. h \in 0 .. NCells
    <2>1. freed \in SUBSET Nat /\ (\A i \in freed : i <= NCells) /\ NCells \in Nat
      BY <1>3, CellsFacts DEF CellsType
    <2>2. \A i \in freed : i \in 0 .. NCells
      BY <2>1
    <2>3. 0 \in 0 .. NCells
      BY <2>1
    <2> HIDE DEF freed
    <2>4. freed # {} => Min(freed) \in freed
      BY <2>1, MinFacts
    <2> QED  BY <2>2, <2>3, <2>4
  <1> HIDE DEF h
  <1>6. LET x == Recelled(m, c, h) IN MInv(x) /\ x.cells = c /\ x.data = m.data
    BY <1>4, <1>5, RecelledInv
  <1>7. Phased(m) => Phased(Recelled(m, c, h))
    <2> SUFFICES ASSUME Phased(m), NEW i \in Cells, c.pos[i] # -1
                 PROVE  c.pos[i] = m.data[i].rope + c.shift[i]
      BY <1>6 DEF Phased
    <2>1. m.cells.pos[i] # -1 => m.cells.pos[i] = m.data[i].rope + m.cells.shift[i]
      BY DEF Phased
    <2>2. m.cells.pos[i] \in Int /\ m.cells.shift[i] \in Int /\ m.data[i].rope \in Int
      BY <1>3, PosInt DEF MInv, MemType, DataType, CellsType
    <2>3. CASE i \in K
      BY <1>2, <1>4, <2>1, <2>2, <2>3 DEF AddAt, Blanked
    <2>4. CASE i \notin K
      BY <1>4, <2>1, <2>4 DEF Same
    <2> QED  BY <2>3, <2>4
  <1>8. MInv(d) /\ (Phased(m) => Phased(d))
    BY <1>1, <1>6, <1>7
  <1> QED  BY <1>1, <1>4, <1>6, <1>8 DEF Keeps, d, K

LEMMA SeqDivKeeps ==
    ASSUME NEW m, MInv(m), NEW s \in Seqs, NEW r, NEW e \in Nat \ {0},
           \A i \in Hits(m.cells, s, r) : m.cells.pos[i] \div e \in Positions
    PROVE  MInv(Seq_div(m, s, r, e)) /\ (e = 1 => Seq_div(m, s, r, e) = m)
  <1> DEFINE K == Hits(m.cells, s, r)
             c == DivLoop(m.cells, e, K)
             d == Seq_div(m, s, r, e)
  <1>1. d = IF e = 1 THEN m ELSE Recelled(m, c, m.head)
    BY DEF Seq_div, DivLoop, Recelled, MInv, MemType
  <1>2. K \in SUBSET Cells /\ \A i \in K : m.cells.pos[i] # -1
    BY HitsUsed DEF MInv
  <1>3. CInv(m.cells) /\ m.head \in 0 .. NCells
    BY DEF MInv, MemType
  <1> HIDE DEF d
  <1>4. CInv(c)
    BY <1>2, <1>3, DivFacts
  <1> HIDE DEF K, c
  <1>5. MInv(Recelled(m, c, m.head))
    BY <1>3, <1>4, RecelledInv
  <1> QED  BY <1>1, <1>5 DEF d

(* The same entries in the same cells. *)
LEMMA SameHeld ==
    ASSUME NEW m, NEW d,
           \A i \in Cells : EntAt(d, i) = EntAt(m, i) /\ d.cells.pos[i] = m.cells.pos[i]
    PROVE  Held(d) = Held(m)
  <1> DEFINE A == {j \in Cells : m.cells.pos[j] # -1}
             B == {j \in Cells : d.cells.pos[j] # -1}
  <1>1. A = B /\ \A i \in A : EntAt(d, i) = EntAt(m, i)
    OBVIOUS
  <1>2. Held(m) = {EntAt(m, i) : i \in A} /\ Held(d) = {EntAt(d, i) : i \in B}
    BY DEF Held
  <1> HIDE DEF A, B
  <1> QED  BY <1>1, <1>2

(* The K-shift rotates the data to the positions, and no shift is left. *)
LEMMA KshiftKeeps ==
    ASSUME NEW m, MInv(m)
    PROVE  /\ Keeps(m, Kshift(m)) /\ ~Kshift(m).cells.has_shift
           /\ \A i \in Cells : Kshift(m).cells.pos[i] = m.cells.pos[i]
           /\ Held(Kshift(m)) = Held(m)
  <1> DEFINE c == ResetShift(m.cells)
             d == Kshift(m)
             x == [i \in Cells |-> IF IsEmpty(m.cells, i) THEN m.data[i]
                                   ELSE [m.data[i] EXCEPT !.rope = @ + m.cells.shift[i]]]
  <1>1. m \in MemType /\ CInv(m.cells) /\ m.cells \in CellsType /\ m.data \in DataType
    BY DEF MInv, MemType
  <1>2. /\ CInv(c) /\ c.pos = m.cells.pos /\ c.seq = m.cells.seq
        /\ c.shift = [i \in Cells |-> 0] /\ ~c.has_shift
    <2>1. Inv(c)
      BY <1>1, ResetShiftInv DEF CInv
    <2>2. c.pos = m.cells.pos /\ c.seq = m.cells.seq /\ c.shift = [i \in Cells |-> 0] /\ ~c.has_shift
      BY DEF ResetShift
    <2>3. Owned(m.cells)
      BY <1>1 DEF CInv
    <2> HIDE DEF c
    <2>4. Owned(c)
      BY <2>2, <2>3 DEF Owned
    <2> QED  BY <2>1, <2>2, <2>4 DEF CInv
  <1>3. ASSUME NEW i \in Cells
        PROVE  /\ x[i] \in [tok : Toks \cup {"none"}, rope : Int]
               /\ x[i].tok = m.data[i].tok
               /\ m.cells.pos[i] # -1 => x[i].rope = m.data[i].rope + m.cells.shift[i]
    <2>1. m.data[i] \in [tok : Toks \cup {"none"}, rope : Int] /\ m.cells.shift[i] \in Int
      BY <1>1 DEF DataType, CellsType
    <2>2. x[i] = IF m.cells.pos[i] = -1 THEN m.data[i]
                 ELSE [m.data[i] EXCEPT !.rope = m.data[i].rope + m.cells.shift[i]]
      BY DEF IsEmpty
    <2> HIDE DEF x
    <2> QED  BY <2>1, <2>2
  <1>4. x \in DataType
    <2>1. x = [i \in Cells |-> x[i]]
      OBVIOUS
    <2> HIDE DEF x
    <2> QED  BY <1>3, <2>1 DEF DataType
  <1>5. d = [m EXCEPT !.cells = c, !.data = x]
    BY DEF Kshift
  <1>6. c \in CellsType
    BY <1>2 DEF CInv, Inv
  <1> HIDE DEF c, d, x
  <1>7. d \in MemType /\ d.cells = c /\ d.data = x
    BY <1>1, <1>4, <1>5, <1>6 DEF MemType
  <1>8. Phased(m) => Phased(d)
    <2> SUFFICES ASSUME Phased(m), NEW i \in Cells, c.pos[i] # -1
                 PROVE  c.pos[i] = x[i].rope + c.shift[i]
      BY <1>7 DEF Phased
    <2>1. m.cells.pos[i] # -1 /\ c.pos[i] = m.cells.pos[i] /\ c.shift[i] = 0
      BY <1>2
    <2>2. m.cells.pos[i] = m.data[i].rope + m.cells.shift[i]
      BY <2>1 DEF Phased
    <2>3. x[i].rope = m.cells.pos[i] /\ m.cells.pos[i] \in Int
      BY <1>1, <1>3, <2>1, <2>2, PosInt
    <2> QED  BY <2>1, <2>3
  <1>9. Held(d) = Held(m)
    <2>1. \A i \in Cells : EntAt(d, i) = EntAt(m, i) /\ d.cells.pos[i] = m.cells.pos[i]
      BY <1>2, <1>3, <1>7 DEF EntAt
    <2> QED  BY <2>1, SameHeld
  <1> QED  BY <1>2, <1>7, <1>8, <1>9 DEF Keeps, MInv, d

(* Moving the metadata keeps the indexes; once the data has followed, each   *)
(* cell's data is rotated as its metadata says.                              *)
LEMMA MoveKeeps ==
    ASSUME NEW m, MInv(m), NEW ids, MovesOK(m.cells, ids)
    PROVE  LET d == MoveCells(m, ids)
               f == MoveData(d, ids)
           IN  /\ MInv(d) /\ Keeps(m, f) /\ Held(f) = Held(m)
               /\ d.cells.has_shift = m.cells.has_shift /\ f.cells.has_shift = m.cells.has_shift
  <1> DEFINE d == MoveCells(m, ids)
             f == MoveData(d, ids)
             c == MvLoop(m.cells, ids)
             From(i) == \E j \in DOMAIN ids : ids[j] = i
             x == [i \in Cells |-> IF From(i) THEN m.data[CHOOSE j \in DOMAIN ids : ids[j] = i]
                                   ELSE m.data[i]]
  <1>1. m \in MemType /\ CInv(m.cells) /\ m.cells \in CellsType /\ m.data \in DataType
    BY DEF MInv, MemType
  <1>2. /\ CInv(c) /\ c.has_shift = m.cells.has_shift
        /\ \A j \in DOMAIN ids : Took(m.cells, c, j, ids[j]) /\ Blanked(c, j)
        /\ \A i \in Cells : i \notin DOMAIN ids /\ (\A j \in DOMAIN ids : ids[j] # i)
                              => Same(m.cells, c, i)
    BY <1>1, MvFacts
  <1>3. d = Recelled(m, c, 0)
    BY DEF MoveCells, MvLoop, Recelled
  <1>4. 0 \in 0 .. NCells
    BY CellsFacts
  <1> HIDE DEF c, d
  <1>5. MInv(d) /\ d.cells = c /\ d.data = m.data
    BY <1>2, <1>3, <1>4, RecelledInv
  <1>6. \A j \in DOMAIN ids : j \in Cells /\ ids[j] \in Cells /\ m.cells.pos[j] # -1
    BY DEF MovesOK
  <1>7. \A i, j \in DOMAIN ids : ids[i] = ids[j] => i = j
    BY DEF MovesOK
  <1>8. /\ \A j \in DOMAIN ids : x[ids[j]] = m.data[j]
        /\ \A i \in Cells : ~From(i) => x[i] = m.data[i]
    BY <1>6, <1>7
  <1>9. x \in DataType
    <2>1. \A i \in Cells : m.data[i] \in [tok : Toks \cup {"none"}, rope : Int]
      BY <1>1 DEF DataType
    <2>2. \A i \in Cells : x[i] \in [tok : Toks \cup {"none"}, rope : Int]
      <3> HIDE DEF x
      <3> QED  BY <1>6, <1>8, <2>1
    <2>3. x = [i \in Cells |-> x[i]]
      OBVIOUS
    <2> HIDE DEF x
    <2> QED  BY <2>2, <2>3 DEF DataType
  <1>10. f = [d EXCEPT !.data = x]
    BY <1>5 DEF MoveData
  <1>11. d \in MemType
    BY <1>5 DEF MInv
  <1> HIDE DEF f, x
  <1>12. f \in MemType /\ f.cells = c /\ f.data = x
    BY <1>5, <1>9, <1>10, <1>11 DEF MemType
  <1>13. Phased(m) => Phased(f)
    <2> SUFFICES ASSUME Phased(m), NEW i \in Cells, c.pos[i] # -1
                 PROVE  c.pos[i] = x[i].rope + c.shift[i]
      BY <1>12 DEF Phased
    <2>1. CASE From(i)
      <3>1. PICK j \in DOMAIN ids : ids[j] = i
        BY <2>1
      <3>2. m.cells.pos[j] = m.data[j].rope + m.cells.shift[j]
        BY <1>6, <3>1 DEF Phased
      <3> QED  BY <1>2, <1>8, <3>1, <3>2 DEF Took
    <2>2. CASE ~From(i)
      <3>1. i \notin DOMAIN ids
        BY <1>2 DEF Blanked
      <3>2. Same(m.cells, c, i)
        BY <1>2, <2>2, <3>1
      <3> QED  BY <1>8, <2>2, <3>2 DEF Same, Phased
    <2> QED  BY <2>1, <2>2
  <1>14. Held(f) = Held(m)
    <2> DEFINE A == {j \in Cells : m.cells.pos[j] # -1}
               B == {j \in Cells : f.cells.pos[j] # -1}
    <2>1. \A i \in B : \E j \in A : EntAt(f, i) = EntAt(m, j)
      <3> SUFFICES ASSUME NEW i \in Cells, c.pos[i] # -1  PROVE \E j \in A : EntAt(f, i) = EntAt(m, j)
        BY <1>12
      <3>1. CASE From(i)
        <4>1. PICK j \in DOMAIN ids : ids[j] = i
          BY <3>1
        <4>2. j \in A /\ EntAt(f, i) = EntAt(m, j)
          BY <1>2, <1>6, <1>8, <1>12, <4>1 DEF Took, EntAt
        <4> QED  BY <4>2
      <3>2. CASE ~From(i)
        <4>1. i \notin DOMAIN ids
          BY <1>2 DEF Blanked
        <4>2. Same(m.cells, c, i)
          BY <1>2, <3>2, <4>1
        <4>3. i \in A /\ EntAt(f, i) = EntAt(m, i)
          BY <1>8, <1>12, <3>2, <4>2 DEF Same, EntAt
        <4> QED  BY <4>3
      <3> QED  BY <3>1, <3>2
    <2>2. \A j \in A : \E i \in B : EntAt(f, i) = EntAt(m, j)
      <3> SUFFICES ASSUME NEW j \in Cells, m.cells.pos[j] # -1
                   PROVE  \E i \in B : EntAt(f, i) = EntAt(m, j)
        OBVIOUS
      <3>1. CASE j \in DOMAIN ids
        <4>1. ids[j] \in B /\ EntAt(f, ids[j]) = EntAt(m, j)
          BY <1>2, <1>6, <1>8, <1>12, <3>1 DEF Took, EntAt
        <4> QED  BY <4>1
      <3>2. CASE j \notin DOMAIN ids
        <4>1. ~From(j)
          BY DEF MovesOK
        <4>2. Same(m.cells, c, j)
          BY <1>2, <3>2, <4>1
        <4>3. j \in B /\ EntAt(f, j) = EntAt(m, j)
          BY <1>8, <1>12, <4>1, <4>2 DEF Same, EntAt
        <4> QED  BY <4>3
      <3> QED  BY <3>1, <3>2
    <2>3. Held(m) = {EntAt(m, i) : i \in A} /\ Held(f) = {EntAt(f, i) : i \in B}
      BY DEF Held
    <2> HIDE DEF A, B
    <2> QED  BY <2>1, <2>2, <2>3
  <1> QED  BY <1>2, <1>5, <1>12, <1>13, <1>14 DEF Keeps, MInv, d, f

(* update() keeps the memory's invariant, also when a graph fails; if none   *)
(* fails, it leaves no pending shift and keeps the phase.                    *)
LEMMA UpdateKeeps ==
    ASSUME NEW m, MInv(m), NEW b, NEW d \in Update(m, b)
    PROVE  MInv(d) /\ (Faults = {} => Keeps(m, d) /\ ~d.cells.has_shift /\ Held(d) = Held(m))
  <1> DEFINE ids == Plan(m, b)
             m1  == IF m.cells.has_shift THEN Kshift(m) ELSE m
             moved == MoveCells(m1, ids)
             final == IF ids = <<>> THEN m1 ELSE MoveData(moved, ids)
  <1>1. \/ d = final
        \/ d = m /\ Faults # {}
        \/ d = moved /\ Faults # {}
    BY DEF Update
  <1>2. Keeps(m, m1) /\ MInv(m1) /\ ~m1.cells.has_shift /\ Held(m1) = Held(m)
    BY KshiftKeeps DEF Keeps
  <1>3. MovesOK(m.cells, ids)
    <2>1. CASE b
      BY <2>1, DefragFacts DEF Plan, MInv
    <2>2. CASE ~b
      <3>1. ids = <<>> /\ DOMAIN <<>> = {}
        BY <2>2 DEF Plan
      <3> QED  BY <3>1 DEF MovesOK
    <2> QED  BY <2>1, <2>2
  <1>4. \A i \in Cells : m1.cells.pos[i] = m.cells.pos[i]
    BY KshiftKeeps
  <1> HIDE DEF ids, m1
  <1>5. MovesOK(m1.cells, ids)
    BY <1>3, <1>4 DEF MovesOK
  <1>6. /\ MInv(moved) /\ Keeps(m1, MoveData(moved, ids)) /\ ~MoveData(moved, ids).cells.has_shift
        /\ Held(MoveData(moved, ids)) = Held(m1)
    BY <1>2, <1>5, MoveKeeps
  <1>7. Keeps(m, final) /\ MInv(final) /\ ~final.cells.has_shift /\ Held(final) = Held(m)
    BY <1>2, <1>6 DEF Keeps
  <1> HIDE DEF moved, final
  <1> QED  BY <1>1, <1>6, <1>7

-----------------------------------------------------------------------------
(* Placing ubatches, on trial and for good. *)

(* d is m with the tokens toks in the cells idxs, and perhaps some purged. *)
Applied(m, d, idxs, toks) ==
    /\ MInv(d) /\ d.data = m.data /\ d.cells.has_shift = m.cells.has_shift
    /\ \A i \in Range(idxs) : d.cells.shift[i] = 0
    /\ \A i \in Range(idxs) : d.cells.pos[i] # -1 =>
          \E k \in 1 .. Len(idxs) : /\ idxs[k] = i /\ d.cells.pos[i] = toks[k].pos
                                    /\ d.cells.seq[i] \subseteq toks[k].seqs
    /\ \A i \in Cells : i \notin Range(idxs) => Thinner(m.cells, d.cells, i)

(* Apply_ubatch as a loop of seq_rm() calls on the memory with the tokens. *)
LEMMA ApplyParts ==
    ASSUME NEW m, MInv(m), NEW idxs, NEW toks, SlotOK(idxs, toks)
    PROVE  LET d == Apply_ubatch(m, idxs, toks)
               c == PlaceAll(m.cells, idxs, toks)
               over(s) == Max({-1} \cup {m.cells.pos[i] : i \in {x \in Range(idxs) :
                                                                   m.cells.seq[x] = {s}}})
               R == [i \in Cells |-> {s \in c.seq[i] : c.pos[i] <= over(s)}]
           IN  /\ MInv(d) /\ d.data = m.data /\ d.cells.has_shift = m.cells.has_shift
               /\ \A i \in Cells : RmAt(c, d.cells, R[i], i)
               /\ \A i \in Cells : Thinner(c, d.cells, i)
  <1> DEFINE d == Apply_ubatch(m, idxs, toks)
             c == PlaceAll(m.cells, idxs, toks)
             over(s) == Max({-1} \cup {m.cells.pos[i] : i \in {x \in Range(idxs) :
                                                                 m.cells.seq[x] = {s}}})
             R == [i \in Cells |-> {s \in c.seq[i] : c.pos[i] <= over(s)}]
             m1 == [m EXCEPT !.cells = c]
             h  == idxs[Len(idxs)] + 1
  <1>1. d = [RmAll(m1, R) EXCEPT !.head = h]
    BY DEF Apply_ubatch
  <1>2. m \in MemType /\ CInv(m.cells) /\ m.head \in 0 .. NCells
    BY DEF MInv, MemType
  <1>3. CInv(c) /\ c.has_shift = m.cells.has_shift
    BY <1>2, PlaceFacts
  <1>4. \A i \in Cells : R[i] \in SUBSET c.seq[i]
    OBVIOUS
  <1> HIDE DEF c, R
  <1>5. m1 = Recelled(m, c, m.head)
    BY <1>2 DEF Recelled, MemType
  <1> HIDE DEF m1
  <1>6. MInv(m1) /\ m1.cells = c /\ m1.data = m.data
    BY <1>2, <1>3, <1>5, RecelledInv
  <1> DEFINE x == RmAll(m1, R)
  <1>7. /\ MInv(x) /\ x.data = m.data /\ x.cells.has_shift = m.cells.has_shift
        /\ \A i \in Cells : RmAt(c, x.cells, R[i], i)
        /\ \A i \in Cells : Thinner(c, x.cells, i)
    BY <1>3, <1>4, <1>6, RmAllFacts
  <1> HIDE DEF x
  <1>8. h \in 0 .. NCells
    <2>1. idxs \in Seq(Cells) /\ Len(idxs) \in 1 .. Len(idxs)
      BY DEF SlotOK, UbatchOK
    <2>2. idxs[Len(idxs)] \in Cells
      BY <2>1
    <2> QED  BY <2>2, CellsFacts
  <1> HIDE DEF h
  <1>9. d = Recelled(x, x.cells, h) /\ CInv(x.cells)
    BY <1>1, <1>7 DEF Recelled, MInv, MemType, x
  <1> HIDE DEF d
  <1>10. MInv(d) /\ d.cells = x.cells /\ d.data = x.data
    BY <1>7, <1>8, <1>9, RecelledInv
  <1> QED  BY <1>7, <1>10 DEF d, c, R

LEMMA InRange ==
    ASSUME NEW idxs \in Seq(Cells), NEW i
    PROVE  i \in Range(idxs) <=> \E k \in 1 .. Len(idxs) : idxs[k] = i
  BY DEF Range

LEMMA ApplyFacts ==
    ASSUME NEW m, MInv(m), NEW idxs, NEW toks, SlotOK(idxs, toks)
    PROVE  Applied(m, Apply_ubatch(m, idxs, toks), idxs, toks)
  <1> DEFINE d == Apply_ubatch(m, idxs, toks)
             c == PlaceAll(m.cells, idxs, toks)
             over(s) == Max({-1} \cup {m.cells.pos[i] : i \in {x \in Range(idxs) :
                                                                 m.cells.seq[x] = {s}}})
             R == [i \in Cells |-> {s \in c.seq[i] : c.pos[i] <= over(s)}]
  <1>1. /\ MInv(d) /\ d.data = m.data /\ d.cells.has_shift = m.cells.has_shift
        /\ \A i \in Cells : RmAt(c, d.cells, R[i], i)
        /\ \A i \in Cells : Thinner(c, d.cells, i)
    BY ApplyParts
  <1>2. /\ \A k \in 1 .. Len(idxs) :
              \E l \in 1 .. Len(idxs) : idxs[l] = idxs[k] /\ PlacedAt(c, toks[l], idxs[k])
        /\ \A i \in Cells : i \notin Range(idxs) => Same(m.cells, c, i)
    BY PlaceFacts DEF MInv
  <1>3. idxs \in Seq(Cells)
    BY DEF SlotOK
  <1>4. \A i \in Range(idxs) : i \in Cells /\ \E l \in 1 .. Len(idxs) : idxs[l] = i /\ PlacedAt(c, toks[l], i)
    <2> SUFFICES ASSUME NEW i \in Range(idxs)
                 PROVE  i \in Cells /\ \E l \in 1 .. Len(idxs) : idxs[l] = i /\ PlacedAt(c, toks[l], i)
      OBVIOUS
    <2> HIDE DEF c
    <2>1. PICK k \in 1 .. Len(idxs) : idxs[k] = i
      BY <1>3, InRange
    <2>2. i \in Cells
      BY <1>3, <2>1
    <2> QED  BY <1>2, <2>1, <2>2
  <1> HIDE DEF d, c, R
  <1>5. \A i \in Cells : RmAt(c, d.cells, R[i], i)
    BY <1>1
  <1>6. \A i \in Range(idxs) : d.cells.shift[i] = 0
    <2>1. \A i \in Range(idxs) : i \in Cells /\ c.shift[i] = 0
      BY <1>4 DEF PlacedAt
    <2> QED  BY <1>5, <2>1 DEF RmAt
  <1>7. \A i \in Range(idxs) : d.cells.pos[i] # -1 =>
          \E k \in 1 .. Len(idxs) : /\ idxs[k] = i /\ d.cells.pos[i] = toks[k].pos
                                    /\ d.cells.seq[i] \subseteq toks[k].seqs
    <2> SUFFICES ASSUME NEW i \in Range(idxs), d.cells.pos[i] # -1
                 PROVE  \E k \in 1 .. Len(idxs) :
                           /\ idxs[k] = i /\ d.cells.pos[i] = toks[k].pos
                           /\ d.cells.seq[i] \subseteq toks[k].seqs
      OBVIOUS
    <2>1. PICK l \in 1 .. Len(idxs) : idxs[l] = i /\ PlacedAt(c, toks[l], i)
      BY <1>4
    <2>2. i \in Cells
      BY <1>4
    <2>3. d.cells.pos[i] = c.pos[i] /\ d.cells.seq[i] \subseteq c.seq[i]
      BY <1>1, <1>5, <2>2 DEF RmAt, Thinner
    <2> QED  BY <2>1, <2>3 DEF PlacedAt
  <1>8. \A i \in Cells : i \notin Range(idxs) => Thinner(m.cells, d.cells, i)
    BY <1>1, <1>2 DEF Thinner, Same
  <1> QED  BY <1>1, <1>6, <1>7, <1>8 DEF Applied, d

(* Without a window the slot's cells are empty and nothing is purged. *)
LEMMA ApplyFree ==
    ASSUME NEW m, MInv(m), NEW idxs, NEW toks, SlotOK(idxs, toks),
           \A i \in Range(idxs) : m.cells.pos[i] = -1
    PROVE  LET d == Apply_ubatch(m, idxs, toks)
           IN  /\ \A i \in Range(idxs) : d.cells.pos[i] # -1
               /\ \A i \in Range(idxs) : \E k \in 1 .. Len(idxs) :
                     idxs[k] = i /\ d.cells.pos[i] = toks[k].pos /\ d.cells.seq[i] = toks[k].seqs
               /\ \A i \in Cells : i \notin Range(idxs) =>
                     d.cells.pos[i] = m.cells.pos[i] /\ d.cells.seq[i] = m.cells.seq[i]
  <1> DEFINE d == Apply_ubatch(m, idxs, toks)
             c == PlaceAll(m.cells, idxs, toks)
             over(s) == Max({-1} \cup {m.cells.pos[i] : i \in {x \in Range(idxs) :
                                                                 m.cells.seq[x] = {s}}})
             R == [i \in Cells |-> {s \in c.seq[i] : c.pos[i] <= over(s)}]
  <1>1. \A i \in Cells : RmAt(c, d.cells, R[i], i)
    BY ApplyParts
  <1>2. /\ CInv(c)
        /\ \A k \in 1 .. Len(idxs) :
              \E l \in 1 .. Len(idxs) : idxs[l] = idxs[k] /\ PlacedAt(c, toks[l], idxs[k])
        /\ \A i \in Cells : i \notin Range(idxs) => Same(m.cells, c, i)
    BY PlaceFacts DEF MInv
  <1>3. idxs \in Seq(Cells) /\ \A i \in Range(idxs) : i \in Cells
    BY DEF SlotOK, Range
  <1> HIDE DEF d, c
  <1>4. \A s : over(s) = -1
    <2> SUFFICES ASSUME NEW s  PROVE over(s) = -1
      OBVIOUS
    <2>1. \A x \in Range(idxs) : m.cells.seq[x] = {}
      BY <1>3 DEF MInv, CInv, Inv, Used
    <2>2. {x \in Range(idxs) : m.cells.seq[x] = {s}} = {}
      BY <2>1
    <2>3. {-1} \cup {m.cells.pos[i] : i \in {x \in Range(idxs) : m.cells.seq[x] = {s}}} = {-1}
      BY <2>2
    <2>4. Max({-1}) = -1
      BY DEF Max
    <2> QED  BY <2>3, <2>4
  <1> HIDE DEF over
  <1>5. \A i \in Cells : R[i] = {}
    <2> SUFFICES ASSUME NEW i \in Cells  PROVE {s \in c.seq[i] : c.pos[i] <= over(s)} = {}
      OBVIOUS
    <2>1. c.pos[i] \in Int /\ (c.pos[i] # -1 => c.pos[i] \in Nat) /\ (c.pos[i] = -1 => c.seq[i] = {})
      BY <1>2, PosInt DEF CInv, Inv, Used
    <2> QED  BY <1>4, <2>1
  <1> HIDE DEF R
  <1>6. \A i \in Cells : d.cells.pos[i] = c.pos[i] /\ d.cells.seq[i] = c.seq[i]
    <2>1. \A i \in Cells : c.seq[i] = {} => c.pos[i] = -1
      BY <1>2 DEF CInv, Owned
    <2> QED  BY <1>1, <1>5, <2>1 DEF RmAt
  <1>7. \A i \in Range(idxs) : c.pos[i] # -1 /\ \E k \in 1 .. Len(idxs) :
           idxs[k] = i /\ c.pos[i] = toks[k].pos /\ c.seq[i] = toks[k].seqs
    <2> SUFFICES ASSUME NEW i \in Range(idxs)
                 PROVE  c.pos[i] # -1 /\ \E k \in 1 .. Len(idxs) :
                           idxs[k] = i /\ c.pos[i] = toks[k].pos /\ c.seq[i] = toks[k].seqs
      OBVIOUS
    <2>1. PICK k \in 1 .. Len(idxs) : idxs[k] = i
      BY <1>3, InRange
    <2>2. PICK l \in 1 .. Len(idxs) : idxs[l] = i /\ PlacedAt(c, toks[l], i)
      BY <1>2, <2>1
    <2>3. toks[l] \in TokType
      BY <2>2 DEF SlotOK, UbatchOK, TokOK
    <2> QED  BY <2>2, <2>3, CellsAssumption DEF PlacedAt, TokType
  <1>8. \A i \in Cells : i \notin Range(idxs) =>
           d.cells.pos[i] = m.cells.pos[i] /\ d.cells.seq[i] = m.cells.seq[i]
    BY <1>2, <1>6 DEF Same
  <1>9. \A i \in Range(idxs) : d.cells.pos[i] # -1 /\ \E k \in 1 .. Len(idxs) :
           idxs[k] = i /\ d.cells.pos[i] = toks[k].pos /\ d.cells.seq[i] = toks[k].seqs
    <2> SUFFICES ASSUME NEW i \in Range(idxs)
                 PROVE  d.cells.pos[i] # -1 /\ \E k \in 1 .. Len(idxs) :
                           idxs[k] = i /\ d.cells.pos[i] = toks[k].pos /\ d.cells.seq[i] = toks[k].seqs
      OBVIOUS
    <2>1. d.cells.pos[i] = c.pos[i] /\ d.cells.seq[i] = c.seq[i]
      BY <1>3, <1>6
    <2> QED  BY <1>7, <2>1
  <1> QED  BY <1>8, <1>9 DEF d

-----------------------------------------------------------------------------
(* The trial of all ubatches. *)

(* The stages of a trial, first to last. *)
TrialRun(a, m, us) ==
    /\ a[0] = <<[ok |-> TRUE, idxs |-> <<>>, m |-> m]>>
    /\ \A k \in 1 .. Len(us) : a[k] = Append(a[k - 1], TryPlace(a[k - 1][k], us[k]))
    /\ Trial(m, us) = a[Len(us)]

(* The cells of the stages p are set back, last to first. *)
UndoneRun(a, p, n) ==
    /\ a[0] = p[n + 1].m
    /\ \A k \in 1 .. n : a[k] = SetBack(a[k - 1], p[n - k + 2].idxs, p[n - k + 1].m)
    /\ Undone(p, n) = a[n]

(* The tokens of a batch get their positions, first to last. *)
PosRun(a, c, batch) ==
    /\ a[0] = [p0 |-> [s \in Seqs |-> SeqPosMax(c, s) + 1], toks |-> <<>>]
    /\ \A k \in 1 .. Len(batch) : a[k] = Positioned(a[k - 1], batch[k])
    /\ WithPos(c, batch) = a[Len(batch)].toks

(* The ubatches are tried one by one. *)
LEMMA TrialSteps ==
    ASSUME NEW m, NEW us, Len(us) \in Nat
    PROVE  \E a : TrialRun(a, m, us)
  <1> DEFINE base == <<[ok |-> TRUE, idxs |-> <<>>, m |-> m]>>
             step(x, k) == Append(x, TryPlace(x[k], us[k]))
             S == {n \in Nat : \E f : f = [k \in 0 .. n |->
                        IF k = 0 THEN base ELSE step(f[k - 1], k)]}
             a == CHOOSE f : f = [k \in 0 .. Len(us) |->
                        IF k = 0 THEN base ELSE step(f[k - 1], k)]
  <1>1. Trial(m, us) = a[Len(us)]
    BY DEF Trial
  <1> HIDE DEF base, step
  <1>2. 0 \in S
    <2> DEFINE f == [k \in 0 .. 0 |-> base]
    <2>1. f = [k \in 0 .. 0 |-> IF k = 0 THEN base ELSE step(f[k - 1], k)]
      OBVIOUS
    <2> HIDE DEF f
    <2> QED  BY <2>1
  <1>3. ASSUME NEW n \in Nat, n \in S  PROVE n + 1 \in S
    <2>1. PICK f : f = [k \in 0 .. n |-> IF k = 0 THEN base ELSE step(f[k - 1], k)]
      BY <1>3
    <2> DEFINE g == [k \in 0 .. n + 1 |-> IF k = n + 1 THEN step(f[n], n + 1) ELSE f[k]]
    <2>2. ASSUME NEW k \in 0 .. n + 1
          PROVE  g[k] = IF k = 0 THEN base ELSE step(g[k - 1], k)
      <3>1. CASE k = n + 1
        <4>1. (n + 1) - 1 = n /\ n \in 0 .. n + 1 /\ n # n + 1 /\ k # 0
          BY <3>1
        <4>2. g[k - 1] = f[n] /\ g[k] = step(f[n], k)
          BY <3>1, <4>1
        <4> QED  BY <4>1, <4>2
      <3>2. CASE k # n + 1
        <4>1. k \in 0 .. n /\ g[k] = f[k]
          BY <3>2
        <4>2. k # 0 => k - 1 \in 0 .. n + 1 /\ k - 1 # n + 1
          BY <4>1
        <4>3. k # 0 => g[k - 1] = f[k - 1]
          BY <4>2
        <4>4. f[k] = IF k = 0 THEN base ELSE step(f[k - 1], k)
          BY <2>1, <4>1
        <4> QED  BY <4>1, <4>3, <4>4
      <3> QED  BY <3>1, <3>2
    <2>3. g = [k \in 0 .. n + 1 |-> IF k = 0 THEN base ELSE step(g[k - 1], k)]
      BY <2>2
    <2> HIDE DEF g
    <2> QED  BY <2>3
  <1>4. Len(us) \in S
    <2> HIDE DEF S
    <2>1. 0 .. Len(us) \subseteq S
      <3>1. \A k \in 0 .. Len(us) - 1 : k \in S => k + 1 \in S
        BY <1>3
      <3>2. Len(us) \in Nat
        OBVIOUS
      <3> QED  BY <1>2, <3>1, <3>2, Induct
    <2> QED  BY <2>1
  <1>5. a = [k \in 0 .. Len(us) |-> IF k = 0 THEN base ELSE step(a[k - 1], k)]
    <2> HIDE DEF step, base
    <2> QED  BY <1>4
  <1> HIDE DEF a
  <1>6. a[0] = base /\ \A k \in 1 .. Len(us) : a[k] = step(a[k - 1], k)
    BY <1>5
  <1> QED  BY <1>1, <1>6 DEF base, step, TrialRun

(* The stages are undone one by one. *)
LEMMA UndoneSteps ==
    ASSUME NEW p, NEW n \in Nat
    PROVE  \E a : UndoneRun(a, p, n)
  <1> DEFINE base == p[n + 1].m
             step(x, k) == SetBack(x, p[n - k + 2].idxs, p[n - k + 1].m)
             S == {j \in Nat : \E f : f = [k \in 0 .. j |->
                        IF k = 0 THEN base ELSE step(f[k - 1], k)]}
             a == CHOOSE f : f = [k \in 0 .. n |->
                        IF k = 0 THEN base ELSE step(f[k - 1], k)]
  <1>1. Undone(p, n) = a[n]
    BY DEF Undone
  <1> HIDE DEF base, step
  <1>2. 0 \in S
    <2> DEFINE f == [k \in 0 .. 0 |-> base]
    <2>1. f = [k \in 0 .. 0 |-> IF k = 0 THEN base ELSE step(f[k - 1], k)]
      OBVIOUS
    <2> HIDE DEF f
    <2> QED  BY <2>1
  <1>3. ASSUME NEW q \in Nat, q \in S  PROVE q + 1 \in S
    <2>1. PICK f : f = [k \in 0 .. q |-> IF k = 0 THEN base ELSE step(f[k - 1], k)]
      BY <1>3
    <2> DEFINE g == [k \in 0 .. q + 1 |-> IF k = q + 1 THEN step(f[q], q + 1) ELSE f[k]]
    <2>2. ASSUME NEW k \in 0 .. q + 1
          PROVE  g[k] = IF k = 0 THEN base ELSE step(g[k - 1], k)
      <3>1. CASE k = q + 1
        <4>1. (q + 1) - 1 = q /\ q \in 0 .. q + 1 /\ q # q + 1 /\ k # 0
          BY <3>1
        <4>2. g[k - 1] = f[q] /\ g[k] = step(f[q], k)
          BY <3>1, <4>1
        <4> QED  BY <4>1, <4>2
      <3>2. CASE k # q + 1
        <4>1. k \in 0 .. q /\ g[k] = f[k]
          BY <3>2
        <4>2. k # 0 => k - 1 \in 0 .. q + 1 /\ k - 1 # q + 1
          BY <4>1
        <4>3. k # 0 => g[k - 1] = f[k - 1]
          BY <4>2
        <4>4. f[k] = IF k = 0 THEN base ELSE step(f[k - 1], k)
          BY <2>1, <4>1
        <4> QED  BY <4>1, <4>3, <4>4
      <3> QED  BY <3>1, <3>2
    <2>3. g = [k \in 0 .. q + 1 |-> IF k = 0 THEN base ELSE step(g[k - 1], k)]
      BY <2>2
    <2> HIDE DEF g
    <2> QED  BY <2>3
  <1>4. n \in S
    <2> HIDE DEF S
    <2>1. 0 .. n \subseteq S
      <3>1. \A k \in 0 .. n - 1 : k \in S => k + 1 \in S
        BY <1>3
      <3>2. n \in Nat
        OBVIOUS
      <3> QED  BY <1>2, <3>1, <3>2, Induct
    <2> QED  BY <2>1
  <1>5. a = [k \in 0 .. n |-> IF k = 0 THEN base ELSE step(a[k - 1], k)]
    <2> HIDE DEF step, base
    <2> QED  BY <1>4
  <1> HIDE DEF a
  <1>6. a[0] = base /\ \A k \in 1 .. n : a[k] = step(a[k - 1], k)
    BY <1>5
  <1> QED  BY <1>1, <1>6 DEF base, step, UndoneRun

(* The positions are given one by one. *)
LEMMA PosSteps ==
    ASSUME NEW c, NEW batch, Len(batch) \in Nat
    PROVE  \E a : PosRun(a, c, batch)
  <1> DEFINE base == [p0 |-> [s \in Seqs |-> SeqPosMax(c, s) + 1], toks |-> <<>>]
             step(x, k) == Positioned(x, batch[k])
             S == {n \in Nat : \E f : f = [k \in 0 .. n |->
                        IF k = 0 THEN base ELSE step(f[k - 1], k)]}
             a == CHOOSE f : f = [k \in 0 .. Len(batch) |->
                        IF k = 0 THEN base ELSE step(f[k - 1], k)]
  <1>1. WithPos(c, batch) = a[Len(batch)].toks
    BY DEF WithPos
  <1> HIDE DEF base, step
  <1>2. 0 \in S
    <2> DEFINE f == [k \in 0 .. 0 |-> base]
    <2>1. f = [k \in 0 .. 0 |-> IF k = 0 THEN base ELSE step(f[k - 1], k)]
      OBVIOUS
    <2> HIDE DEF f
    <2> QED  BY <2>1
  <1>3. ASSUME NEW n \in Nat, n \in S  PROVE n + 1 \in S
    <2>1. PICK f : f = [k \in 0 .. n |-> IF k = 0 THEN base ELSE step(f[k - 1], k)]
      BY <1>3
    <2> DEFINE g == [k \in 0 .. n + 1 |-> IF k = n + 1 THEN step(f[n], n + 1) ELSE f[k]]
    <2>2. ASSUME NEW k \in 0 .. n + 1
          PROVE  g[k] = IF k = 0 THEN base ELSE step(g[k - 1], k)
      <3>1. CASE k = n + 1
        <4>1. (n + 1) - 1 = n /\ n \in 0 .. n + 1 /\ n # n + 1 /\ k # 0
          BY <3>1
        <4>2. g[k - 1] = f[n] /\ g[k] = step(f[n], k)
          BY <3>1, <4>1
        <4> QED  BY <4>1, <4>2
      <3>2. CASE k # n + 1
        <4>1. k \in 0 .. n /\ g[k] = f[k]
          BY <3>2
        <4>2. k # 0 => k - 1 \in 0 .. n + 1 /\ k - 1 # n + 1
          BY <4>1
        <4>3. k # 0 => g[k - 1] = f[k - 1]
          BY <4>2
        <4>4. f[k] = IF k = 0 THEN base ELSE step(f[k - 1], k)
          BY <2>1, <4>1
        <4> QED  BY <4>1, <4>3, <4>4
      <3> QED  BY <3>1, <3>2
    <2>3. g = [k \in 0 .. n + 1 |-> IF k = 0 THEN base ELSE step(g[k - 1], k)]
      BY <2>2
    <2> HIDE DEF g
    <2> QED  BY <2>3
  <1>4. Len(batch) \in S
    <2> HIDE DEF S
    <2>1. 0 .. Len(batch) \subseteq S
      <3>1. \A k \in 0 .. Len(batch) - 1 : k \in S => k + 1 \in S
        BY <1>3
      <3>2. Len(batch) \in Nat
        OBVIOUS
      <3> QED  BY <1>2, <3>1, <3>2, Induct
    <2> QED  BY <2>1
  <1>5. a = [k \in 0 .. Len(batch) |-> IF k = 0 THEN base ELSE step(a[k - 1], k)]
    <2> HIDE DEF step, base
    <2> QED  BY <1>4
  <1> HIDE DEF a
  <1>6. a[0] = base /\ \A k \in 1 .. Len(batch) : a[k] = step(a[k - 1], k)
    BY <1>5
  <1> QED  BY <1>1, <1>6 DEF base, step, PosRun

StageType == [ok : BOOLEAN, idxs : Seq(Cells), m : MemType]
StageOK(p) == p \in StageType /\ MInv(p.m)

OneToOne(idxs) == \A k, l \in 1 .. Len(idxs) : idxs[k] = idxs[l] => k = l

(* A stage q after the stage p: the cells that are overwritten are usable and  *)
(* have no pending shift then, the others hold what they held or are purged.   *)
(* Without a window, the cells were free, are used now, and nothing is purged. *)
(* Where slots need not be contiguous, only too few usable cells are no slot.  *)
TooFew(c, n) == ~Cont => Cardinality({i \in Cells : CanUse(c, i)}) < n
Tried(p, q, toks) ==
    /\ p.ok /\ ~q.ok => TooFew(p.m.cells, Len(toks))
    /\ StageOK(q) /\ q.m.data = p.m.data /\ q.m.cells.has_shift = p.m.cells.has_shift
    /\ q.ok => p.ok /\ SlotOK(q.idxs, toks) /\ OneToOne(q.idxs)
    /\ \A i \in Range(q.idxs) : i \in Cells /\ q.m.cells.shift[i] = 0
    /\ \A i \in Cells : i \notin Range(q.idxs) => Thinner(p.m.cells, q.m.cells, i)
    /\ SwaType = "none" =>
          /\ \A i \in Range(q.idxs) : p.m.cells.pos[i] = -1 /\ q.m.cells.pos[i] # -1
          /\ \A i \in Cells : i \notin Range(q.idxs) =>
                q.m.cells.pos[i] = p.m.cells.pos[i] /\ q.m.cells.seq[i] = p.m.cells.seq[i]

(* A slot has as many cells as it has entries. *)
LEMMA SlotSize ==
    ASSUME NEW idxs \in Seq(Cells), OneToOne(idxs)
    PROVE  IsFiniteSet(Range(idxs)) /\ Cardinality(Range(idxs)) = Len(idxs)
  <1> DEFINE n == Len(idxs)
  <1>1. idxs \in Bijection(1 .. n, Range(idxs))
    <2>1. idxs \in [1 .. n -> Range(idxs)] /\ \A i \in Range(idxs) : \E k \in 1 .. n : idxs[k] = i
      BY DEF Range
    <2>2. \A k, l \in 1 .. n : idxs[k] = idxs[l] => k = l
      BY DEF OneToOne
    <2> HIDE DEF n
    <2> QED  BY <2>1, <2>2 DEF Bijection, Injection, Surjection, IsInjective
  <1>2. IsFiniteSet(1 .. n) /\ Cardinality(1 .. n) = n
    <2>1. n \in Nat /\ 1 \in Int /\ n \in Int
      OBVIOUS
    <2>2. IsFiniteSet(1 .. n) /\ Cardinality(1 .. n) = IF 1 > n THEN 0 ELSE n - 1 + 1
      BY <2>1, FS_Interval
    <2> HIDE DEF n
    <2> QED  BY <2>1, <2>2
  <1> HIDE DEF n
  <1>3. ExistsBijection(1 .. n, Range(idxs))
    BY <1>1 DEF ExistsBijection
  <1> QED  BY <1>2, <1>3, FS_Bijection DEF n

LEMMA TryFacts ==
    ASSUME NEW p, StageOK(p), NEW toks, UbatchOK(toks)
    PROVE  Tried(p, TryPlace(p, toks), toks)
  <1> DEFINE idxs == Find_slot(p.m, Len(toks))
             d == Apply_ubatch(p.m, idxs, toks)
             q == TryPlace(p, toks)
  <1>1. q = IF ~p.ok \/ idxs = <<>> THEN [ok |-> FALSE, idxs |-> <<>>, m |-> p.m]
            ELSE [ok |-> TRUE, idxs |-> idxs, m |-> d]
    BY DEF TryPlace
  <1>2. MInv(p.m) /\ p.m \in MemType /\ p.m.head \in 0 .. NCells
    BY DEF StageOK, MInv, MemType
  <1>3. CASE ~p.ok \/ idxs = <<>>
    <2>1. q = [ok |-> FALSE, idxs |-> <<>>, m |-> p.m]
      BY <1>1, <1>3
    <2> HIDE DEF q
    <2>2. q \in StageType /\ q.m = p.m /\ ~q.ok /\ q.idxs = <<>>
      BY <1>2, <2>1 DEF StageType
    <2>3. Range(<<>>) = {}
      BY DEF Range
    <2>4. \A i \in Cells : Thinner(p.m.cells, p.m.cells, i)
      BY DEF Thinner
    <2>5. p.ok => TooFew(p.m.cells, Len(toks))
      <3> SUFFICES ASSUME idxs = <<>>, ~Cont
                   PROVE  Cardinality({i \in Cells : CanUse(p.m.cells, i)}) < Len(toks)
        BY <1>3 DEF TooFew
      <3> QED  BY NoSlot DEF UbatchOK
    <2> HIDE DEF idxs
    <2> QED  BY <1>2, <2>2, <2>3, <2>4, <2>5 DEF Tried, StageOK, q
  <1>4. CASE p.ok /\ idxs # <<>>
    <2>1. Len(toks) \in Nat /\ Len(toks) >= 1
      BY DEF UbatchOK
    <2>2. SlotFound(p.m.cells, idxs, Len(toks))
      BY <1>2, <1>4, <2>1, FindFacts
    <2>3. q = [ok |-> TRUE, idxs |-> idxs, m |-> d]
      BY <1>1, <1>4
    <2> HIDE DEF idxs, q
    <2>4. idxs \in Seq(Cells) /\ SlotOK(idxs, toks) /\ OneToOne(idxs)
      BY <2>2 DEF SlotFound, SlotOK, OneToOne
    <2>5. \A i \in Range(idxs) : i \in Cells /\ CanUse(p.m.cells, i)
      <3> SUFFICES ASSUME NEW i \in Range(idxs)  PROVE i \in Cells /\ CanUse(p.m.cells, i)
        OBVIOUS
      <3>1. PICK k \in 1 .. Len(idxs) : idxs[k] = i
        BY <2>4, InRange
      <3> QED  BY <2>2, <3>1 DEF SlotFound
    <2>6. Applied(p.m, d, idxs, toks)
      BY <1>2, <2>4, ApplyFacts
    <2>7. SwaType = "none" =>
            /\ \A i \in Range(idxs) : p.m.cells.pos[i] = -1 /\ d.cells.pos[i] # -1
            /\ \A i \in Cells : i \notin Range(idxs) =>
                  d.cells.pos[i] = p.m.cells.pos[i] /\ d.cells.seq[i] = p.m.cells.seq[i]
      <3> HAVE SwaType = "none"
      <3>1. \A i \in Range(idxs) : p.m.cells.pos[i] = -1
        BY <2>5 DEF CanUse, IsEmpty, IsMaskedSwa
      <3> QED  BY <1>2, <2>4, <3>1, ApplyFree
    <2> HIDE DEF d
    <2>8. d \in MemType /\ MInv(d)
      BY <2>6 DEF Applied, MInv
    <2>9. StageOK(q) /\ q.m = d /\ q.ok /\ q.idxs = idxs
      BY <2>3, <2>4, <2>8 DEF StageOK, StageType
    <2> QED  BY <1>4, <2>4, <2>5, <2>6, <2>7, <2>9 DEF Tried, Applied, q
  <1>5. p.ok \in BOOLEAN
    BY DEF StageOK, StageType
  <1> QED  BY <1>3, <1>4, <1>5

(* A trial of the ubatches us of the memory m, stage by stage. *)
TrialOK(t, m, us) ==
    /\ t \in Seq(StageType) /\ Len(t) = Len(us) + 1
    /\ t[1] = [ok |-> TRUE, idxs |-> <<>>, m |-> m]
    /\ \A k \in 1 .. Len(t) : StageOK(t[k])
    /\ \A k \in 1 .. Len(us) : Tried(t[k], t[k + 1], us[k])

LEMMA TrialFacts ==
    ASSUME NEW m, MInv(m), NEW us, Len(us) \in Nat, \A k \in 1 .. Len(us) : UbatchOK(us[k])
    PROVE  TrialOK(Trial(m, us), m, us)
  <1> DEFINE N == Len(us)
             base == [ok |-> TRUE, idxs |-> <<>>, m |-> m]
             Done(q, n) == /\ q \in Seq(StageType) /\ Len(q) = n + 1 /\ q[1] = base
                           /\ \A k \in 1 .. n + 1 : StageOK(q[k])
                           /\ \A k \in 1 .. n : Tried(q[k], q[k + 1], us[k])
  <1>1. PICK a : TrialRun(a, m, us)
    BY TrialSteps
  <1>2. /\ a[0] = <<base>> /\ Trial(m, us) = a[N]
        /\ \A k \in 1 .. N : a[k] = Append(a[k - 1], TryPlace(a[k - 1][k], us[k]))
    BY <1>1 DEF TrialRun
  <1> DEFINE S == {n \in 0 .. N : Done(a[n], n)}
  <1>3. StageOK(base)
    BY DEF StageOK, StageType, MInv
  <1> HIDE DEF base
  <1>4. 0 \in S
    <2>1. <<base>> \in Seq(StageType) /\ Len(<<base>>) = 1 /\ <<base>>[1] = base
      BY <1>3 DEF StageOK
    <2>2. Done(<<base>>, 0)
      BY <1>3, <2>1
    <2> HIDE DEF Done
    <2> QED  BY <1>2, <2>2
  <1>5. ASSUME NEW n \in 0 .. N - 1, n \in S  PROVE n + 1 \in S
    <2> DEFINE q == a[n]
               x == TryPlace(q[n + 1], us[n + 1])
               r == Append(q, x)
    <2>1. Done(q, n) /\ n + 1 \in 1 .. N /\ (n + 1) - 1 = n /\ n \in Nat
      BY <1>5
    <2>2. a[n + 1] = r
      BY <1>2, <2>1
    <2>3. Tried(q[n + 1], x, us[n + 1])
      BY <2>1, TryFacts
    <2>4. StageOK(x) /\ x \in StageType
      BY <2>3 DEF Tried, StageOK
    <2> HIDE DEF q, x
    <2>5. /\ r \in Seq(StageType) /\ Len(r) = n + 2 /\ r[n + 2] = x
          /\ \A k \in 1 .. n + 1 : r[k] = q[k]
      BY <2>1, <2>4
    <2> HIDE DEF r
    <2>6. \A k \in 1 .. n + 2 : StageOK(r[k])
      <3>1. \A k \in 1 .. n + 2 : k \in 1 .. n + 1 \/ k = n + 2
        BY <2>1
      <3> QED  BY <2>1, <2>4, <2>5, <3>1
    <2>7. \A k \in 1 .. n + 1 : Tried(r[k], r[k + 1], us[k])
      <3> SUFFICES ASSUME NEW k \in 1 .. n + 1  PROVE Tried(r[k], r[k + 1], us[k])
        OBVIOUS
      <3>1. CASE k = n + 1
        <4>1. k + 1 = n + 2
          BY <2>1, <3>1
        <4> QED  BY <2>3, <2>5, <3>1, <4>1
      <3>2. CASE k # n + 1
        <4>1. k \in 1 .. n /\ k + 1 \in 1 .. n + 1
          BY <2>1, <3>2
        <4>2. r[k] = q[k] /\ r[k + 1] = q[k + 1]
          BY <2>5, <4>1
        <4> QED  BY <2>1, <4>1, <4>2
      <3> QED  BY <3>1, <3>2
    <2>8. Done(r, n + 1)
      <3>1. (n + 1) + 1 = n + 2 /\ r[1] = base
        BY <2>1, <2>5
      <3> QED  BY <2>5, <2>6, <2>7, <3>1
    <2> HIDE DEF Done
    <2> QED  BY <2>1, <2>2, <2>8
  <1>6. 0 .. N \subseteq S
    <2> HIDE DEF S, N
    <2>1. \A k \in 0 .. N - 1 : k \in S => k + 1 \in S
      BY <1>5
    <2> QED  BY <1>4, <2>1, Induct DEF N
  <1>7. Done(a[N], N)
    <2> HIDE DEF Done
    <2> QED  BY <1>6
  <1> QED  BY <1>2, <1>7 DEF TrialOK, base

(* What the stages up to the k-th have in common with the memory before. *)
StagesOK(t, m, k) ==
    /\ t[k].m.data = m.data /\ t[k].m.cells.has_shift = m.cells.has_shift
    /\ t[k].ok => \A l \in 1 .. k : t[l].ok
    /\ \A l \in 1 .. k : \A i \in Range(t[l].idxs) :
          /\ i \in Cells /\ t[k].m.cells.shift[i] = 0
          /\ SwaType = "none" => t[k].m.cells.pos[i] # -1

LEMMA StagesFacts ==
    ASSUME NEW m, NEW us, Len(us) \in Nat, NEW t, TrialOK(t, m, us)
    PROVE  \A k \in 1 .. Len(us) + 1 : StagesOK(t, m, k)
  <1> DEFINE N == Len(us)
             S == {n \in 0 .. N : StagesOK(t, m, n + 1)}
  <1>1. 0 \in S
    <2>1. t[1].m = m /\ t[1].ok /\ t[1].idxs = <<>> /\ Range(<<>>) = {}
      BY DEF TrialOK, Range
    <2>2. StagesOK(t, m, 1)
      BY <2>1 DEF StagesOK
    <2> QED  BY <2>2
  <1>2. ASSUME NEW n \in 0 .. N - 1, n \in S  PROVE n + 1 \in S
    <2> DEFINE p == t[n + 1]
               q == t[n + 2]
    <2>1. StagesOK(t, m, n + 1) /\ n + 1 \in 1 .. N /\ (n + 1) + 1 = n + 2 /\ n \in Nat
      BY <1>2
    <2>2. Tried(p, q, us[n + 1])
      BY <2>1 DEF TrialOK
    <2>3. \A l \in 1 .. n + 2 : l \in 1 .. n + 1 \/ l = n + 2
      BY <2>1
    <2>4. \A i \in Cells : q.m.cells.pos[i] = -1 => q.m.cells.shift[i] = 0
      BY <2>2 DEF Tried, StageOK, MInv, CInv, Inv, Used
    <2>5. /\ p.m.data = m.data /\ p.m.cells.has_shift = m.cells.has_shift
          /\ p.ok => \A l \in 1 .. n + 1 : t[l].ok
          /\ \A l \in 1 .. n + 1 : \A i \in Range(t[l].idxs) :
                /\ i \in Cells /\ p.m.cells.shift[i] = 0
                /\ SwaType = "none" => p.m.cells.pos[i] # -1
      BY <2>1 DEF StagesOK
    <2> HIDE DEF p
    <2>6. ASSUME NEW l \in 1 .. n + 2, NEW i \in Range(t[l].idxs)
          PROVE  /\ i \in Cells /\ q.m.cells.shift[i] = 0
                 /\ SwaType = "none" => q.m.cells.pos[i] # -1
      <3>1. CASE i \in Range(q.idxs)
        BY <2>2, <3>1 DEF Tried
      <3>2. CASE i \notin Range(q.idxs)
        <4>1. l \in 1 .. n + 1
          BY <2>3, <2>6, <3>2
        <4>2. i \in Cells /\ p.m.cells.shift[i] = 0 /\ (SwaType = "none" => p.m.cells.pos[i] # -1)
          BY <2>5, <2>6, <4>1
        <4>3. Thinner(p.m.cells, q.m.cells, i)
          BY <2>2, <3>2, <4>2 DEF Tried
        <4>4. SwaType = "none" => q.m.cells.pos[i] = p.m.cells.pos[i]
          BY <2>2, <3>2, <4>2 DEF Tried
        <4> QED  BY <2>4, <4>2, <4>3, <4>4 DEF Thinner
      <3> QED  BY <3>1, <3>2
    <2>7. q.ok => \A l \in 1 .. n + 2 : t[l].ok
      BY <2>2, <2>3, <2>5 DEF Tried
    <2>8. q.m.data = m.data /\ q.m.cells.has_shift = m.cells.has_shift
      BY <2>2, <2>5 DEF Tried
    <2>9. StagesOK(t, m, n + 2)
      BY <2>6, <2>7, <2>8 DEF StagesOK
    <2> QED  BY <2>1, <2>9
  <1>3. 0 .. N \subseteq S
    <2> HIDE DEF S, N
    <2>1. \A k \in 0 .. N - 1 : k \in S => k + 1 \in S
      BY <1>2
    <2> QED  BY <1>1, <2>1, Induct DEF N
  <1>4. \A n \in 0 .. N : StagesOK(t, m, n + 1)
    BY <1>3
  <1>5. \A k \in 1 .. N + 1 : k - 1 \in 0 .. N /\ (k - 1) + 1 = k
    OBVIOUS
  <1> HIDE DEF N
  <1>6. \A k \in 1 .. N + 1 : StagesOK(t, m, k)
    <2> SUFFICES ASSUME NEW k \in 1 .. N + 1  PROVE StagesOK(t, m, k)
      OBVIOUS
    <2>1. StagesOK(t, m, (k - 1) + 1)
      BY <1>4, <1>5
    <2> QED  BY <1>5, <2>1
  <1> QED  BY <1>6 DEF N

(* The cells idxs of d are as they are in old, the others as in m. *)
WasSetBack(m, d, idxs, old) ==
    /\ MInv(d) /\ d.data = m.data /\ d.cells.has_shift = m.cells.has_shift
    /\ \A i \in Cells : IF i \in Range(idxs)
                        THEN /\ d.cells.pos[i] = old.cells.pos[i] /\ d.cells.seq[i] = old.cells.seq[i]
                             /\ d.cells.shift[i] = m.cells.shift[i]
                        ELSE Same(m.cells, d.cells, i)

LEMMA SetBackFacts ==
    ASSUME NEW m, MInv(m), NEW old, MInv(old), NEW idxs \in Seq(Cells),
           \A i \in Range(idxs) : m.cells.shift[i] = 0
    PROVE  WasSetBack(m, SetBack(m, idxs, old), idxs, old)
  <1> DEFINE K == Range(idxs)
             o == old.cells
             c == BackLoop(m.cells, K, o.pos, o.seq)
             d == SetBack(m, idxs, old)
  <1>1. d = Recelled(m, c, old.head)
    BY DEF SetBack, BackLoop, Recelled
  <1>2. CInv(m.cells) /\ CInv(o) /\ old.head \in 0 .. NCells /\ o \in CellsType
    BY DEF MInv, MemType
  <1>3. K \in SUBSET Cells
    BY DEF Range
  <1> HIDE DEF d, K, o
  <1>4. \A i \in K : /\ m.cells.shift[i] = 0 /\ o.pos[i] \in Positions \cup {-1}
                     /\ o.seq[i] \in SUBSET Seqs /\ (o.pos[i] = -1 <=> o.seq[i] = {})
    <2>1. \A i \in Cells : o.pos[i] \in Positions \cup {-1} /\ o.seq[i] \in SUBSET Seqs
      BY <1>2 DEF CellsType
    <2>2. \A i \in Cells : o.pos[i] = -1 <=> o.seq[i] = {}
      BY <1>2 DEF CInv, Owned, Inv, Used
    <2>3. \A i \in K : m.cells.shift[i] = 0
      BY DEF K
    <2> QED  BY <1>3, <2>1, <2>2, <2>3
  <1>5. /\ CInv(c) /\ c.has_shift = m.cells.has_shift
        /\ \A i \in Cells : IF i \in K THEN BackAt(m.cells, c, o.pos[i], o.seq[i], i)
                            ELSE Same(m.cells, c, i)
    <2>1. BackOK(m.cells, K, o.pos, o.seq)
      BY <1>4 DEF BackOK
    <2>2. BackTo(m.cells, c, K, o.pos, o.seq)
      BY <1>2, <1>3, <2>1, BackFacts
    <2> QED  BY <2>2 DEF BackTo
  <1> HIDE DEF c
  <1>6. MInv(d) /\ d.cells = c /\ d.data = m.data
    BY <1>1, <1>2, <1>5, RecelledInv
  <1> QED  BY <1>5, <1>6 DEF WasSetBack, BackAt, d, K, o

(* The stages from the j-th on are undone: the cells hold what they held at    *)
(* the j-th or are purged; without a window, the slots found later are free.   *)
BackAtStage(x, t, m, n, j) ==
    /\ MInv(x) /\ x.data = m.data /\ x.cells.has_shift = m.cells.has_shift
    /\ \A l \in 1 .. n + 1 : \A i \in Range(t[l].idxs) : x.cells.shift[i] = 0
    /\ \A i \in Cells : x.cells.pos[i] # -1 => x.cells.pos[i] = t[j].m.cells.pos[i]
    /\ SwaType = "none" => \A l \in j + 1 .. n + 1 : \A i \in Range(t[l].idxs) :
                              x.cells.pos[i] = -1
    /\ SwaType = "none" => \A i \in Cells : /\ x.cells.pos[i] = t[j].m.cells.pos[i]
                                           /\ x.cells.seq[i] = t[j].m.cells.seq[i]

LEMMA UndoneFacts ==
    ASSUME NEW m, NEW us, Len(us) \in Nat, NEW t, TrialOK(t, m, us)
    PROVE  BackAtStage(Undone(t, Len(us)), t, m, Len(us), 1)
  <1> DEFINE N == Len(us)
  <1>1. PICK a : UndoneRun(a, t, N)
    BY UndoneSteps
  <1>2. /\ a[0] = t[N + 1].m /\ Undone(t, N) = a[N]
        /\ \A k \in 1 .. N : a[k] = SetBack(a[k - 1], t[N - k + 2].idxs, t[N - k + 1].m)
    BY <1>1 DEF UndoneRun
  <1>3. \A k \in 1 .. N + 1 : StagesOK(t, m, k) /\ StageOK(t[k])
    BY StagesFacts DEF TrialOK
  <1>4. \A k \in 1 .. N : Tried(t[k], t[k + 1], us[k])
    BY DEF TrialOK
  <1>5. N \in Nat
    OBVIOUS
  <1> HIDE DEF N
  <1> DEFINE S == {k \in 0 .. N : BackAtStage(a[k], t, m, N, N - k + 1)}
  <1>6. 0 \in S
    <2>1. N + 1 \in 1 .. N + 1 /\ N - 0 + 1 = N + 1 /\ (N + 1) + 1 .. N + 1 = {}
      BY <1>5
    <2>2. StagesOK(t, m, N + 1) /\ StageOK(t[N + 1])
      BY <1>3, <2>1
    <2>3. BackAtStage(t[N + 1].m, t, m, N, N + 1)
      BY <2>1, <2>2 DEF BackAtStage, StagesOK, StageOK
    <2> QED  BY <1>2, <1>5, <2>1, <2>3
  <1>7. ASSUME NEW n \in 0 .. N - 1, n \in S  PROVE n + 1 \in S
    <2> DEFINE j == N - n
               x == a[n]
               p == t[j]
               q == t[j + 1]
               y == SetBack(x, q.idxs, p.m)
    <2>1. /\ j \in 1 .. N /\ j \in 1 .. N + 1 /\ j + 1 \in 1 .. N + 1 /\ n + 1 \in 1 .. N
          /\ (n + 1) - 1 = n /\ N - n + 1 = j + 1 /\ N - (n + 1) + 1 = j
          /\ N - (n + 1) + 2 = j + 1
      BY <1>5
    <2>2. BackAtStage(x, t, m, N, j + 1)
      BY <1>7, <2>1
    <2>3. a[n + 1] = y
      BY <1>2, <2>1
    <2>4. \A l \in j + 1 .. N + 1 : l = j + 1 \/ l \in (j + 1) + 1 .. N + 1
      BY <1>5, <2>1
    <2> HIDE DEF j, x
    <2>5. Tried(p, q, us[j]) /\ StageOK(p) /\ StageOK(q)
      BY <1>3, <1>4, <2>1
    <2>6. q.idxs \in Seq(Cells) /\ MInv(p.m) /\ MInv(x) /\ \A i \in Range(q.idxs) : x.cells.shift[i] = 0
      BY <2>1, <2>2, <2>5 DEF StageOK, StageType, BackAtStage
    <2>7. WasSetBack(x, y, q.idxs, p.m)
      BY <2>6, SetBackFacts
    <2>8. \A l \in 1 .. N + 1 : \A i \in Range(t[l].idxs) : i \in Cells
      <3> SUFFICES ASSUME NEW l \in 1 .. N + 1, NEW i \in Range(t[l].idxs)  PROVE i \in Cells
        OBVIOUS
      <3>1. t[l].idxs \in Seq(Cells)
        BY <1>3 DEF StageOK, StageType
      <3> QED  BY <3>1 DEF Range
    <2> HIDE DEF y, p, q
    <2>9. \A l \in 1 .. N + 1 : \A i \in Range(t[l].idxs) : y.cells.shift[i] = 0
      <3> SUFFICES ASSUME NEW l \in 1 .. N + 1, NEW i \in Range(t[l].idxs)
                   PROVE  y.cells.shift[i] = 0
        OBVIOUS
      <3>1. i \in Cells /\ x.cells.shift[i] = 0
        BY <2>2, <2>8 DEF BackAtStage
      <3> QED  BY <2>7, <3>1 DEF WasSetBack, Same
    <2>10. \A i \in Cells : y.cells.pos[i] # -1 => y.cells.pos[i] = p.m.cells.pos[i]
      <3> SUFFICES ASSUME NEW i \in Cells, y.cells.pos[i] # -1
                   PROVE  y.cells.pos[i] = p.m.cells.pos[i]
        OBVIOUS
      <3>1. CASE i \in Range(q.idxs)
        BY <2>7, <3>1 DEF WasSetBack
      <3>2. CASE i \notin Range(q.idxs)
        <4>1. y.cells.pos[i] = x.cells.pos[i]
          BY <2>7, <3>2 DEF WasSetBack, Same
        <4>2. x.cells.pos[i] = q.m.cells.pos[i]
          BY <2>2, <4>1 DEF BackAtStage, q
        <4>3. Thinner(p.m.cells, q.m.cells, i)
          BY <2>5, <3>2 DEF Tried
        <4> QED  BY <4>1, <4>2, <4>3 DEF Thinner
      <3> QED  BY <3>1, <3>2
    <2>11. SwaType = "none" => \A l \in j + 1 .. N + 1 : \A i \in Range(t[l].idxs) :
                                  y.cells.pos[i] = -1
      <3> SUFFICES ASSUME SwaType = "none", NEW l \in j + 1 .. N + 1, NEW i \in Range(t[l].idxs)
                   PROVE  y.cells.pos[i] = -1
        OBVIOUS
      <3>1. l \in 1 .. N + 1
        BY <1>5, <2>1
      <3>2. i \in Cells
        BY <2>8, <3>1
      <3>3. CASE i \in Range(q.idxs)
        BY <2>5, <2>7, <3>2, <3>3 DEF Tried, WasSetBack
      <3>4. CASE i \notin Range(q.idxs)
        <4>1. l \in (j + 1) + 1 .. N + 1
          BY <2>4, <3>4 DEF q
        <4>2. x.cells.pos[i] = -1
          BY <2>2, <4>1 DEF BackAtStage
        <4> QED  BY <2>7, <3>2, <3>4, <4>2 DEF WasSetBack, Same
      <3> QED  BY <3>3, <3>4
    <2>15. SwaType = "none" => \A i \in Cells : /\ y.cells.pos[i] = p.m.cells.pos[i]
                                                /\ y.cells.seq[i] = p.m.cells.seq[i]
      <3> SUFFICES ASSUME SwaType = "none", NEW i \in Cells
                   PROVE  y.cells.pos[i] = p.m.cells.pos[i] /\ y.cells.seq[i] = p.m.cells.seq[i]
        OBVIOUS
      <3>1. CASE i \in Range(q.idxs)
        BY <2>7, <3>1 DEF WasSetBack
      <3>2. CASE i \notin Range(q.idxs)
        <4>1. y.cells.pos[i] = x.cells.pos[i] /\ y.cells.seq[i] = x.cells.seq[i]
          BY <2>7, <3>2 DEF WasSetBack, Same
        <4>2. x.cells.pos[i] = q.m.cells.pos[i] /\ x.cells.seq[i] = q.m.cells.seq[i]
          BY <2>2 DEF BackAtStage, q
        <4>3. q.m.cells.pos[i] = p.m.cells.pos[i] /\ q.m.cells.seq[i] = p.m.cells.seq[i]
          BY <2>5, <3>2 DEF Tried
        <4> QED  BY <4>1, <4>2, <4>3
      <3> QED  BY <3>1, <3>2
    <2>12. BackAtStage(y, t, m, N, j)
      <3>1. MInv(y) /\ y.data = m.data /\ y.cells.has_shift = m.cells.has_shift
        BY <2>2, <2>7 DEF WasSetBack, BackAtStage
      <3> QED  BY <2>9, <2>10, <2>11, <2>15, <3>1 DEF BackAtStage, p
    <2>13. BackAtStage(a[n + 1], t, m, N, N - (n + 1) + 1)
      BY <2>1, <2>3, <2>12
    <2>14. n + 1 \in 0 .. N
      BY <1>5
    <2> QED  BY <2>13, <2>14
  <1>8. 0 .. N \subseteq S
    <2> HIDE DEF S
    <2>1. \A k \in 0 .. N - 1 : k \in S => k + 1 \in S
      BY <1>7
    <2> QED  BY <1>5, <1>6, <2>1, Induct
  <1>9. N \in 0 .. N /\ N - N + 1 = 1
    BY <1>5
  <1>10. BackAtStage(a[N], t, m, N, 1)
    BY <1>8, <1>9
  <1> QED  BY <1>2, <1>10 DEF N

(* The ubatches that are left to compute, with their slots: without a window,  *)
(* the slots are free and no two have a cell in common.                        *)
TodoType == Seq([idxs : Seq(Cells), toks : Seq(TokType)])
SlotsFree(c, t) ==
    /\ \A k \in 1 .. Len(t) : \A i \in Range(t[k].idxs) : c.pos[i] = -1
    /\ \A k, l \in 1 .. Len(t) : k < l => Range(t[k].idxs) \cap Range(t[l].idxs) = {}
TodoOK(c, t) ==
    /\ t \in TodoType
    /\ \A k \in 1 .. Len(t) : SlotOK(t[k].idxs, t[k].toks) /\ OneToOne(t[k].idxs)
    /\ SwaType = "none" => SlotsFree(c, t)

(* What a trial leaves: no shift more, and no cell with another position.      *)
Prepared(m, p) ==
    /\ MInv(p.m) /\ p.m.data = m.data /\ p.m.cells.has_shift = m.cells.has_shift
    /\ \A i \in Cells : p.m.cells.pos[i] # -1 => p.m.cells.pos[i] = m.cells.pos[i]
    /\ p.ok => TodoOK(p.m.cells, p.slots)
    /\ SwaType = "none" => Held(p.m) = Held(m)

LEMMA PrepareFacts ==
    ASSUME NEW m, MInv(m), NEW us, us \in Seq(Seq(TokType)),
           \A k \in 1 .. Len(us) : UbatchOK(us[k])
    PROVE  LET p == Prepare(m, us)
           IN  /\ Prepared(m, p) /\ Len(p.slots) = Len(us)
               /\ \A k \in 1 .. Len(us) : p.slots[k].toks = us[k]
  <1> DEFINE n == Len(us)
             t == Trial(m, us)
             x == Undone(t, n)
             slots == [k \in 1 .. n |-> [idxs |-> t[k + 1].idxs, toks |-> us[k]]]
             p == Prepare(m, us)
  <1>1. p.ok = t[n + 1].ok /\ p.m = x /\ p.slots = slots
    BY DEF Prepare
  <1>2. n \in Nat
    OBVIOUS
  <1>3. TrialOK(t, m, us)
    BY <1>2, TrialFacts
  <1> HIDE DEF t, p
  <1>4. BackAtStage(x, t, m, n, 1) /\ \A k \in 1 .. n + 1 : StagesOK(t, m, k)
    BY <1>2, <1>3, UndoneFacts, StagesFacts
  <1> HIDE DEF x
  <1>5. \A k \in 1 .. n : slots[k].idxs = t[k + 1].idxs /\ slots[k].toks = us[k]
    OBVIOUS
  <1>6. slots \in TodoType /\ Len(slots) = n
    <2>1. \A k \in 1 .. n : t[k + 1].idxs \in Seq(Cells) /\ us[k] \in Seq(TokType)
      <3> SUFFICES ASSUME NEW k \in 1 .. n
                   PROVE  t[k + 1].idxs \in Seq(Cells) /\ us[k] \in Seq(TokType)
        OBVIOUS
      <3>1. StageOK(t[k + 1])
        BY <1>2, <1>3 DEF TrialOK
      <3> QED  BY <3>1 DEF StageOK, StageType
    <2> DEFINE U == [idxs : Seq(Cells), toks : Seq(TokType)]
    <2>2. slots \in [1 .. n -> U]
      BY <2>1
    <2> HIDE DEF slots, n, U
    <2>3. slots \in Seq(U) /\ Len(slots) = n
      BY <1>2, <2>2
    <2> QED  BY <2>3 DEF TodoType, U
  <1> HIDE DEF slots, n
  <1>7. \A k \in 1 .. n : k + 1 \in 1 .. n + 1 /\ k \in 1 .. n + 1 /\ n + 1 \in 1 .. n + 1
    BY <1>2
  <1>8. \A k \in 1 .. n : Tried(t[k], t[k + 1], us[k])
    BY <1>3 DEF TrialOK, n
  <1>9. t[n + 1].ok => \A k \in 1 .. n : SlotOK(slots[k].idxs, slots[k].toks) /\ OneToOne(slots[k].idxs)
    <2> SUFFICES ASSUME t[n + 1].ok, NEW k \in 1 .. n
                 PROVE  SlotOK(slots[k].idxs, slots[k].toks) /\ OneToOne(slots[k].idxs)
      OBVIOUS
    <2>1. t[k + 1].ok
      BY <1>4, <1>7 DEF StagesOK
    <2>2. SlotOK(t[k + 1].idxs, us[k]) /\ OneToOne(t[k + 1].idxs)
      BY <1>8, <2>1 DEF Tried
    <2> QED  BY <1>5, <2>2
  <1>10. SwaType = "none" => SlotsFree(x.cells, slots)
    <2> HAVE SwaType = "none"
    <2>1. \A k \in 1 .. n : \A i \in Range(slots[k].idxs) : x.cells.pos[i] = -1
      <3> SUFFICES ASSUME NEW k \in 1 .. n, NEW i \in Range(t[k + 1].idxs)
                   PROVE  x.cells.pos[i] = -1
        BY <1>5
      <3>1. k + 1 \in 1 + 1 .. n + 1
        BY <1>2
      <3> QED  BY <1>4, <3>1 DEF BackAtStage
    <2>2. ASSUME NEW k \in 1 .. n, NEW l \in 1 .. n, k < l, NEW i \in Range(slots[k].idxs),
                 i \in Range(slots[l].idxs)
          PROVE  FALSE
      <3>1. i \in Range(t[k + 1].idxs) /\ i \in Range(t[l + 1].idxs)
        BY <1>5, <2>2
      <3>2. k + 1 \in 1 .. l /\ l \in 1 .. n + 1
        BY <1>2, <2>2
      <3>3. t[l].m.cells.pos[i] # -1
        BY <1>4, <3>1, <3>2 DEF StagesOK
      <3>4. t[l].m.cells.pos[i] = -1
        BY <1>8, <3>1 DEF Tried
      <3> QED  BY <3>3, <3>4
    <2> QED  BY <1>6, <2>1, <2>2 DEF SlotsFree
  <1>11. \A i \in Cells : x.cells.pos[i] # -1 => x.cells.pos[i] = m.cells.pos[i]
    <2>1. t[1].m = m
      BY <1>3 DEF TrialOK
    <2> QED  BY <1>4, <2>1 DEF BackAtStage
  <1>12. p.ok => TodoOK(p.m.cells, p.slots)
    BY <1>1, <1>6, <1>9, <1>10 DEF TodoOK
  <1>13. MInv(p.m) /\ p.m.data = m.data /\ p.m.cells.has_shift = m.cells.has_shift
    BY <1>1, <1>4 DEF BackAtStage
  <1>14. SwaType = "none" => Held(x) = Held(m)
    <2> HAVE SwaType = "none"
    <2>1. t[1].m = m
      BY <1>3 DEF TrialOK
    <2>2. x.data = m.data /\ \A i \in Cells : /\ x.cells.pos[i] = m.cells.pos[i]
                                             /\ x.cells.seq[i] = m.cells.seq[i]
      BY <1>4, <2>1 DEF BackAtStage
    <2>3. \A i \in Cells : EntAt(x, i) = EntAt(m, i) /\ x.cells.pos[i] = m.cells.pos[i]
      BY <2>2 DEF EntAt
    <2> QED  BY <2>3, SameHeld
  <1>15. Prepared(m, p)
    BY <1>1, <1>11, <1>12, <1>13, <1>14 DEF Prepared
  <1> QED  BY <1>1, <1>5, <1>6, <1>15 DEF p, n

-----------------------------------------------------------------------------
(* The tokens of a batch and its ubatches. *)

LEMMA BatchFacts ==
    ASSUME NEW batch \in Batches
    PROVE  /\ Len(batch) \in Nat /\ Len(batch) >= 1 /\ Len(batch) <= MaxBatch
           /\ \A k \in 1 .. Len(batch) :
                 /\ batch[k].tok \in Toks /\ batch[k].seqs \in SUBSET Seqs /\ batch[k].lead \in Seqs
                 /\ batch[k].lead \in batch[k].seqs
                 /\ Coupled \/ batch[k].seqs = {batch[k].lead}
  <1>1. PICK n \in 1 .. MaxBatch : batch \in [1 .. n -> BatchToks]
    BY DEF Batches
  <1>2. MaxBatch \in Nat /\ n \in Nat /\ n >= 1
    BY ParamsAssumption
  <1>3. Len(batch) = n /\ \A k \in 1 .. n : batch[k] \in BatchToks
    BY <1>1, <1>2
  <1> QED  BY <1>2, <1>3 DEF BatchToks

LEMMA PosFacts ==
    ASSUME NEW c, NEW batch \in Batches,
           \A t \in Range(WithPos(c, batch)) : t.pos \in Positions
    PROVE  UbatchOK(WithPos(c, batch)) /\ Len(WithPos(c, batch)) = Len(batch)
  <1> DEFINE N == Len(batch)
  <1>0. /\ N \in Nat /\ N >= 1
        /\ \A k \in 1 .. N :
              /\ batch[k].tok \in Toks /\ batch[k].seqs \in SUBSET Seqs /\ batch[k].lead \in Seqs
              /\ batch[k].lead \in batch[k].seqs
              /\ Coupled \/ batch[k].seqs = {batch[k].lead}
    BY BatchFacts
  <1>1. PICK a : PosRun(a, c, batch)
    BY <1>0, PosSteps
  <1>2. /\ a[0].toks = <<>> /\ WithPos(c, batch) = a[N].toks
        /\ \A k \in 1 .. N : a[k] = Positioned(a[k - 1], batch[k])
    BY <1>1 DEF PosRun
  <1> HIDE DEF N
  <1> DEFINE V == {a[k].p0[s] : k \in 0 .. N, s \in Seqs}
             W == [tok : Toks, seqs : SUBSET Seqs, lead : Seqs, pos : V]
             Good(x) == x \in W /\ x.lead \in x.seqs /\ (Coupled \/ x.seqs = {x.lead})
             Done(q, n) == q \in Seq(W) /\ Len(q) = n /\ \A k \in 1 .. n : Good(q[k])
             S == {n \in 0 .. N : Done(a[n].toks, n)}
  <1>3. 0 \in S
    <2>1. Done(<<>>, 0)
      OBVIOUS
    <2> HIDE DEF Done
    <2> QED  BY <1>0, <1>2, <2>1
  <1>4. ASSUME NEW n \in 0 .. N - 1, n \in S  PROVE n + 1 \in S
    <2> DEFINE q == a[n].toks
               t == batch[n + 1]
               x == [tok |-> t.tok, seqs |-> t.seqs, lead |-> t.lead, pos |-> a[n].p0[t.lead]]
               r == Append(q, x)
    <2>1. n + 1 \in 1 .. N /\ (n + 1) - 1 = n /\ n \in Nat /\ n \in 0 .. N /\ n + 1 \in 0 .. N
      BY <1>0
    <2>2. a[n + 1].toks = r
      <3>1. a[n + 1] = Positioned(a[n], t)
        BY <1>2, <2>1
      <3>2. Positioned(a[n], t).toks = r
        BY DEF Positioned
      <3> QED  BY <3>1, <3>2
    <2>3. Done(q, n)
      BY <1>4
    <2>4. /\ t.tok \in Toks /\ t.seqs \in SUBSET Seqs /\ t.lead \in Seqs
          /\ t.lead \in t.seqs /\ (Coupled \/ t.seqs = {t.lead})
      BY <1>0, <2>1
    <2>5. a[n].p0[t.lead] \in V
      BY <2>1, <2>4
    <2> HIDE DEF V, t, q
    <2>6. Good(x)
      BY <2>4, <2>5
    <2> HIDE DEF x, W
    <2>7. r \in Seq(W) /\ Len(r) = n + 1 /\ r[n + 1] = x /\ \A k \in 1 .. n : r[k] = q[k]
      BY <2>1, <2>3, <2>6
    <2>8. \A k \in 1 .. n + 1 : k \in 1 .. n \/ k = n + 1
      BY <2>1
    <2> HIDE DEF r, Good
    <2>9. Done(r, n + 1)
      BY <2>3, <2>6, <2>7, <2>8
    <2> HIDE DEF Done
    <2> QED  BY <2>1, <2>2, <2>9
  <1>5. 0 .. N \subseteq S
    <2> HIDE DEF S
    <2>1. \A k \in 0 .. N - 1 : k \in S => k + 1 \in S
      BY <1>4
    <2> QED  BY <1>0, <1>3, <2>1, Induct
  <1> DEFINE w == WithPos(c, batch)
  <1>6. Done(w, N)
    <2> HIDE DEF Done
    <2> QED  BY <1>0, <1>2, <1>5
  <1>7. \A k \in 1 .. N : TokOK(w[k])
    <2> SUFFICES ASSUME NEW k \in 1 .. N  PROVE TokOK(w[k])
      OBVIOUS
    <2> HIDE DEF w, V
    <2>1. w[k] \in Range(w) /\ Good(w[k])
      BY <1>6 DEF Range
    <2>2. w[k].pos \in Positions
      BY <2>1 DEF w
    <2>3. w[k] = [tok |-> w[k].tok, seqs |-> w[k].seqs, lead |-> w[k].lead, pos |-> w[k].pos]
      BY <2>1
    <2>4. w[k].tok \in Toks /\ w[k].seqs \in SUBSET Seqs /\ w[k].lead \in Seqs
      BY <2>1
    <2>5. w[k] \in TokType
      BY <2>2, <2>3, <2>4 DEF TokType
    <2> QED  BY <2>1, <2>5 DEF TokOK
  <1> HIDE DEF w, W
  <1>8. w \in Seq(TokType) /\ Len(w) = N
    <2>1. w \in Seq(W) /\ Len(w) = N
      BY <1>6
    <2>2. \A k \in 1 .. N : w[k] \in TokType
      BY <1>7 DEF TokOK
    <2> QED  BY <2>1, <2>2
  <1> QED  BY <1>0, <1>7, <1>8 DEF UbatchOK, w, N

(* Token l of the k-th ubatch is one of the batch, before those of the next. *)
InUbatch(toks, k, l) ==
    \E i \in 1 .. Len(toks) : /\ (k - 1) * NUbatch < i /\ i <= k * NUbatch
                              /\ Ubatches(toks)[k][l] = toks[i]

(* The k-th ubatch has at most NUbatch tokens, and no more than are left. *)
UbatchSize(toks, k) ==
    LET n == Len(Ubatches(toks)[k])
    IN  n <= NUbatch /\ (k - 1) * NUbatch + n <= Len(toks)

LEMMA UbatchesFacts ==
    ASSUME NEW toks, UbatchOK(toks)
    PROVE  /\ Ubatches(toks) \in Seq(Seq(TokType))
           /\ \A k \in 1 .. Len(Ubatches(toks)) :
                 /\ UbatchOK(Ubatches(toks)[k])
                 /\ \A l \in 1 .. Len(Ubatches(toks)[k]) : InUbatch(toks, k, l)
                 /\ UbatchSize(toks, k)
  <1> DEFINE L == Len(toks)
             U == NUbatch
             N == (L + U - 1) \div U
             lo(k) == (k - 1) * U + 1
             hi(k) == Min({k * U, L})
             us == Ubatches(toks)
  <1>1. toks \in Seq(TokType) /\ L \in Nat /\ L >= 1 /\ \A k \in 1 .. L : TokOK(toks[k])
    BY DEF UbatchOK
  <1>2. U \in Nat /\ U >= 1
    BY ParamsAssumption
  <1>3. us = [k \in 1 .. N |-> SubSeq(toks, lo(k), hi(k))]
    BY DEF Ubatches
  <1> HIDE DEF L, U, us
  <1>4. N \in Nat /\ U * N <= L + U - 1
    BY <1>1, <1>2
  <1> HIDE DEF N
  <1>5. ASSUME NEW k \in 1 .. N
        PROVE  /\ lo(k) \in 1 .. L /\ hi(k) \in lo(k) .. L
               /\ (k - 1) * U \in Int /\ lo(k) = (k - 1) * U + 1 /\ hi(k) <= k * U /\ k * U \in Int
    <2>1. k \in Nat /\ k >= 1 /\ k <= N
      BY <1>4
    <2>2. U * k <= U * N /\ k * U = U * k /\ (k - 1) * U = k * U - U /\ k * U \in Nat /\ k * U >= U
      BY <1>2, <1>4, <2>1
    <2> DEFINE z == k * U
    <2>3. lo(k) = z - U + 1 /\ z <= L + U - 1 /\ z \in Nat /\ z >= U
      <3>1. U * N \in Int
        BY <1>2, <1>4
      <3> QED  BY <1>1, <1>2, <1>4, <2>2, <3>1
    <2>4. hi(k) \in {z, L} /\ hi(k) <= L /\ hi(k) <= z
      <3>1. {z, L} \in SUBSET Nat /\ {z, L} # {} /\ L \in {z, L} /\ z \in {z, L}
        BY <1>1, <2>2
      <3> QED  BY <3>1, MinFacts
    <2>5. (k - 1) * U = z - U
      BY <2>2
    <2>6. (k - 1) * U \in Int /\ lo(k) = (k - 1) * U + 1 /\ hi(k) <= k * U /\ k * U \in Int
      <3>1. (k - 1) * U \in Int
        BY <1>2, <2>1
      <3> QED  BY <2>2, <2>4, <3>1
    <2> HIDE DEF z, lo, hi
    <2> QED  BY <1>1, <1>2, <2>3, <2>4, <2>6
  <1>6. ASSUME NEW k \in 1 .. N
        PROVE  /\ us[k] \in Seq(TokType) /\ UbatchOK(us[k])
               /\ \A l \in 1 .. Len(us[k]) : InUbatch(toks, k, l)
               /\ UbatchSize(toks, k)
    <2> DEFINE x == lo(k)
               y == hi(k)
               u == SubSeq(toks, x, y)
    <2>1. x \in 1 .. L /\ y \in x .. L
      BY <1>5
    <2>2. us[k] = u
      BY <1>3
    <2> HIDE DEF x, y
    <2>3. u \in Seq(TokType) /\ Len(u) = y - x + 1 /\ \A l \in 1 .. y - x + 1 : u[l] = toks[l + x - 1]
      BY <1>1, <2>1 DEF L
    <2>4. \A l \in 1 .. y - x + 1 : l + x - 1 \in 1 .. L
      BY <1>1, <2>1
    <2>5. Len(u) >= 1
      BY <1>1, <2>1, <2>3
    <2> HIDE DEF u
    <2>6. \A l \in 1 .. Len(u) : TokOK(u[l])
      BY <1>1, <2>3, <2>4
    <2>7. ASSUME NEW l \in 1 .. Len(u)  PROVE InUbatch(toks, k, l)
      <3> DEFINE z == (k - 1) * U
                 e == k * U
      <3>1. z \in Int /\ e \in Int /\ x = z + 1 /\ y <= e
        BY <1>5 DEF x, y
      <3> HIDE DEF z, e
      <3>2. z < l + x - 1 /\ l + x - 1 <= e
        BY <1>1, <2>1, <2>3, <3>1
      <3>3. l + x - 1 \in 1 .. L /\ u[l] = toks[l + x - 1]
        BY <2>3, <2>4
      <3> QED  BY <2>2, <3>2, <3>3 DEF InUbatch, z, e, us, U, L
    <2>8. UbatchSize(toks, k)
      <3> DEFINE z == (k - 1) * U
                 e == k * U
      <3>1. z \in Int /\ e \in Int /\ x = z + 1 /\ y <= e
        BY <1>5 DEF x, y
      <3>2. e = z + U
        BY <1>2, <1>4
      <3> HIDE DEF z, e
      <3>3. Len(u) <= U /\ z + Len(u) <= L
        BY <1>1, <1>2, <2>1, <2>3, <3>1, <3>2
      <3> QED  BY <2>2, <3>3 DEF UbatchSize, z, us, U, L
    <2> QED  BY <2>2, <2>3, <2>5, <2>6, <2>7, <2>8 DEF UbatchOK
  <1>7. us \in Seq(Seq(TokType)) /\ Len(us) = N
    <2>1. us \in [1 .. N -> Seq(TokType)]
      <3>1. us = [k \in 1 .. N |-> us[k]]
        BY <1>3
      <3> QED  BY <1>6, <3>1
    <2> QED  BY <1>4, <2>1
  <1> QED  BY <1>6, <1>7 DEF us

-----------------------------------------------------------------------------
(* Computing an ubatch. *)

(* The graph writes data of the right type into the cells of the slot; a cell *)
(* of the slot that holds a token then has its data at its position.          *)
LEMMA WrittenFacts ==
    ASSUME NEW u, SlotOK(u.idxs, u.toks), OneToOne(u.idxs), data \in DataType,
           NEW W \in SUBSET Range(u.idxs)
    PROVE  /\ Written(u, W) \in DataType
           /\ \A i \in Cells : i \notin W => Written(u, W)[i] = data[i]
           /\ \A k \in 1 .. Len(u.idxs) :
                 u.idxs[k] \in W => /\ Written(u, W)[u.idxs[k]].rope = u.toks[k].pos
                                    /\ Written(u, W)[u.idxs[k]].tok = u.toks[k].tok
  <1> DEFINE idxs == u.idxs
             toks == u.toks
             at(i) == CHOOSE k \in DOMAIN idxs : idxs[k] = i
             w == Written(u, W)
             D == [tok : Toks \cup {"none"}, rope : Int]
  <1>1. idxs \in Seq(Cells) /\ DOMAIN idxs = 1 .. Len(idxs)
    BY DEF SlotOK
  <1>2. \A k \in 1 .. Len(idxs) : idxs[k] \in Cells /\ toks[k].tok \in Toks /\ toks[k].pos \in Int
    <2>1. \A k \in 1 .. Len(idxs) : toks[k] \in TokType
      BY DEF SlotOK, UbatchOK, TokOK
    <2>2. \A k \in 1 .. Len(idxs) : idxs[k] \in Cells
      BY <1>1
    <2>3. \A t \in TokType : t.tok \in Toks /\ t.pos \in Positions
      BY DEF TokType
    <2>4. \A p \in Positions : p \in Int
      BY CellsAssumption
    <2> HIDE DEF idxs, toks
    <2> QED  BY <2>1, <2>2, <2>3, <2>4
  <1>3. w = [i \in Cells |-> IF i \in W THEN [tok |-> toks[at(i)].tok, rope |-> toks[at(i)].pos]
                             ELSE data[i]]
    BY DEF Written
  <1>4. \A k \in 1 .. Len(idxs) : at(idxs[k]) = k
    BY <1>1 DEF OneToOne
  <1>5. \A i \in W : \E k \in 1 .. Len(idxs) : idxs[k] = i
    BY <1>1, InRange
  <1>6. \A i \in Cells : i \notin W => w[i] = data[i]
    BY <1>3
  <1>7. \A k \in 1 .. Len(idxs) : idxs[k] \in W =>
           w[idxs[k]] = [tok |-> toks[k].tok, rope |-> toks[k].pos]
    <2> HIDE DEF idxs, toks, w, at
    <2> QED  BY <1>2, <1>3, <1>4
  <1>8. w \in DataType
    <2>1. \A i \in Cells : data[i] \in D
      BY DEF DataType
    <2>2. \A k \in 1 .. Len(idxs) : [tok |-> toks[k].tok, rope |-> toks[k].pos] \in D
      BY <1>2
    <2>3. w = [i \in Cells |-> w[i]]
      BY <1>3
    <2> HIDE DEF w, idxs, toks, D
    <2>4. ASSUME NEW i \in Cells  PROVE w[i] \in D
      <3>1. CASE i \in W
        <4>1. PICK k \in 1 .. Len(idxs) : idxs[k] = i
          BY <1>5, <3>1
        <4> QED  BY <1>7, <2>2, <3>1, <4>1
      <3>2. CASE i \notin W
        BY <1>6, <2>1, <3>2
      <3> QED  BY <3>1, <3>2
    <2>5. w \in [Cells -> D]
      BY <2>3, <2>4
    <2> QED  BY <2>5 DEF DataType, D
  <1>9. ASSUME NEW k \in 1 .. Len(idxs), idxs[k] \in W
        PROVE  w[idxs[k]].rope = toks[k].pos /\ w[idxs[k]].tok = toks[k].tok
    <2>1. w[idxs[k]] = [tok |-> toks[k].tok, rope |-> toks[k].pos]
      BY <1>7, <1>9
    <2> HIDE DEF w, idxs, toks
    <2> QED  BY <2>1
  <1> QED  BY <1>6, <1>8, <1>9

(* m with other data. *)
LEMMA RewrittenInv ==
    ASSUME NEW m, MInv(m), NEW x \in DataType
    PROVE  LET d == [m EXCEPT !.data = x]
           IN  MInv(d) /\ d.cells = m.cells /\ d.data = x
  <1> DEFINE d == [m EXCEPT !.data = x]
  <1>1. m \in MemType /\ CInv(m.cells)
    BY DEF MInv
  <1>2. d \in MemType /\ d.cells = m.cells /\ d.data = x
    BY <1>1 DEF MemType
  <1> QED  BY <1>1, <1>2 DEF MInv

(* The sequences that a failed ubatch removes from cell i. *)
FailedAt(c, toks, i) ==
    {s \in c.seq[i] : \E t \in Range(toks) : t.lead = s /\ t.pos <= c.pos[i]}

(* The positions of a failed ubatch are removed from its first sequences: if   *)
(* no token has others, no cell of the slot still holds one of its tokens.     *)
LEMMA RemoveFacts ==
    ASSUME NEW m, NEW d, MInv(d), NEW idxs, NEW toks, SlotOK(idxs, toks),
           Applied(m, d, idxs, toks)
    PROVE  LET f == RemoveFailed(d, toks)
           IN  /\ MInv(f) /\ f.data = d.data
               /\ \A i \in Cells : Thinner(d.cells, f.cells, i)
               /\ ~Coupled => \A i \in Range(idxs) : f.cells.pos[i] = -1
               /\ \A i \in Cells : RmAt(d.cells, f.cells, FailedAt(d.cells, toks, i), i)
  <1> DEFINE R == [i \in Cells |-> {s \in d.cells.seq[i] :
                      \E t \in Range(toks) : t.lead = s /\ t.pos <= d.cells.pos[i]}]
             f == RemoveFailed(d, toks)
  <1>1. f = RmAll(d, R)
    BY DEF RemoveFailed
  <1>2. \A i \in Cells : R[i] \in SUBSET d.cells.seq[i]
    OBVIOUS
  <1>3. \A i \in Cells : \A s \in d.cells.seq[i] :
           (\E t \in Range(toks) : t.lead = s /\ t.pos <= d.cells.pos[i]) => s \in R[i]
    OBVIOUS
  <1> HIDE DEF R, f
  <1>4. /\ MInv(f) /\ f.data = d.data
        /\ \A i \in Cells : RmAt(d.cells, f.cells, R[i], i)
        /\ \A i \in Cells : Thinner(d.cells, f.cells, i)
    BY <1>1, <1>2, RmAllFacts
  <1>5. ASSUME ~Coupled, NEW i \in Range(idxs), f.cells.pos[i] # -1  PROVE FALSE
    <2>1. i \in Cells
      BY DEF SlotOK, Range
    <2>2. d.cells.pos[i] # -1
      BY <1>4, <1>5, <2>1 DEF Thinner
    <2>3. PICK k \in 1 .. Len(idxs) : /\ idxs[k] = i /\ d.cells.pos[i] = toks[k].pos
                                      /\ d.cells.seq[i] \subseteq toks[k].seqs
      BY <2>2 DEF Applied
    <2>4. /\ TokOK(toks[k]) /\ toks[k] \in Range(toks)
      <3>1. toks \in Seq(TokType) /\ k \in 1 .. Len(toks)
        BY DEF SlotOK, UbatchOK
      <3> QED  BY <3>1 DEF SlotOK, UbatchOK, Range
    <2>5. toks[k].seqs = {toks[k].lead} /\ toks[k].pos \in Int
      <3>1. toks[k].seqs = {toks[k].lead} /\ toks[k] \in TokType
        BY <1>5, <2>4 DEF TokOK
      <3>2. \A t \in TokType : t.pos \in Positions
        BY DEF TokType
      <3>3. toks[k].pos \in Positions
        BY <3>1, <3>2
      <3>4. \A p \in Positions : p \in Int
        BY CellsAssumption
      <3> QED  BY <3>1, <3>3, <3>4
    <2>6. toks[k].pos <= d.cells.pos[i]
      BY <2>3, <2>5
    <2>7. \A s \in d.cells.seq[i] : s \in R[i]
      BY <1>3, <2>1, <2>3, <2>4, <2>5, <2>6
    <2>8. d.cells.seq[i] \ R[i] = {}
      BY <2>7
    <2> QED  BY <1>4, <1>5, <2>1, <2>8 DEF RmAt
  <1>6. \A i \in Cells : R[i] = FailedAt(d.cells, toks, i)
    BY DEF R, FailedAt
  <1> QED  BY <1>4, <1>5, <1>6 DEF f

-----------------------------------------------------------------------------
(* The invariant of the cache. *)

Answers == {"clear", "seq_rm", "seq_cp", "seq_keep", "seq_add", "seq_div",
            "update", "invalid", "full", "decode", "failed"}
KVInv == MInv(Mem) /\ TodoOK(cells, todo) /\ op \in Answers

(* The data is at the positions, and no shift is pending while a batch is     *)
(* computed.                                                                  *)
PhaseInv == Phased(Mem) /\ (todo # <<>> => ~cells.has_shift)

(* seq_div does not keep the phase, nor does a graph that fails halfway or    *)
(* the failure of an ubatch whose tokens are in several sequences.            *)
PhaseKept == Divisors \subseteq {1} /\ Faults = {} /\ ~(Coupled /\ CanFail)

LEMMA MemFacts == /\ Mem.cells = cells /\ Mem.head = head /\ Mem.data = data
                  /\ Mem'.cells = cells' /\ Mem'.head = head' /\ Mem'.data = data'
  BY DEF Mem

LEMMA TodoEmpty ==
    ASSUME NEW c
    PROVE  TodoOK(c, <<>>)
  <1>1. <<>> \in TodoType /\ Len(<<>>) = 0 /\ 1 .. 0 = {}
    BY DEF TodoType
  <1> QED  BY <1>1 DEF TodoOK, SlotsFree

(* A step to the memory m with the ubatches t left. *)
Leaves(m, t, o) ==
    /\ MInv(m) /\ TodoOK(m.cells, t) /\ o \in Answers
    /\ PhaseKept /\ PhaseInv => Phased(m) /\ (t # <<>> => ~m.cells.has_shift)

Step == KVInv' /\ (PhaseKept /\ PhaseInv => PhaseInv')

LEMMA BecomesStep ==
    ASSUME NEW m, NEW t, NEW o, Becomes(m, t, o), Leaves(m, t, o)
    PROVE  Step
  <1>1. cells' = m.cells /\ head' = m.head /\ data' = m.data /\ todo' = t /\ op' = o
    BY DEF Becomes
  <1>2. MInv(m) /\ TodoOK(m.cells, t) /\ o \in Answers
    BY DEF Leaves
  <1>3. Mem' = [cells |-> m.cells, head |-> m.head, data |-> m.data]
    BY <1>1 DEF Mem
  <1>4. Mem' = m
    BY <1>2, <1>3 DEF MInv, MemType
  <1>5. MInv(Mem)' /\ TodoOK(cells, todo)' /\ (op \in Answers)'
    <2>1. MInv(Mem')
      BY <1>2, <1>4
    <2>2. TodoOK(cells', todo')
      BY <1>1, <1>2
    <2> QED  BY <1>1, <1>2, <2>1, <2>2 DEF MInv, TodoOK, SlotsFree, Answers
  <1>6. PhaseKept /\ PhaseInv => PhaseInv'
    <2> HAVE PhaseKept /\ PhaseInv
    <2>1. Phased(m) /\ (t # <<>> => ~m.cells.has_shift)
      BY DEF Leaves
    <2>2. Phased(Mem')
      BY <1>4, <2>1
    <2> QED  BY <1>1, <2>1, <2>2 DEF PhaseInv, Phased
  <1> QED  BY <1>5, <1>6 DEF Step, KVInv

(* A call that leaves no ubatch behind. *)
LEMMA CallStep ==
    ASSUME KVInv, NEW d, NEW o \in Answers, Becomes(d, <<>>, o), MInv(d),
           PhaseKept /\ PhaseInv => Phased(d)
    PROVE  Step
  <1>1. Leaves(d, <<>>, o)
    BY TodoEmpty DEF Leaves
  <1> QED  BY <1>1, BecomesStep

LEMMA InitInv == Init => KVInv /\ PhaseInv
  <1> SUFFICES ASSUME Init  PROVE KVInv /\ PhaseInv
    OBVIOUS
  <1>1. cells = ResetCells /\ head = 0 /\ todo = <<>> /\ op = "clear" /\ data = [i \in Cells |-> Blank]
    BY DEF Init
  <1>2. data \in DataType
    BY <1>1 DEF DataType, Blank
  <1>3. Inv(cells) /\ \A i \in Cells : cells.pos[i] = -1
    BY <1>1, ResetInv DEF ResetCells
  <1>4. CInv(cells) /\ cells \in CellsType
    BY <1>3 DEF CInv, Owned, Inv
  <1>5. head \in 0 .. NCells
    BY <1>1, CellsFacts
  <1>6. MInv(Mem)
    BY <1>2, <1>4, <1>5 DEF MInv, MemType, Mem
  <1>7. TodoOK(cells, todo)
    BY <1>1, TodoEmpty
  <1>8. Phased(Mem)
    BY <1>3, MemFacts DEF Phased
  <1> QED  BY <1>1, <1>6, <1>7, <1>8 DEF KVInv, PhaseInv, Answers

LEMMA ClearStep ==
    ASSUME KVInv, NEW wipe \in BOOLEAN, Clear(wipe)
    PROVE  Step
  <1> DEFINE x == IF wipe THEN [i \in Cells |-> Blank] ELSE data
             d == [cells |-> ResetCells, head |-> 0, data |-> x]
  <1>1. Becomes(d, <<>>, "clear")
    BY DEF Clear
  <1>2. x \in DataType
    <2>1. data \in DataType
      BY MemFacts DEF KVInv, MInv, MemType
    <2>2. [i \in Cells |-> Blank] \in DataType
      BY DEF DataType, Blank
    <2> QED  BY <2>1, <2>2
  <1>3. Inv(ResetCells) /\ \A i \in Cells : ResetCells.pos[i] = -1
    BY ResetInv DEF ResetCells
  <1>4. CInv(ResetCells) /\ ResetCells \in CellsType
    BY <1>3 DEF CInv, Owned, Inv
  <1> HIDE DEF x
  <1>5. MInv(d) /\ Phased(d)
    BY <1>2, <1>3, <1>4, CellsFacts DEF MInv, MemType, Phased
  <1> HIDE DEF d
  <1> QED  BY <1>1, <1>5, CallStep DEF Answers

LEMMA SeqCpGuard ==
    ASSUME KVInv, CpInto # "any", NEW src \in Seqs, NEW dst \in Seqs, NEW r, SeqCp(src, dst, r)
    PROVE  \A i \in Hits(cells, src, r) : src = dst \/ dst \notin cells.seq[i]
  <1>1. CInv(cells) /\ Inv(cells)
    BY MemFacts DEF KVInv, MInv, CInv
  <1>2. CASE CpInto = "disjoint"
    BY <1>2 DEF SeqCp, SeqHas
  <1>3. CASE CpInto = "empty"
    <2> DEFINE P == {cells.pos[i] : i \in {j \in Cells : dst \in cells.seq[j]}}
    <2>1. SeqPosMax(cells, dst) = -1
      BY <1>3 DEF SeqCp
    <2>2. P # {} => SeqPosMax(cells, dst) \in P
      BY <1>1, RangeKnown DEF RangeExact
    <2>3. -1 \notin P
      BY <1>1 DEF Inv, Used
    <2>4. \A i \in Cells : dst \notin cells.seq[i]
      BY <2>1, <2>2, <2>3
    <2> QED  BY <1>1, <2>4, HitsUsed
  <1> QED  BY <1>2, <1>3, ParamsAssumption

LEMMA UpdateStep ==
    ASSUME KVInv, NEW b \in BOOLEAN, UpdateCall(b)
    PROVE  Step
  <1>1. PICK d \in Update(Mem, b) : Becomes(d, <<>>, "update")
    BY DEF UpdateCall
  <1>2. MInv(d) /\ (Faults = {} => Keeps(Mem, d))
    BY <1>1, UpdateKeeps DEF KVInv
  <1>3. PhaseKept /\ PhaseInv => Phased(d)
    BY <1>2 DEF PhaseKept, PhaseInv, Keeps
  <1> QED  BY <1>1, <1>2, <1>3, CallStep DEF Answers

(* A trial moves no data, so it keeps the phase when no shift is pending. *)
LEMMA PreparedPhase ==
    ASSUME NEW m, MInv(m), NEW p, Prepared(m, p), Phased(m), ~m.cells.has_shift
    PROVE  Phased(p.m) /\ ~p.m.cells.has_shift
  <1>1. \A i \in Cells : m.cells.shift[i] = 0
    BY DEF MInv, CInv, Inv, Announced
  <1>2. \A i \in Cells : p.m.cells.shift[i] = 0
    BY DEF Prepared, MInv, CInv, Inv, Announced
  <1> QED  BY <1>1, <1>2 DEF Prepared, Phased

LEMMA DecodeStep ==
    ASSUME KVInv, NEW batch \in Batches, NEW b \in BOOLEAN, Decode(batch, b)
    PROVE  Step
  <1> DEFINE toks == WithPos(cells, batch)
             us == Ubatches(toks)
  <1>0. MInv(Mem)
    BY DEF KVInv
  <1>1. UbatchOK(toks)
    BY PosFacts DEF Decode
  <1>2. us \in Seq(Seq(TokType)) /\ \A k \in 1 .. Len(us) : UbatchOK(us[k])
    BY <1>1, UbatchesFacts
  <1>3. \/ Becomes(Mem, <<>>, "invalid")
        \/ \E m1 \in Update(Mem, b) :
              LET p1 == Prepare(m1, us)
              IN  \/ p1.ok /\ Becomes(p1.m, p1.slots, "update")
                  \/ Becomes(p1.m, <<>>, "full")
                  \/ \E m2 \in Update(p1.m, TRUE) :
                        LET p2 == Prepare(m2, us)
                        IN  \/ p2.ok /\ Becomes(p2.m, p2.slots, "update")
                            \/ Becomes(p2.m, <<>>, "full")
    BY DEF Decode
  <1> HIDE DEF us
  <1>4. ASSUME NEW m, MInv(m), PhaseKept /\ PhaseInv => Phased(m), NEW b1, NEW d \in Update(m, b1)
        PROVE  /\ Prepared(d, Prepare(d, us)) /\ MInv(Prepare(d, us).m)
               /\ PhaseKept /\ PhaseInv => /\ Phased(Prepare(d, us).m)
                                           /\ ~Prepare(d, us).m.cells.has_shift
    <2>1. MInv(d) /\ (Faults = {} => Keeps(m, d) /\ ~d.cells.has_shift)
      BY <1>4, UpdateKeeps
    <2>2. Prepared(d, Prepare(d, us))
      BY <1>2, <2>1, PrepareFacts
    <2>3. PhaseKept /\ PhaseInv => Phased(d) /\ ~d.cells.has_shift
      BY <1>4, <2>1 DEF PhaseKept, Keeps
    <2> QED  BY <2>1, <2>2, <2>3, PreparedPhase DEF Prepared
  <1>5. ASSUME NEW m, NEW p, Prepared(m, p), p.ok, Becomes(p.m, p.slots, "update"),
               PhaseKept /\ PhaseInv => Phased(p.m) /\ ~p.m.cells.has_shift
        PROVE  Step
    <2>1. Leaves(p.m, p.slots, "update")
      BY <1>5 DEF Prepared, Leaves, Answers
    <2> QED  BY <1>5, <2>1, BecomesStep
  <1>6. ASSUME NEW p, MInv(p.m), Becomes(p.m, <<>>, "full"),
               PhaseKept /\ PhaseInv => Phased(p.m) /\ ~p.m.cells.has_shift
        PROVE  Step
    BY <1>6, CallStep DEF Answers
  <1>7. CASE Becomes(Mem, <<>>, "invalid")
    BY <1>0, <1>7, CallStep DEF PhaseInv, Answers
  <1>8. ASSUME NEW m1 \in Update(Mem, b),
               LET p1 == Prepare(m1, us)
               IN  \/ p1.ok /\ Becomes(p1.m, p1.slots, "update")
                   \/ Becomes(p1.m, <<>>, "full")
                   \/ \E m2 \in Update(p1.m, TRUE) :
                         LET p2 == Prepare(m2, us)
                         IN  \/ p2.ok /\ Becomes(p2.m, p2.slots, "update")
                             \/ Becomes(p2.m, <<>>, "full")
        PROVE  Step
    <2> DEFINE p1 == Prepare(m1, us)
    <2>1. /\ Prepared(m1, p1) /\ MInv(p1.m)
          /\ PhaseKept /\ PhaseInv => Phased(p1.m) /\ ~p1.m.cells.has_shift
      <3>1. PhaseKept /\ PhaseInv => Phased(Mem)
        BY DEF PhaseInv
      <3> QED  BY <1>0, <1>4, <3>1
    <2>2. CASE p1.ok /\ Becomes(p1.m, p1.slots, "update")
      <3> HIDE DEF p1
      <3> QED  BY <1>5, <2>1, <2>2
    <2>3. CASE Becomes(p1.m, <<>>, "full")
      <3> HIDE DEF p1
      <3> QED  BY <1>6, <2>1, <2>3
    <2>4. ASSUME NEW m2 \in Update(p1.m, TRUE),
                 LET p2 == Prepare(m2, us)
                 IN  \/ p2.ok /\ Becomes(p2.m, p2.slots, "update")
                     \/ Becomes(p2.m, <<>>, "full")
          PROVE  Step
      <3> DEFINE p2 == Prepare(m2, us)
      <3>1. /\ Prepared(m2, p2) /\ MInv(p2.m)
            /\ PhaseKept /\ PhaseInv => Phased(p2.m) /\ ~p2.m.cells.has_shift
        <4> HIDE DEF p1
        <4> QED  BY <1>4, <2>1
      <3>2. \/ p2.ok /\ Becomes(p2.m, p2.slots, "update")
            \/ Becomes(p2.m, <<>>, "full")
        BY <2>4
      <3> HIDE DEF p2
      <3> QED  BY <1>5, <1>6, <3>1, <3>2
    <2> QED  BY <1>8, <2>2, <2>3, <2>4
  <1> QED  BY <1>3, <1>7, <1>8

(* The first of the ubatches that are left, and the rest. *)
LEMMA HeadFacts ==
    ASSUME NEW t, NEW c, TodoOK(c, t), t # <<>>
    PROVE  /\ SlotOK(Head(t).idxs, Head(t).toks) /\ OneToOne(Head(t).idxs)
           /\ Tail(t) \in TodoType
           /\ \A k \in 1 .. Len(Tail(t)) :
                 /\ SlotOK(Tail(t)[k].idxs, Tail(t)[k].toks) /\ OneToOne(Tail(t)[k].idxs)
                 /\ SwaType = "none" => Range(Head(t).idxs) \cap Range(Tail(t)[k].idxs) = {}
           /\ SwaType = "none" => /\ SlotsFree(c, Tail(t))
                                  /\ \A i \in Range(Head(t).idxs) : c.pos[i] = -1
  <1> DEFINE r == Tail(t)
             U == [idxs : Seq(Cells), toks : Seq(TokType)]
  <1>1. t \in Seq(U) /\ \A k \in 1 .. Len(t) : SlotOK(t[k].idxs, t[k].toks) /\ OneToOne(t[k].idxs)
    BY DEF TodoOK, TodoType
  <1> HIDE DEF U
  <1>2. /\ Len(t) \in Nat /\ Len(t) >= 1 /\ Head(t) = t[1] /\ r \in Seq(U)
        /\ Len(r) = Len(t) - 1 /\ \A k \in 1 .. Len(r) : r[k] = t[k + 1]
    BY <1>1
  <1>3. 1 \in 1 .. Len(t) /\ \A k \in 1 .. Len(r) : k + 1 \in 1 .. Len(t) /\ 1 < k + 1
    BY <1>2
  <1> HIDE DEF r
  <1>4. \A k \in 1 .. Len(r) : SlotOK(r[k].idxs, r[k].toks) /\ OneToOne(r[k].idxs)
    BY <1>1, <1>2, <1>3
  <1>5. SwaType = "none" =>
          /\ SlotsFree(c, r) /\ \A i \in Range(Head(t).idxs) : c.pos[i] = -1
          /\ \A k \in 1 .. Len(r) : Range(Head(t).idxs) \cap Range(r[k].idxs) = {}
    <2> HAVE SwaType = "none"
    <2>1. /\ \A k \in 1 .. Len(t) : \A i \in Range(t[k].idxs) : c.pos[i] = -1
          /\ \A k, l \in 1 .. Len(t) : k < l => Range(t[k].idxs) \cap Range(t[l].idxs) = {}
      BY DEF TodoOK, SlotsFree
    <2>2. \A k \in 1 .. Len(r) : \A i \in Range(r[k].idxs) : c.pos[i] = -1
      BY <1>2, <1>3, <2>1
    <2>3. \A k, l \in 1 .. Len(r) : k < l => k + 1 < l + 1
      BY <1>2
    <2>4. \A k, l \in 1 .. Len(r) : k < l => Range(r[k].idxs) \cap Range(r[l].idxs) = {}
      BY <1>2, <1>3, <2>1, <2>3
    <2>5. \A k \in 1 .. Len(r) : Range(Head(t).idxs) \cap Range(r[k].idxs) = {}
      BY <1>2, <1>3, <2>1
    <2> QED  BY <1>2, <1>3, <2>1, <2>2, <2>4, <2>5 DEF SlotsFree
  <1>6. SlotOK(Head(t).idxs, Head(t).toks) /\ OneToOne(Head(t).idxs)
    BY <1>1, <1>2, <1>3
  <1> QED  BY <1>2, <1>4, <1>5, <1>6 DEF TodoType, r, U

LEMMA ProcessStep ==
    ASSUME KVInv, ProcessUbatch
    PROVE  Step
  <1> DEFINE u == Head(todo)
             r == Tail(todo)
             d == Apply_ubatch(Mem, u.idxs, u.toks)
             x == Written(u, Range(u.idxs))
             f == [d EXCEPT !.data = x]
  <1>1. todo # <<>> /\ Becomes(f, r, "decode")
    BY DEF ProcessUbatch
  <1>2. MInv(Mem) /\ TodoOK(cells, todo) /\ data \in DataType
    BY MemFacts DEF KVInv, MInv, MemType
  <1>3. /\ SlotOK(u.idxs, u.toks) /\ OneToOne(u.idxs) /\ r \in TodoType
        /\ \A k \in 1 .. Len(r) :
              /\ SlotOK(r[k].idxs, r[k].toks) /\ OneToOne(r[k].idxs)
              /\ SwaType = "none" => Range(u.idxs) \cap Range(r[k].idxs) = {}
        /\ SwaType = "none" => /\ SlotsFree(cells, r)
                               /\ \A i \in Range(u.idxs) : cells.pos[i] = -1
    BY <1>1, <1>2, HeadFacts
  <1>4. Applied(Mem, d, u.idxs, u.toks)
    BY <1>2, <1>3, ApplyFacts
  <1>5. SwaType = "none" =>
          \A i \in Cells : i \notin Range(u.idxs) => d.cells.pos[i] = cells.pos[i]
    <2> HAVE SwaType = "none"
    <2>1. \A i \in Range(u.idxs) : Mem.cells.pos[i] = -1
      BY <1>3, MemFacts
    <2> QED  BY <1>2, <1>3, <2>1, ApplyFree, MemFacts
  <1> HIDE DEF u, r, d
  <1>6. /\ x \in DataType /\ \A i \in Cells : i \notin Range(u.idxs) => x[i] = data[i]
        /\ \A k \in 1 .. Len(u.idxs) :
              u.idxs[k] \in Range(u.idxs) => x[u.idxs[k]].rope = u.toks[k].pos
    BY <1>2, <1>3, WrittenFacts
  <1> HIDE DEF x
  <1>7. MInv(d)
    BY <1>4 DEF Applied
  <1>8. MInv(f) /\ f.cells = d.cells /\ f.data = x
    BY <1>6, <1>7, RewrittenInv
  <1> HIDE DEF f
  <1>9. TodoOK(f.cells, r)
    <2>1. SwaType = "none" => SlotsFree(d.cells, r)
      <3> HAVE SwaType = "none"
      <3>1. SlotsFree(cells, r)
        BY <1>3
      <3>2. ASSUME NEW k \in 1 .. Len(r), NEW i \in Range(r[k].idxs)  PROVE d.cells.pos[i] = -1
        <4>1. i \notin Range(u.idxs) /\ cells.pos[i] = -1
          BY <1>3, <3>1 DEF SlotsFree
        <4>2. r[k].idxs \in Seq(Cells)
          BY <1>3 DEF SlotOK
        <4>3. i \in Cells
          BY <4>2 DEF Range
        <4> QED  BY <1>5, <4>1, <4>3
      <3> QED  BY <3>1, <3>2 DEF SlotsFree
    <2> QED  BY <1>3, <1>8, <2>1 DEF TodoOK
  <1>10. PhaseInv => Phased(f) /\ ~f.cells.has_shift
    <2> HAVE PhaseInv
    <2>1. ~d.cells.has_shift
      BY <1>1, <1>4, MemFacts DEF PhaseInv, Applied
    <2>2. ASSUME NEW i \in Cells, d.cells.pos[i] # -1
          PROVE  d.cells.pos[i] = x[i].rope + d.cells.shift[i]
      <3>1. CASE i \in Range(u.idxs)
        <4>1. PICK k \in 1 .. Len(u.idxs) : u.idxs[k] = i /\ d.cells.pos[i] = u.toks[k].pos
          BY <1>4, <2>2, <3>1 DEF Applied
        <4>2. x[i].rope = d.cells.pos[i]
          BY <1>6, <3>1, <4>1
        <4>3. d.cells.shift[i] = 0
          BY <1>4, <3>1 DEF Applied
        <4>4. d.cells.pos[i] \in Int
          BY <1>7, PosInt DEF MInv, MemType
        <4> QED  BY <4>2, <4>3, <4>4
      <3>2. CASE i \notin Range(u.idxs)
        <4>1. Thinner(cells, d.cells, i)
          BY <1>4, <3>2, MemFacts DEF Applied
        <4>2. cells.pos[i] # -1 => cells.pos[i] = data[i].rope + cells.shift[i]
          BY MemFacts DEF PhaseInv, Phased
        <4> QED  BY <1>6, <2>2, <3>2, <4>1, <4>2 DEF Thinner
      <3> QED  BY <3>1, <3>2
    <2> QED  BY <1>8, <2>1, <2>2 DEF Phased
  <1>11. Leaves(f, r, "decode")
    BY <1>8, <1>9, <1>10 DEF Leaves, Answers
  <1> QED  BY <1>1, <1>11, BecomesStep

LEMMA FailStep ==
    ASSUME KVInv, FailUbatch
    PROVE  Step
  <1> DEFINE u == Head(todo)
             d == Apply_ubatch(Mem, u.idxs, u.toks)
             e == RemoveFailed(d, u.toks)
  <1>1. PICK W \in SUBSET Range(u.idxs) :
           Becomes([e EXCEPT !.data = Written(u, W)], <<>>, "failed")
    BY DEF FailUbatch
  <1>2. MInv(Mem) /\ TodoOK(cells, todo) /\ data \in DataType /\ todo # <<>> /\ CanFail
    BY MemFacts DEF KVInv, MInv, MemType, FailUbatch
  <1> DEFINE x == Written(u, W)
             f == [e EXCEPT !.data = x]
  <1>3. SlotOK(u.idxs, u.toks) /\ OneToOne(u.idxs)
    BY <1>2, HeadFacts
  <1>4. Applied(Mem, d, u.idxs, u.toks) /\ MInv(d)
    <2>1. Applied(Mem, d, u.idxs, u.toks)
      BY <1>2, <1>3, ApplyFacts
    <2> QED  BY <2>1 DEF Applied
  <1> HIDE DEF u, d
  <1>5. /\ MInv(e) /\ e.data = d.data
        /\ \A i \in Cells : Thinner(d.cells, e.cells, i)
        /\ ~Coupled => \A i \in Range(u.idxs) : e.cells.pos[i] = -1
    BY <1>3, <1>4, RemoveFacts
  <1>6. x \in DataType /\ \A i \in Cells : i \notin W => x[i] = data[i]
    BY <1>2, <1>3, WrittenFacts
  <1>7. Becomes(f, <<>>, "failed")
    BY <1>1
  <1> HIDE DEF e, x
  <1>8. MInv(f) /\ f.cells = e.cells /\ f.data = x
    BY <1>5, <1>6, RewrittenInv
  <1> HIDE DEF f
  <1>9. PhaseKept /\ PhaseInv => Phased(f)
    <2> HAVE PhaseKept /\ PhaseInv
    <2>0. ~Coupled
      BY <1>2 DEF PhaseKept
    <2>1. ASSUME NEW i \in Cells, e.cells.pos[i] # -1
          PROVE  e.cells.pos[i] = x[i].rope + e.cells.shift[i]
      <3>1. i \notin Range(u.idxs)
        BY <1>5, <2>0, <2>1
      <3>2. Thinner(cells, d.cells, i) /\ Thinner(d.cells, e.cells, i)
        BY <1>4, <1>5, <3>1, MemFacts DEF Applied
      <3>3. cells.pos[i] # -1 => cells.pos[i] = data[i].rope + cells.shift[i]
        BY MemFacts DEF PhaseInv, Phased
      <3>4. x[i] = data[i]
        BY <1>6, <3>1
      <3> QED  BY <2>1, <3>2, <3>3, <3>4 DEF Thinner
    <2> QED  BY <1>8, <2>1 DEF Phased
  <1> QED  BY <1>7, <1>8, <1>9, CallStep DEF Answers

LEMMA CallsKeep ==
    ASSUME KVInv, NEW s \in Seqs, NEW r
    PROVE  /\ SeqKeep(s) => Step
           /\ SeqRm(s, r) => Step
           /\ \A e \in Deltas : SeqAdd(s, r, e) => Step
           /\ \A e \in Divisors : SeqDiv(s, r, e) => Step
           /\ \A t \in Seqs : CpInto # "any" /\ SeqCp(s, t, r) => Step
  <1>0. MInv(Mem) /\ Mem.cells = cells
    BY MemFacts DEF KVInv
  <1>1. ASSUME NEW d, NEW o \in Answers, Becomes(d, <<>>, o), Keeps(Mem, d)  PROVE Step
    <2>1. MInv(d) /\ (PhaseKept /\ PhaseInv => Phased(d))
      BY <1>1 DEF Keeps, PhaseInv
    <2> QED  BY <1>1, <2>1, CallStep
  <1>2. ASSUME SeqKeep(s)  PROVE Step
    <2>1. Becomes(Seq_keep(Mem, s), <<>>, "seq_keep")
      BY <1>2 DEF SeqKeep
    <2> QED  BY <1>0, <1>1, <2>1, SeqKeepKeeps DEF Answers
  <1>3. ASSUME SeqRm(s, r)  PROVE Step
    <2>1. Becomes(Seq_rm(Mem, s, r), <<>>, "seq_rm")
      BY <1>3 DEF SeqRm
    <2> QED  BY <1>0, <1>1, <2>1, SeqRmKeeps DEF Answers
  <1>4. ASSUME NEW e \in Deltas, SeqAdd(s, r, e)  PROVE Step
    <2>1. /\ Becomes(Seq_add(Mem, s, r, e), <<>>, "seq_add") /\ e \in Int
          /\ \A i \in Hits(Mem.cells, s, r) :
                Mem.cells.pos[i] + e < 0 \/ Mem.cells.pos[i] + e \in Positions
      BY <1>0, <1>4, CallsAssumption DEF SeqAdd
    <2>2. Keeps(Mem, Seq_add(Mem, s, r, e))
      BY <1>0, <2>1, SeqAddKeeps
    <2> QED  BY <1>1, <2>1, <2>2 DEF Answers
  <1>5. ASSUME NEW e \in Divisors, SeqDiv(s, r, e)  PROVE Step
    <2>1. /\ Becomes(Seq_div(Mem, s, r, e), <<>>, "seq_div") /\ e \in Nat \ {0}
          /\ \A i \in Hits(Mem.cells, s, r) : Mem.cells.pos[i] \div e \in Positions
      BY <1>0, <1>5, CallsAssumption DEF SeqDiv
    <2>2. MInv(Seq_div(Mem, s, r, e)) /\ (e = 1 => Seq_div(Mem, s, r, e) = Mem)
      BY <1>0, <2>1, SeqDivKeeps
    <2>3. PhaseKept /\ PhaseInv => Phased(Seq_div(Mem, s, r, e))
      BY <1>5, <2>2 DEF PhaseKept, PhaseInv
    <2> QED  BY <2>1, <2>2, <2>3, CallStep DEF Answers
  <1>6. ASSUME NEW t \in Seqs, CpInto # "any", SeqCp(s, t, r)  PROVE Step
    <2>1. Becomes(Seq_cp(Mem, s, t, r), <<>>, "seq_cp")
      BY <1>6 DEF SeqCp
    <2>2. \A i \in Hits(Mem.cells, s, r) : s = t \/ t \notin Mem.cells.seq[i]
      BY <1>0, <1>6, SeqCpGuard
    <2>3. Keeps(Mem, Seq_cp(Mem, s, t, r))
      BY <1>0, <2>2, SeqCpKeeps
    <2> QED  BY <1>1, <2>1, <2>3 DEF Answers
  <1> QED  BY <1>2, <1>3, <1>4, <1>5, <1>6

LEMMA NextStep ==
    ASSUME CpInto # "any", KVInv, [Next]_vars
    PROVE  Step
  <1>1. CASE \E wipe \in BOOLEAN : Clear(wipe)
    BY <1>1, ClearStep
  <1>2. CASE \E s \in Seqs : SeqKeep(s)
    BY <1>2, CallsKeep
  <1>3. CASE \E s \in Seqs, r \in Ranges : \/ SeqRm(s, r)
                                           \/ \E d \in Deltas : SeqAdd(s, r, d)
                                           \/ \E d \in Divisors : SeqDiv(s, r, d)
    BY <1>3, CallsKeep
  <1>4. CASE \E s, t \in Seqs, r \in CpRanges : SeqCp(s, t, r)
    BY <1>4, CallsKeep
  <1>5. CASE \E b \in BOOLEAN : UpdateCall(b)
    BY <1>5, UpdateStep
  <1>6. CASE \E batch \in Batches, b \in BOOLEAN : Decode(batch, b)
    BY <1>6, DecodeStep
  <1>7. CASE ProcessUbatch
    BY <1>7, ProcessStep
  <1>8. CASE FailUbatch
    BY <1>8, FailStep
  <1>9. CASE UNCHANGED vars
    <2>1. cells' = cells /\ head' = head /\ data' = data /\ todo' = todo /\ op' = op
      BY <1>9 DEF vars
    <2>2. Mem' = Mem
      BY <2>1 DEF Mem
    <2> QED  BY <2>1, <2>2 DEF Step, KVInv, PhaseInv, MInv, Phased, TodoOK, SlotsFree, Answers
  <1> QED  BY <1>1, <1>2, <1>3, <1>4, <1>5, <1>6, <1>7, <1>8, <1>9 DEF Next

-----------------------------------------------------------------------------
(* The theorems about the cache.  They are for the calls that the cells        *)
(* allow: seq_cp into cells that already have the sequence ("any") calls       *)
(* seq_add() where its assertion fails.                                        *)

LEMMA KVInvHolds ==
    ASSUME CpInto # "any"
    PROVE  Spec => []KVInv
  <1>1. Init => KVInv
    BY InitInv
  <1>2. KVInv /\ [Next]_vars => KVInv'
    BY NextStep DEF Step
  <1> QED  BY <1>1, <1>2, PTL DEF Spec

(* The metadata, the data and the slots of the cache are of their types: no    *)
(* loop of seq_add, prepare or defrag_prepare leaves the range of the cells.   *)
THEOREM CacheTypeCorrect ==
    ASSUME CpInto # "any"
    PROVE  Spec => []TypeOK
  <1>1. KVInv => TypeOK
    BY MemFacts DEF KVInv, MInv, MemType, CInv, Inv, TodoOK, TodoType, Answers, TypeOK
  <1> QED  BY <1>1, KVInvHolds, PTL

(* Every loop of the cache respects the assertions of the cells' methods, so   *)
(* that the indexes hold what they stand for after any sequence of calls:      *)
(* trials that are undone, purges, moves and failures included.                *)
THEOREM IndexesStayExact ==
    ASSUME CpInto # "any"
    PROVE  Spec => []IndexesExact
  <1>1. KVInv => IndexesExact
    <2> SUFFICES ASSUME CInv(cells)  PROVE IndexesExact
      BY MemFacts DEF KVInv, MInv
    <2>1. /\ cells.used = {i \in Cells : ~IsEmpty(cells, i)}
          /\ \A i \in Cells : IsEmpty(cells, i) <=> cells.seq[i] = {}
      BY DEF CInv, Inv, Used, Owned, IsEmpty
    <2>2. \A s \in Seqs, p \in Positions : cells.seq_pos[s][p] =
             Cardinality({i \in Cells : SeqHas(cells, i, s) /\ cells.pos[i] = p})
      BY DEF CInv, Inv, Counted, At, SeqHas
    <2> QED  BY <2>1, <2>2 DEF IndexesExact
  <1> QED  BY <1>1, KVInvHolds, PTL

(* While a batch is computed no shift is pending and the K data of each cell   *)
(* is rotated to its position: set_input_k_shift, the moves of a               *)
(* defragmentation and the graphs of the ubatches keep data and metadata       *)
(* together, as long as no graph fails halfway, seq_div does not scale, and    *)
(* tokens of several sequences are not in a batch that fails.                  *)
THEOREM ShiftsStayApplied ==
    ASSUME CpInto # "any", Divisors \subseteq {1}, Faults = {}, ~(Coupled /\ CanFail)
    PROVE  Spec => []ShiftsApplied
  <1>1. Init => KVInv /\ PhaseInv
    BY InitInv
  <1>2. KVInv /\ PhaseInv /\ [Next]_vars => (KVInv /\ PhaseInv)'
    BY NextStep DEF Step, PhaseKept
  <1>3. KVInv /\ PhaseInv => ShiftsApplied
    <2> SUFFICES ASSUME KVInv, PhaseInv, todo # <<>>, NEW i \in cells.used
                 PROVE  cells.shift[i] = 0 /\ data[i].rope = cells.pos[i]
      BY DEF ShiftsApplied
    <2>1. CInv(cells) /\ cells \in CellsType /\ data \in DataType
      BY MemFacts DEF KVInv, MInv, MemType
    <2>2. i \in Cells /\ cells.pos[i] # -1
      BY <2>1 DEF CInv, Inv, Used
    <2>3. cells.shift[i] = 0
      BY <2>1, <2>2 DEF PhaseInv, CInv, Inv, Announced
    <2>4. cells.pos[i] = data[i].rope + cells.shift[i]
      BY <2>2, MemFacts DEF PhaseInv, Phased
    <2>5. data[i].rope \in Int
      BY <2>1, <2>2 DEF DataType
    <2> QED  BY <2>3, <2>4, <2>5
  <1> QED  BY <1>1, <1>2, <1>3, PTL DEF Spec

(* Without a window, the slot that prepare() found on trial for each ubatch    *)
(* is still free when the ubatch's turn comes: find_slot returns distinct      *)
(* free cells, each trial is applied before the next, and what is undone is    *)
(* free again.                                                                 *)
THEOREM SlotsStayFree ==
    ASSUME CpInto # "any", SwaType = "none"
    PROVE  Spec => []SlotsStillFree
  <1>1. KVInv => SlotsStillFree
    <2> SUFFICES ASSUME KVInv, todo # <<>>
                 PROVE  /\ \A i \in Range(todo[1].idxs) : IsEmpty(cells, i)
                        /\ Cardinality(Range(todo[1].idxs)) = Len(todo[1].toks)
      BY DEF SlotsStillFree
    <2> DEFINE idxs == todo[1].idxs
               toks == todo[1].toks
               n == Len(idxs)
    <2>1. TodoOK(cells, todo) /\ todo \in TodoType /\ Head(todo) = todo[1]
      BY DEF KVInv, TodoOK, TodoType
    <2>2. SlotOK(idxs, toks) /\ OneToOne(idxs) /\ \A i \in Range(idxs) : cells.pos[i] = -1
      BY <2>1, HeadFacts
    <2>3. \A i \in Range(idxs) : IsEmpty(cells, i)
      BY <2>2 DEF IsEmpty
    <2> HIDE DEF idxs, toks
    <2>4. idxs \in Seq(Cells) /\ n \in Nat /\ n = Len(toks)
      BY <2>2 DEF SlotOK
    <2>5. Cardinality(Range(idxs)) = n
      BY <2>2, <2>4, SlotSize
    <2> QED  BY <2>3, <2>4, <2>5 DEF idxs, toks
  <1> QED  BY <1>1, KVInvHolds, PTL

-----------------------------------------------------------------------------
(* The cache implements the store: what the calls do to the entries. *)

LEMMA HeldMember ==
    ASSUME NEW m, NEW e
    PROVE  e \in Held(m) <=> \E i \in Cells : m.cells.pos[i] # -1 /\ e = EntAt(m, i)
  BY DEF Held

(* The ranges of the cache and of the store are the same. *)
LEMMA HitsIn ==
    ASSUME NEW m, MInv(m), NEW s \in Seqs, NEW r \in Int \X Int, NEW i \in Cells, m.cells.pos[i] # -1
    PROVE  /\ i \in Hits(m.cells, s, r) <=> s \in m.cells.seq[i] /\ Store!In(EntAt(m, i), r)
           /\ Lo(r) = Hi(r) => ~Store!In(EntAt(m, i), r)
  <1> DEFINE p == m.cells.pos[i]
             top == Max(Positions)
  <1>1. p \in Positions /\ p \in Nat
    BY CellsAssumption DEF MInv, MemType, CellsType
  <1>2. top \in Nat /\ p <= top
    <2>1. Positions \in SUBSET Int /\ IsFiniteSet(Positions) /\ Positions # {}
      BY <1>1, CellsAssumption, ParamsAssumption
    <2>2. \E q \in Positions : \A x \in Positions : x <= q
      BY <2>1, FirstAndLast
    <2>3. \A q, x \in Positions : q \in Nat /\ (x <= q <=> q >= x)
      BY CellsAssumption
    <2>4. \E q \in Positions : \A x \in Positions : q >= x
      BY <2>2, <2>3
    <2>5. top \in Positions /\ \A x \in Positions : top >= x
      BY <2>4 DEF Max
    <2> QED  BY <1>1, <2>3, <2>5
  <1>3. r[1] \in Int /\ r[2] \in Int
    OBVIOUS
  <1>4. Lo(r) = IF r[1] < 0 THEN 0 ELSE r[1]
    <2>1. Max({0, r[1]}) = IF r[1] < 0 THEN 0 ELSE r[1]
      BY <1>3 DEF Max
    <2> QED  BY <2>1 DEF Lo
  <1>5. Hi(r) = IF r[2] < 0 THEN 1 + top ELSE r[2]
    BY DEF Hi
  <1> HIDE DEF top
  <1>6. i \in Hits(m.cells, s, r) <=> s \in m.cells.seq[i] /\ p >= Lo(r) /\ p < Hi(r)
    BY DEF Hits, PosIn, SeqHas
  <1>7. Store!In(EntAt(m, i), r) <=> p >= r[1] /\ (r[2] < 0 \/ p < r[2])
    BY DEF Store!In, EntAt
  <1> HIDE DEF p
  <1> QED  BY <1>1, <1>2, <1>3, <1>4, <1>5, <1>6, <1>7

LEMMA CellFacts ==
    ASSUME NEW m, MInv(m), NEW i \in Cells
    PROVE  /\ m.cells.pos[i] # -1 <=> m.cells.seq[i] # {}
           /\ m.cells.pos[i] \in Int /\ (m.cells.pos[i] # -1 => m.cells.pos[i] \in Nat)
           /\ EntAt(m, i).tok = m.data[i].tok /\ EntAt(m, i).pos = m.cells.pos[i]
           /\ EntAt(m, i).seqs = m.cells.seq[i]
  <1>1. m.cells.pos[i] # -1 <=> m.cells.seq[i] # {}
    BY DEF MInv, CInv, Inv, Used, Owned
  <1>2. m.cells \in CellsType
    BY DEF MInv, MemType
  <1> QED  BY <1>1, <1>2, PosInt DEF EntAt

LEMMA WithSeqs ==
    ASSUME NEW a, NEW b, NEW c, NEW v
    PROVE  [[tok |-> a, pos |-> b, seqs |-> c] EXCEPT !.seqs = v] = [tok |-> a, pos |-> b, seqs |-> v]
  OBVIOUS

LEMMA RmHeld ==
    ASSUME NEW m, MInv(m), NEW s \in Seqs, NEW r \in Int \X Int
    PROVE  Held(Seq_rm(m, s, r)) =
             {e \in {[x EXCEPT !.seqs = IF Store!In(x, r) THEN @ \ {s} ELSE @]
                         : x \in Held(m)} : e.seqs # {}}
  <1> DEFINE d == Seq_rm(m, s, r)
             F(x) == [x EXCEPT !.seqs = IF Store!In(x, r) THEN @ \ {s} ELSE @]
  <1>1. /\ MInv(d) /\ d.data = m.data
        /\ \A i \in Cells : RmAt(m.cells, d.cells, IF i \in Hits(m.cells, s, r) THEN {s} ELSE {}, i)
    BY SeqRmKeeps DEF Keeps
  <1> HIDE DEF d
  <1>2. ASSUME NEW i \in Cells, m.cells.pos[i] # -1
        PROVE  /\ d.cells.pos[i] # -1 <=> F(EntAt(m, i)).seqs # {}
               /\ d.cells.pos[i] # -1 => EntAt(d, i) = F(EntAt(m, i))
    <2> DEFINE S == IF Store!In(EntAt(m, i), r) THEN m.cells.seq[i] \ {s} ELSE m.cells.seq[i]
    <2>1. F(EntAt(m, i)) = [tok |-> m.data[i].tok, pos |-> m.cells.pos[i], seqs |-> S]
      <3>1. EntAt(m, i).seqs = m.cells.seq[i]
        BY CellFacts
      <3>2. F(EntAt(m, i)) = [EntAt(m, i) EXCEPT !.seqs = S]
        BY <3>1
      <3> HIDE DEF F, S
      <3> QED  BY <3>2, WithSeqs DEF EntAt
    <2>2. d.cells.seq[i] = S
      <3> DEFINE h == i \in Hits(m.cells, s, r)
                 q == Store!In(EntAt(m, i), r)
                 c == m.cells.seq[i]
      <3>1. h <=> s \in c /\ q
        BY <1>2, HitsIn
      <3>2. d.cells.seq[i] = c \ (IF h THEN {s} ELSE {})
        BY <1>1 DEF RmAt
      <3> HIDE DEF h, q, c
      <3>3. c \ (IF h THEN {s} ELSE {}) = IF q THEN c \ {s} ELSE c
        BY <3>1
      <3> QED  BY <3>2, <3>3 DEF q, c
    <2>3. /\ d.cells.pos[i] # -1 <=> d.cells.seq[i] # {}
          /\ d.cells.pos[i] # -1 => d.cells.pos[i] = m.cells.pos[i]
      <3>1. d.cells.pos[i] # -1 <=> d.cells.seq[i] # {}
        BY <1>1, CellFacts
      <3>2. RmAt(m.cells, d.cells, IF i \in Hits(m.cells, s, r) THEN {s} ELSE {}, i)
        BY <1>1
      <3> QED  BY <3>1, <3>2 DEF RmAt
    <2> HIDE DEF F, S
    <2> QED  BY <1>1, <2>1, <2>2, <2>3 DEF EntAt
  <1>3. \A i \in Cells : d.cells.pos[i] # -1 => m.cells.pos[i] # -1
    BY <1>1, CellFacts DEF RmAt
  <1> HIDE DEF F
  <1>4. \A e : e \in Held(d) <=> (\E x \in Held(m) : e = F(x)) /\ e.seqs # {}
    <2>1. ASSUME NEW e \in Held(d)  PROVE (\E x \in Held(m) : e = F(x)) /\ e.seqs # {}
      <3>1. PICK i \in Cells : d.cells.pos[i] # -1 /\ e = EntAt(d, i)
        BY HeldMember
      <3>2. EntAt(m, i) \in Held(m) /\ e = F(EntAt(m, i)) /\ F(EntAt(m, i)).seqs # {}
        BY <1>2, <1>3, <3>1, HeldMember
      <3> QED  BY <3>2
    <2>2. ASSUME NEW x \in Held(m), F(x).seqs # {}  PROVE F(x) \in Held(d)
      <3>1. PICK i \in Cells : m.cells.pos[i] # -1 /\ x = EntAt(m, i)
        BY HeldMember
      <3>2. d.cells.pos[i] # -1 /\ F(x) = EntAt(d, i)
        BY <1>2, <2>2, <3>1
      <3> QED  BY <3>2, HeldMember
    <2> QED  BY <2>1, <2>2
  <1>5. Held(d) = {e \in {F(x) : x \in Held(m)} : e.seqs # {}}
    BY <1>4
  <1> QED  BY <1>5 DEF F, d

LEMMA CpHeld ==
    ASSUME NEW m, MInv(m), NEW src \in Seqs, NEW dst \in Seqs, NEW r \in Int \X Int,
           \A i \in Hits(m.cells, src, r) : src = dst \/ dst \notin m.cells.seq[i]
    PROVE  Held(Seq_cp(m, src, dst, r)) =
             {[e EXCEPT !.seqs = IF src \in @ /\ Store!In(e, r) THEN @ \cup {dst} ELSE @]
                 : e \in Held(m)}
  <1> DEFINE d == Seq_cp(m, src, dst, r)
             F(x) == [x EXCEPT !.seqs = IF src \in @ /\ Store!In(x, r) THEN @ \cup {dst} ELSE @]
  <1>1. /\ MInv(d) /\ d.data = m.data
        /\ src = dst => d = m
        /\ src # dst => \A i \in Cells :
              CpAt(m.cells, d.cells, IF i \in Hits(m.cells, src, r) THEN {dst} ELSE {}, i)
    BY SeqCpKeeps DEF Keeps
  <1> HIDE DEF d
  <1>2. ASSUME NEW i \in Cells, m.cells.pos[i] # -1
        PROVE  d.cells.pos[i] # -1 /\ EntAt(d, i) = F(EntAt(m, i))
    <2> DEFINE h == i \in Hits(m.cells, src, r)
               q == Store!In(EntAt(m, i), r)
               c == m.cells.seq[i]
               S == IF src \in c /\ q THEN c \cup {dst} ELSE c
    <2>1. F(EntAt(m, i)) = [tok |-> m.data[i].tok, pos |-> m.cells.pos[i], seqs |-> S]
      <3>1. EntAt(m, i).seqs = m.cells.seq[i]
        BY CellFacts
      <3>2. F(EntAt(m, i)) = [EntAt(m, i) EXCEPT !.seqs = S]
        BY <3>1
      <3> HIDE DEF F, S
      <3> QED  BY <3>2, WithSeqs DEF EntAt
    <2>2. h <=> src \in c /\ q
      BY <1>2, HitsIn
    <2>3. d.cells.seq[i] = S /\ d.cells.pos[i] = m.cells.pos[i]
      <3>1. CASE src = dst
        <4>1. d = m
          BY <1>1, <3>1
        <4>2. S = c
          <5> HIDE DEF c, q
          <5> QED  BY <3>1
        <4> QED  BY <4>1, <4>2
      <3>2. CASE src # dst
        <4>1. d.cells.seq[i] = c \cup (IF h THEN {dst} ELSE {}) /\ d.cells.pos[i] = m.cells.pos[i]
          BY <1>1, <3>2 DEF CpAt
        <4> HIDE DEF h, q, c
        <4> QED  BY <2>2, <4>1
      <3> QED  BY <3>1, <3>2
    <2> HIDE DEF F, S
    <2> QED  BY <1>1, <1>2, <2>1, <2>3 DEF EntAt
  <1>3. \A i \in Cells : d.cells.pos[i] # -1 => m.cells.pos[i] # -1
    BY <1>1 DEF CpAt
  <1> HIDE DEF F
  <1>4. \A e : e \in Held(d) <=> \E x \in Held(m) : e = F(x)
    <2>1. ASSUME NEW e \in Held(d)  PROVE \E x \in Held(m) : e = F(x)
      <3>1. PICK i \in Cells : d.cells.pos[i] # -1 /\ e = EntAt(d, i)
        BY HeldMember
      <3>2. EntAt(m, i) \in Held(m) /\ e = F(EntAt(m, i))
        BY <1>2, <1>3, <3>1, HeldMember
      <3> QED  BY <3>2
    <2>2. ASSUME NEW x \in Held(m)  PROVE F(x) \in Held(d)
      <3>1. PICK i \in Cells : m.cells.pos[i] # -1 /\ x = EntAt(m, i)
        BY HeldMember
      <3>2. d.cells.pos[i] # -1 /\ F(x) = EntAt(d, i)
        BY <1>2, <3>1
      <3> QED  BY <3>2, HeldMember
    <2> QED  BY <2>1, <2>2
  <1>5. Held(d) = {F(x) : x \in Held(m)}
    BY <1>4
  <1> QED  BY <1>5 DEF F, d

LEMMA KeepHeld ==
    ASSUME NEW m, MInv(m), NEW s \in Seqs
    PROVE  Held(Seq_keep(m, s)) = {[e EXCEPT !.seqs = {s}] : e \in {x \in Held(m) : s \in x.seqs}}
  <1> DEFINE d == Seq_keep(m, s)
             F(x) == [x EXCEPT !.seqs = {s}]
  <1>1. /\ MInv(d) /\ d.data = m.data
        /\ \A i \in Cells : KeepAt(m.cells, d.cells, s, i)
    BY SeqKeepKeeps DEF Keeps
  <1> HIDE DEF d
  <1>2. ASSUME NEW i \in Cells, m.cells.pos[i] # -1
        PROVE  /\ d.cells.pos[i] # -1 <=> s \in EntAt(m, i).seqs
               /\ d.cells.pos[i] # -1 => EntAt(d, i) = F(EntAt(m, i))
    <2>1. F(EntAt(m, i)) = [tok |-> m.data[i].tok, pos |-> m.cells.pos[i], seqs |-> {s}]
      <3> DEFINE S == {s}
      <3>1. [EntAt(m, i) EXCEPT !.seqs = S] =
               [tok |-> m.data[i].tok, pos |-> m.cells.pos[i], seqs |-> S]
        <4> HIDE DEF S
        <4> QED  BY DEF EntAt
      <3> QED  BY <3>1
    <2>2. KeepAt(m.cells, d.cells, s, i) /\ EntAt(m, i).seqs = m.cells.seq[i]
      BY <1>1 DEF EntAt
    <2> HIDE DEF F
    <2> QED  BY <1>1, <1>2, <2>1, <2>2 DEF EntAt, KeepAt, Blanked
  <1>3. \A i \in Cells : d.cells.pos[i] # -1 => m.cells.pos[i] # -1
    <2> SUFFICES ASSUME NEW i \in Cells, d.cells.pos[i] # -1  PROVE m.cells.pos[i] # -1
      OBVIOUS
    <2>1. s \in m.cells.seq[i]
      BY <1>1 DEF KeepAt, Blanked
    <2> QED  BY <2>1, CellFacts
  <1> HIDE DEF F
  <1>4. \A e : e \in Held(d) <=> \E x \in {y \in Held(m) : s \in y.seqs} : e = F(x)
    <2>1. ASSUME NEW e \in Held(d)  PROVE \E x \in {y \in Held(m) : s \in y.seqs} : e = F(x)
      <3>1. PICK i \in Cells : d.cells.pos[i] # -1 /\ e = EntAt(d, i)
        BY HeldMember
      <3>2. EntAt(m, i) \in Held(m) /\ e = F(EntAt(m, i)) /\ s \in EntAt(m, i).seqs
        BY <1>2, <1>3, <3>1, HeldMember
      <3> QED  BY <3>2
    <2>2. ASSUME NEW x \in Held(m), s \in x.seqs  PROVE F(x) \in Held(d)
      <3>1. PICK i \in Cells : m.cells.pos[i] # -1 /\ x = EntAt(m, i)
        BY HeldMember
      <3>2. d.cells.pos[i] # -1 /\ F(x) = EntAt(d, i)
        BY <1>2, <2>2, <3>1
      <3> QED  BY <3>2, HeldMember
    <2> QED  BY <2>1, <2>2
  <1>5. Held(d) = {F(x) : x \in {y \in Held(m) : s \in y.seqs}}
    BY <1>4
  <1> QED  BY <1>5 DEF F, d

LEMMA AddHeld ==
    ASSUME NEW m, MInv(m), NEW s \in Seqs, NEW r \in Int \X Int, NEW a \in Int,
           \A i \in Hits(m.cells, s, r) :
               m.cells.pos[i] + a < 0 \/ m.cells.pos[i] + a \in Positions
    PROVE  Held(Seq_add(m, s, r, a)) =
             {e \in {[x EXCEPT !.pos = IF s \in x.seqs /\ Store!In(x, r) THEN @ + a ELSE @]
                         : x \in Held(m)} : e.pos >= 0}
  <1> DEFINE d == Seq_add(m, s, r, a)
             F(x) == [x EXCEPT !.pos = IF s \in x.seqs /\ Store!In(x, r) THEN @ + a ELSE @]
             none == a = 0 \/ Lo(r) = Hi(r)
  <1>1. /\ MInv(d) /\ d.data = m.data
        /\ none => d = m
        /\ ~none => \A i \in Cells : IF i \in Hits(m.cells, s, r) THEN AddAt(m.cells, d.cells, a, i)
                                      ELSE Same(m.cells, d.cells, i)
    BY SeqAddKeeps DEF Keeps
  <1> HIDE DEF d
  <1>2. ASSUME NEW i \in Cells, m.cells.pos[i] # -1
        PROVE  /\ d.cells.pos[i] # -1 <=> F(EntAt(m, i)).pos >= 0
               /\ d.cells.pos[i] # -1 => EntAt(d, i) = F(EntAt(m, i))
    <2> DEFINE h == i \in Hits(m.cells, s, r)
               q == Store!In(EntAt(m, i), r)
               c == m.cells.seq[i]
               p == m.cells.pos[i]
               P == IF s \in c /\ q THEN p + a ELSE p
    <2>1. F(EntAt(m, i)) = [tok |-> m.data[i].tok, pos |-> P, seqs |-> c]
      BY DEF EntAt
    <2>2. (h <=> s \in c /\ q) /\ (Lo(r) = Hi(r) => ~q)
      BY <1>2, HitsIn
    <2>3. p \in Nat
      BY <1>2, CellFacts
    <2>4. /\ d.cells.pos[i] # -1 <=> P >= 0
          /\ d.cells.pos[i] # -1 => d.cells.pos[i] = P /\ d.cells.seq[i] = c
      <3>1. CASE none
        <4>1. d = m
          BY <1>1, <3>1
        <4>2. P = p
          <5> HIDE DEF c, q, p
          <5> QED  BY <2>2, <2>3, <3>1
        <4> QED  BY <1>2, <2>3, <4>1, <4>2
      <3>2. CASE ~none
        <4>1. CASE h
          <5>1. AddAt(m.cells, d.cells, a, i)
            BY <1>1, <3>2, <4>1
          <5>2. /\ p + a < 0 => d.cells.pos[i] = -1
                /\ p + a >= 0 => d.cells.pos[i] = p + a /\ d.cells.seq[i] = c
            BY <5>1 DEF AddAt, Blanked
          <5> HIDE DEF c, q, p
          <5> QED  BY <2>2, <2>3, <4>1, <5>2
        <4>2. CASE ~h
          <5>1. d.cells.pos[i] = p /\ d.cells.seq[i] = c
            BY <1>1, <3>2, <4>2 DEF Same
          <5> HIDE DEF c, q, p
          <5> QED  BY <2>2, <2>3, <4>2, <5>1
        <4> QED  BY <4>1, <4>2
      <3> QED  BY <3>1, <3>2
    <2> HIDE DEF F, P
    <2> QED  BY <1>1, <2>1, <2>4 DEF EntAt
  <1>3. \A i \in Cells : d.cells.pos[i] # -1 => m.cells.pos[i] # -1
    <2> SUFFICES ASSUME NEW i \in Cells, d.cells.pos[i] # -1  PROVE m.cells.pos[i] # -1
      OBVIOUS
    <2>1. i \in Hits(m.cells, s, r) => m.cells.pos[i] # -1
      BY HitsUsed DEF MInv
    <2> QED  BY <1>1, <2>1 DEF Same
  <1> HIDE DEF F
  <1>4. \A e : e \in Held(d) <=> (\E x \in Held(m) : e = F(x)) /\ e.pos >= 0
    <2>1. ASSUME NEW e \in Held(d)  PROVE (\E x \in Held(m) : e = F(x)) /\ e.pos >= 0
      <3>1. PICK i \in Cells : d.cells.pos[i] # -1 /\ e = EntAt(d, i)
        BY HeldMember
      <3>2. EntAt(m, i) \in Held(m) /\ e = F(EntAt(m, i)) /\ F(EntAt(m, i)).pos >= 0
        BY <1>2, <1>3, <3>1, HeldMember
      <3> QED  BY <3>2
    <2>2. ASSUME NEW x \in Held(m), F(x).pos >= 0  PROVE F(x) \in Held(d)
      <3>1. PICK i \in Cells : m.cells.pos[i] # -1 /\ x = EntAt(m, i)
        BY HeldMember
      <3>2. d.cells.pos[i] # -1 /\ F(x) = EntAt(d, i)
        BY <1>2, <2>2, <3>1
      <3> QED  BY <3>2, HeldMember
    <2> QED  BY <2>1, <2>2
  <1>5. Held(d) = {e \in {F(x) : x \in Held(m)} : e.pos >= 0}
    BY <1>4
  <1> QED  BY <1>5 DEF F, d

-----------------------------------------------------------------------------
(* The entries of a memory whose data and metadata agree. *)

StoreOf(m) == {[tok |-> m.data[i].tok, pos |-> m.data[i].rope + m.cells.shift[i],
                seqs |-> m.cells.seq[i]] : i \in m.cells.used}

LEMMA StoreHeld ==
    ASSUME NEW m, MInv(m), Phased(m)
    PROVE  StoreOf(m) = Held(m)
  <1>1. \A i : i \in m.cells.used <=> i \in Cells /\ m.cells.pos[i] # -1
    BY DEF MInv, CInv, Inv, Used
  <1>2. \A i \in Cells : m.cells.pos[i] # -1 =>
           EntAt(m, i) = [tok |-> m.data[i].tok, pos |-> m.data[i].rope + m.cells.shift[i],
                          seqs |-> m.cells.seq[i]]
    BY DEF Phased, EntAt
  <1>3. \A e : e \in StoreOf(m) <=> \E i \in Cells : m.cells.pos[i] # -1 /\ e = EntAt(m, i)
    BY <1>1, <1>2 DEF StoreOf
  <1> QED  BY <1>3, HeldMember

(* Token x comes before token y in each sequence that they share. *)
Before(x, y) == \A s \in Seqs : s \in x.seqs /\ s \in y.seqs => x.pos < y.pos

(* What is left of a batch comes after the entries H, in the order of the     *)
(* ubatches.                                                                  *)
Ahead(H, t) ==
    \A l \in 1 .. Len(t) : \A y \in Range(t[l].toks) :
        /\ \A e \in H : Before(e, y)
        /\ \A k \in 1 .. Len(t) : k < l => \A x \in Range(t[k].toks) : Before(x, y)

AheadInv == Ahead(Held(Mem), todo)

(* A step of the cache is one of the store, and the rest stays ahead. *)
StoreStep == Store!Next /\ AheadInv'

Whole == PhaseKept /\ KVInv /\ PhaseInv

LEMMA MemNext ==
    ASSUME NEW m, NEW t, NEW o, Becomes(m, t, o), MInv(m)
    PROVE  Mem' = m /\ todo' = t /\ op' = o
  <1>1. m = [cells |-> m.cells, head |-> m.head, data |-> m.data]
    BY DEF MInv, MemType
  <1> QED  BY <1>1 DEF Becomes, Mem

LEMMA EntriesKnown ==
    ASSUME Whole, NEW m, NEW t, NEW o, Becomes(m, t, o), MInv(m), Phased(m)
    PROVE  Entries = Held(Mem) /\ Entries' = Held(m) /\ op' = o
  <1>1. Entries = StoreOf(Mem)
    BY MemFacts DEF Entries, StoreOf
  <1>2. Held(Mem) = StoreOf(Mem)
    BY StoreHeld DEF Whole, KVInv, PhaseInv
  <1>3. Entries' = StoreOf(m)
    BY DEF Entries, StoreOf, Becomes
  <1> QED  BY <1>1, <1>2, <1>3, StoreHeld DEF Becomes

LEMMA NothingAhead ==
    ASSUME NEW m, NEW o, Becomes(m, <<>>, o)
    PROVE  AheadInv'
  <1>1. todo' = <<>> /\ Len(todo') = 0
    BY DEF Becomes
  <1>2. \A l \in 1 .. Len(todo') : FALSE
    BY <1>1
  <1> QED  BY <1>2 DEF AheadInv, Ahead

LEMMA NothingDue ==
    ASSUME todo = <<>>, NEW m, NEW o, Becomes(m, <<>>, o)
    PROVE  Store!Idle
  <1>1. Len(todo) = 0 /\ Len(todo') = 0
    BY DEF Becomes
  <1> QED  BY <1>1 DEF Due, Store!Idle

LEMMA StoreClear ==
    ASSUME NEW w \in BOOLEAN, Clear(w)
    PROVE  StoreStep
  <1> DEFINE m == [cells |-> ResetCells, head |-> 0,
                   data  |-> IF w THEN [i \in Cells |-> Blank] ELSE data]
  <1>1. todo = <<>> /\ Becomes(m, <<>>, "clear")
    BY DEF Clear
  <1>2. Entries' = {} /\ op' = "clear"
    BY <1>1 DEF Becomes, Entries, ResetCells
  <1> HIDE DEF m
  <1>3. Store!Next
    BY <1>1, <1>2, NothingDue DEF Store!Next, Store!Clear
  <1> QED  BY <1>1, <1>3, NothingAhead DEF StoreStep

LEMMA StoreCalls ==
    ASSUME Whole, NEW s \in Seqs
    PROVE  /\ SeqKeep(s) => StoreStep
           /\ \A r \in Ranges : SeqRm(s, r) => StoreStep
           /\ \A r \in Ranges, a \in Deltas : SeqAdd(s, r, a) => StoreStep
           /\ \A r \in Ranges, a \in Divisors : SeqDiv(s, r, a) => StoreStep
           /\ \A t \in Seqs, r \in CpRanges : CpInto # "any" /\ SeqCp(s, t, r) => StoreStep
  <1>0. MInv(Mem) /\ Phased(Mem) /\ Mem.cells = cells /\ PhaseKept
    BY MemFacts DEF Whole, KVInv, PhaseInv
  <1>1. ASSUME NEW r \in Ranges \cup CpRanges  PROVE r \in Int \X Int
    BY ParamsAssumption
  <1>3. ASSUME SeqKeep(s)  PROVE StoreStep
    <2> DEFINE m == Seq_keep(Mem, s)
    <2>1. todo = <<>> /\ Becomes(m, <<>>, "seq_keep")
      BY <1>3 DEF SeqKeep
    <2>2. MInv(m) /\ Phased(m)
      BY <1>0, SeqKeepKeeps DEF Keeps
    <2>3. Entries = Held(Mem) /\ Entries' = Held(m) /\ op' = "seq_keep" /\ Store!Idle
      <3> HIDE DEF m
      <3> QED  BY <2>1, <2>2, EntriesKnown, NothingDue
    <2>4. Store!SeqKeep(s)
      BY <1>0, <2>3, KeepHeld DEF Store!SeqKeep
    <2>5. Store!Next
      BY <2>4 DEF Store!Next
    <2> HIDE DEF m
    <2> QED  BY <2>1, <2>5, NothingAhead DEF StoreStep
  <1>4. ASSUME NEW r \in Ranges, SeqRm(s, r)  PROVE StoreStep
    <2> DEFINE m == Seq_rm(Mem, s, r)
    <2>1. todo = <<>> /\ Becomes(m, <<>>, "seq_rm")
      BY <1>4 DEF SeqRm
    <2>2. MInv(m) /\ Phased(m)
      BY <1>0, SeqRmKeeps DEF Keeps
    <2>3. Entries = Held(Mem) /\ Entries' = Held(m) /\ op' = "seq_rm" /\ Store!Idle
      <3> HIDE DEF m
      <3> QED  BY <2>1, <2>2, EntriesKnown, NothingDue
    <2>4. Store!SeqRm(s, r)
      BY <1>0, <1>1, <2>3, RmHeld DEF Store!SeqRm
    <2>5. Store!Next
      BY <2>4 DEF Store!Next
    <2> HIDE DEF m
    <2> QED  BY <2>1, <2>5, NothingAhead DEF StoreStep
  <1>5. ASSUME NEW r \in Ranges, NEW a \in Deltas, SeqAdd(s, r, a)  PROVE StoreStep
    <2> DEFINE m == Seq_add(Mem, s, r, a)
    <2>1. /\ todo = <<>> /\ Becomes(m, <<>>, "seq_add") /\ a \in Int
          /\ \A i \in Hits(Mem.cells, s, r) :
                Mem.cells.pos[i] + a < 0 \/ Mem.cells.pos[i] + a \in Positions
      BY <1>0, <1>5, CallsAssumption DEF SeqAdd
    <2>2. MInv(m) /\ Phased(m)
      BY <1>0, <2>1, SeqAddKeeps DEF Keeps
    <2>3. Entries = Held(Mem) /\ Entries' = Held(m) /\ op' = "seq_add" /\ Store!Idle
      <3> HIDE DEF m
      <3> QED  BY <2>1, <2>2, EntriesKnown, NothingDue
    <2>4. Store!SeqAdd(s, r, a)
      BY <1>0, <1>1, <2>1, <2>3, AddHeld DEF Store!SeqAdd
    <2>5. Store!Next
      BY <2>4 DEF Store!Next
    <2> HIDE DEF m
    <2> QED  BY <2>1, <2>5, NothingAhead DEF StoreStep
  <1>6. ASSUME NEW r \in Ranges, NEW a \in Divisors, SeqDiv(s, r, a)  PROVE StoreStep
    <2>1. a = 1
      BY <1>0 DEF PhaseKept
    <2>2. todo = <<>> /\ Becomes(Mem, <<>>, "seq_div")
      <3>1. todo = <<>> /\ Becomes(Seq_div(Mem, s, r, a), <<>>, "seq_div") /\ 1 \in Nat \ {0}
        BY <1>6 DEF SeqDiv
      <3>2. Seq_div(Mem, s, r, 1) = Mem
        BY <1>0 DEF Seq_div, MInv, MemType
      <3> QED  BY <2>1, <3>1, <3>2
    <2>3. Entries = Held(Mem) /\ Entries' = Held(Mem) /\ op' = "seq_div" /\ Store!Idle
      BY <1>0, <2>2, EntriesKnown, NothingDue
    <2>4. \A e \in Held(Mem) :
             [e EXCEPT !.pos = IF s \in e.seqs /\ Store!In(e, r) THEN @ \div a ELSE @] = e
      <3> SUFFICES ASSUME NEW e \in Held(Mem)
                   PROVE  [e EXCEPT !.pos = IF s \in e.seqs /\ Store!In(e, r) THEN @ \div a ELSE @] = e
        OBVIOUS
      <3>1. PICK i \in Cells : Mem.cells.pos[i] # -1 /\ e = EntAt(Mem, i)
        BY HeldMember
      <3>2. e.pos \in Nat /\ e.pos \div a = e.pos
        <4>1. e.pos \in Nat
          BY <1>0, <3>1, CellFacts
        <4> QED  BY <2>1, <4>1
      <3>3. [e EXCEPT !.pos = e.pos] = e
        BY <3>1 DEF EntAt
      <3> QED  BY <3>2, <3>3
    <2>5. Store!SeqDiv(s, r, a)
      BY <2>3, <2>4 DEF Store!SeqDiv
    <2>6. Store!Next
      BY <2>5 DEF Store!Next
    <2> QED  BY <2>2, <2>6, NothingAhead DEF StoreStep
  <1>7. ASSUME NEW t \in Seqs, NEW r \in CpRanges, CpInto # "any", SeqCp(s, t, r)  PROVE StoreStep
    <2> DEFINE m == Seq_cp(Mem, s, t, r)
    <2>1. todo = <<>> /\ Becomes(m, <<>>, "seq_cp")
      BY <1>7 DEF SeqCp
    <2>2. \A i \in Hits(Mem.cells, s, r) : s = t \/ t \notin Mem.cells.seq[i]
      BY <1>0, <1>7, SeqCpGuard DEF Whole
    <2>3. MInv(m) /\ Phased(m)
      BY <1>0, <2>2, SeqCpKeeps DEF Keeps
    <2>4. Entries = Held(Mem) /\ Entries' = Held(m) /\ op' = "seq_cp" /\ Store!Idle
      <3> HIDE DEF m
      <3> QED  BY <2>1, <2>3, EntriesKnown, NothingDue
    <2>5. Store!SeqCp(s, t, r)
      BY <1>0, <1>1, <2>2, <2>4, CpHeld DEF Store!SeqCp
    <2>6. Store!Next
      BY <2>5 DEF Store!Next
    <2> HIDE DEF m
    <2> QED  BY <2>1, <2>6, NothingAhead DEF StoreStep
  <1> QED  BY <1>3, <1>4, <1>5, <1>6, <1>7

-----------------------------------------------------------------------------
(* The order of the tokens of a batch. *)

LEMMA LastKnown ==
    ASSUME Inv(cells), NEW s \in Seqs
    PROVE  /\ SeqPosMax(cells, s) \in Int
           /\ \A i \in Cells : s \in cells.seq[i] => cells.pos[i] <= SeqPosMax(cells, s)
  <1> DEFINE P == {cells.pos[i] : i \in {j \in Cells : s \in cells.seq[j]}}
  <1>1. RangeOf(P, s)
    BY RangeKnown DEF RangeExact, RangeOf
  <1>2. \A p \in P : p \in Int
    BY PosInt DEF Inv
  <1>3. \A i \in Cells : s \in cells.seq[i] => cells.pos[i] \in P
    OBVIOUS
  <1> HIDE DEF P
  <1> QED  BY <1>1, <1>2, <1>3 DEF RangeOf

(* A token of a batch comes before the later ones that share a sequence. *)
LEMMA PosOrder ==
    ASSUME Inv(cells), NEW batch \in Batches
    PROVE  LET w == WithPos(cells, batch)
           IN  \A i, j \in 1 .. Len(w) : i < j => Before(w[i], w[j])
  <1> DEFINE N == Len(batch)
  <1>0. /\ N \in Nat /\ N >= 1
        /\ \A k \in 1 .. N :
              /\ batch[k].tok \in Toks /\ batch[k].seqs \in SUBSET Seqs /\ batch[k].lead \in Seqs
              /\ batch[k].lead \in batch[k].seqs
              /\ Coupled \/ batch[k].seqs = {batch[k].lead}
    BY BatchFacts
  <1>1. PICK a : PosRun(a, cells, batch)
    BY <1>0, PosSteps
  <1>2. /\ a[0] = [p0 |-> [s \in Seqs |-> SeqPosMax(cells, s) + 1], toks |-> <<>>]
        /\ WithPos(cells, batch) = a[N].toks
        /\ \A k \in 1 .. N : a[k] = Positioned(a[k - 1], batch[k])
    BY <1>1 DEF PosRun
  <1>3. \A i, j \in 1 .. N : i < j /\ batch[i].seqs \cap batch[j].seqs # {}
                                => batch[j].seqs \subseteq batch[i].seqs
    <2>1. PICK n \in 1 .. MaxBatch : batch \in [1 .. n -> BatchToks]
      BY DEF Batches
    <2>2. DOMAIN batch = 1 .. N
      BY <2>1, ParamsAssumption
    <2> QED  BY <2>2 DEF Batches
  <1> HIDE DEF N
  <1> DEFINE W == [tok : Toks, seqs : SUBSET Seqs, lead : Seqs, pos : Int]
             Run(p, q, n) ==
                 /\ q \in Seq(W) /\ Len(q) = n
                 /\ \A s \in Seqs : p[s] \in Int
                 /\ \A k \in 1 .. n : q[k].seqs = batch[k].seqs
                 /\ \A k \in 1 .. n : \A s \in batch[k].seqs : q[k].pos < p[s]
                 /\ \A i, j \in 1 .. n : i < j => Before(q[i], q[j])
             S == {n \in 0 .. N : Run(a[n].p0, a[n].toks, n)}
  <1>4. 0 \in S
    <2>1. \A s \in Seqs : a[0].p0[s] \in Int
      BY <1>2, LastKnown
    <2>2. Run(a[0].p0, a[0].toks, 0)
      <3>1. a[0].toks = <<>>
        BY <1>2
      <3> HIDE DEF W
      <3>2. a[0].toks \in Seq(W) /\ Len(a[0].toks) = 0
        BY <3>1
      <3>3. \A k \in 1 .. 0 : FALSE
        OBVIOUS
      <3> QED  BY <2>1, <3>2, <3>3
    <2> HIDE DEF Run
    <2> QED  BY <1>0, <2>2
  <1>5. ASSUME NEW n \in 0 .. N - 1, n \in S  PROVE n + 1 \in S
    <2> DEFINE p == a[n].p0
               q == a[n].toks
               t == batch[n + 1]
               x == [tok |-> t.tok, seqs |-> t.seqs, lead |-> t.lead, pos |-> p[t.lead]]
               r == Append(q, x)
               p1 == a[n + 1].p0
    <2>1. n + 1 \in 1 .. N /\ (n + 1) - 1 = n /\ n \in Nat /\ n \in 0 .. N /\ n + 1 \in 0 .. N
      BY <1>0
    <2>2. /\ a[n + 1].toks = r
          /\ \A s \in Seqs : p1[s] = IF s \in t.seqs THEN p[t.lead] + 1 ELSE p[s]
      <3>1. a[n + 1] = Positioned(a[n], t)
        BY <1>2, <2>1
      <3>2. Positioned(a[n], t).toks = r
        BY DEF Positioned
      <3>3. Positioned(a[n], t).p0 = [s \in Seqs |-> IF s \in t.seqs THEN p[t.lead] + 1 ELSE p[s]]
        BY DEF Positioned
      <3> QED  BY <3>1, <3>2, <3>3
    <2>3. Run(p, q, n)
      BY <1>5
    <2>4. t.tok \in Toks /\ t.seqs \in SUBSET Seqs /\ t.lead \in Seqs /\ t.lead \in t.seqs
      BY <1>0, <2>1
    <2>5. ASSUME NEW k \in 1 .. n, NEW s \in Seqs, s \in batch[k].seqs, s \in t.seqs
          PROVE  q[k].pos < p[t.lead]
      <3>1. k \in 1 .. N /\ k < n + 1
        BY <1>0, <2>1
      <3>2. t.seqs \subseteq batch[k].seqs
        BY <1>3, <2>1, <2>5, <3>1
      <3> QED  BY <2>3, <2>4, <3>2
    <2> HIDE DEF p, q, t, p1
    <2>6. x \in W /\ x.seqs = t.seqs /\ x.pos = p[t.lead] /\ p[t.lead] \in Int
      BY <2>3, <2>4
    <2> HIDE DEF x, W
    <2>7. r \in Seq(W) /\ Len(r) = n + 1 /\ r[n + 1] = x /\ \A k \in 1 .. n : r[k] = q[k]
      BY <2>1, <2>3, <2>6
    <2>8. \A k \in 1 .. n + 1 : k \in 1 .. n \/ k = n + 1
      BY <2>1
    <2> HIDE DEF r
    <2>9. Run(p1, r, n + 1)
      <3>1. \A s \in Seqs : p1[s] \in Int
        BY <2>2, <2>3, <2>6
      <3>2. ASSUME NEW k \in 1 .. n + 1  PROVE r[k].seqs = batch[k].seqs
        BY <2>3, <2>6, <2>7, <2>8 DEF t
      <3>3. ASSUME NEW k \in 1 .. n + 1, NEW s \in batch[k].seqs  PROVE r[k].pos < p1[s]
        <4>0. k \in 1 .. N /\ s \in Seqs
          <5>1. k \in 1 .. N
            BY <1>0, <2>1
          <5> QED  BY <1>0, <5>1
        <4>1. CASE k = n + 1
          BY <2>2, <2>6, <2>7, <3>3, <4>0, <4>1 DEF t
        <4>2. CASE k \in 1 .. n /\ s \in t.seqs
          <5>1. r[k].pos < p[t.lead] /\ r[k].pos \in Int
            <6>1. q[k] \in W
              BY <2>3, <4>2
            <6> QED  BY <2>5, <2>7, <4>0, <4>2, <6>1 DEF W
          <5> QED  BY <2>2, <2>6, <4>0, <4>2, <5>1
        <4>3. CASE k \in 1 .. n /\ s \notin t.seqs
          BY <2>2, <2>3, <2>7, <4>0, <4>3
        <4> QED  BY <2>8, <4>1, <4>2, <4>3
      <3>4. ASSUME NEW i \in 1 .. n + 1, NEW j \in 1 .. n + 1, i < j  PROVE Before(r[i], r[j])
        <4>1. i \in 1 .. n
          BY <2>1, <3>4
        <4>2. CASE j = n + 1
          BY <2>3, <2>5, <2>6, <2>7, <4>1, <4>2 DEF Before
        <4>3. CASE j \in 1 .. n
          BY <2>3, <2>7, <3>4, <4>1, <4>3
        <4> QED  BY <2>8, <4>2, <4>3
      <3> QED  BY <2>7, <3>1, <3>2, <3>3, <3>4
    <2> HIDE DEF Run
    <2> QED  BY <2>1, <2>2, <2>9 DEF p1
  <1>6. 0 .. N \subseteq S
    <2> HIDE DEF S
    <2>1. \A k \in 0 .. N - 1 : k \in S => k + 1 \in S
      BY <1>5
    <2> QED  BY <1>0, <1>4, <2>1, Induct
  <1>7. Run(a[N].p0, a[N].toks, N)
    <2> HIDE DEF Run
    <2> QED  BY <1>0, <1>6
  <1> QED  BY <1>2, <1>7

(* The checks of init() put the batch after the entries of its sequences. *)
LEMMA BatchAfterMem ==
    ASSUME KVInv, NEW toks, UbatchOK(toks), Consistent(cells, toks),
           NEW e \in Held(Mem), NEW y \in Range(toks)
    PROVE  Before(e, y)
  <1> SUFFICES ASSUME NEW s \in Seqs, s \in e.seqs, s \in y.seqs  PROVE e.pos < y.pos
    BY DEF Before
  <1>1. MInv(Mem) /\ Mem.cells = cells /\ Inv(cells)
    BY MemFacts DEF KVInv, MInv, CInv
  <1>2. PICK i \in Cells : cells.pos[i] # -1 /\ e = EntAt(Mem, i)
    BY <1>1, HeldMember
  <1>3. e.pos = cells.pos[i] /\ e.pos \in Nat /\ s \in cells.seq[i]
    BY <1>1, <1>2, CellFacts
  <1>4. e.pos <= SeqPosMax(cells, s) /\ SeqPosMax(cells, s) \in Int
    BY <1>1, <1>3, LastKnown
  <1> DEFINE P == {t.pos : t \in {x \in Range(toks) : s \in x.seqs}}
  <1>5. P # {} => (SeqPosMax(cells, s) >= 0 => Min(P) = SeqPosMax(cells, s) + 1)
    BY DEF Consistent
  <1>6. y.pos \in P /\ P \in SUBSET Nat
    <2>1. \A x \in Range(toks) : x \in TokType
      BY DEF UbatchOK, Range
    <2>2. \A x \in Range(toks) : x.pos \in Nat
      BY <2>1, CellsAssumption DEF TokType
    <2> QED  BY <2>2
  <1> HIDE DEF P
  <1>7. Min(P) <= y.pos /\ y.pos \in Nat
    BY <1>6, MinFacts
  <1> QED  BY <1>3, <1>4, <1>5, <1>6, <1>7

(* split_simple keeps the order. *)
LEMMA UbatchOrder ==
    ASSUME NEW toks, UbatchOK(toks),
           \A i, j \in 1 .. Len(toks) : i < j => Before(toks[i], toks[j])
    PROVE  LET us == Ubatches(toks)
           IN  /\ \A k \in 1 .. Len(us) : Range(us[k]) \subseteq Range(toks)
               /\ \A k, l \in 1 .. Len(us) : k < l =>
                     \A x \in Range(us[k]), y \in Range(us[l]) : Before(x, y)
  <1> DEFINE us == Ubatches(toks)
  <1>1. /\ us \in Seq(Seq(TokType))
        /\ \A k \in 1 .. Len(us) : \A j \in 1 .. Len(us[k]) : InUbatch(toks, k, j)
    BY UbatchesFacts
  <1>2. ASSUME NEW k \in 1 .. Len(us), NEW x \in Range(us[k])
        PROVE  \E i \in 1 .. Len(toks) : /\ (k - 1) * NUbatch < i /\ i <= k * NUbatch
                                         /\ x = toks[i]
    <2>1. us[k] \in Seq(TokType)
      <3> HIDE DEF us
      <3> QED  BY <1>1
    <2>2. PICK j \in 1 .. Len(us[k]) : x = us[k][j]
      <3> HIDE DEF us
      <3> QED  BY <2>1 DEF Range
    <2>3. InUbatch(toks, k, j)
      BY <1>1
    <2> QED  BY <2>2, <2>3 DEF InUbatch
  <1>3. toks \in Seq(TokType) /\ Len(toks) \in Nat /\ Len(us) \in Nat /\ NUbatch \in Nat /\ NUbatch >= 1
    <2>1. toks \in Seq(TokType) /\ NUbatch \in Nat /\ NUbatch >= 1
      BY ParamsAssumption DEF UbatchOK
    <2> HIDE DEF us
    <2> QED  BY <1>1, <2>1
  <1> HIDE DEF us
  <1>4. \A k \in 1 .. Len(us) : Range(us[k]) \subseteq Range(toks)
    <2>1. \A i \in 1 .. Len(toks) : toks[i] \in Range(toks)
      BY <1>3 DEF Range
    <2> QED  BY <1>2, <2>1
  <1>5. ASSUME NEW k \in 1 .. Len(us), NEW l \in 1 .. Len(us), k < l,
               NEW x \in Range(us[k]), NEW y \in Range(us[l])
        PROVE  Before(x, y)
    <2>1. PICK i \in 1 .. Len(toks) : i <= k * NUbatch /\ x = toks[i]
      BY <1>2
    <2>2. PICK j \in 1 .. Len(toks) : (l - 1) * NUbatch < j /\ y = toks[j]
      BY <1>2
    <2>3. k * NUbatch <= (l - 1) * NUbatch
      <3>1. k \in Nat /\ l - 1 \in Nat /\ k <= l - 1
        BY <1>3, <1>5
      <3> QED  BY <1>3, <3>1
    <2>4. i < j
      <3>1. k * NUbatch \in Int /\ (l - 1) * NUbatch \in Int
        BY <1>3, <1>5
      <3> QED  BY <1>3, <2>1, <2>2, <2>3, <3>1
    <2> QED  BY <2>1, <2>2, <2>4
  <1> QED  BY <1>4, <1>5 DEF us

(* A position after the entries of a sequence is after its last one. *)
LEMMA AboveTop ==
    ASSUME NEW s \in Seqs, NEW p \in Nat,
           \A e \in Entries : s \in e.seqs => e.pos \in Positions /\ e.pos < p
    PROVE  p > Store!Top(s)
  <1> DEFINE P == Store!At(s)
  <1>1. \A q \in P : q \in Positions /\ q \in Int /\ q < p
    <2> SUFFICES ASSUME NEW q \in P  PROVE q \in Positions /\ q \in Int /\ q < p
      OBVIOUS
    <2>1. PICK e \in Entries : s \in e.seqs /\ q = e.pos
      BY DEF Store!At
    <2> HIDE DEF P
    <2>2. q \in Positions /\ q < p
      BY <2>1, Zenon
    <2>3. Positions \subseteq Int
      BY CellsAssumption
    <2> QED  BY <2>2, <2>3
  <1>2. Store!Top(s) = IF P = {} THEN -1 ELSE CHOOSE q \in P : \A x \in P : x <= q
    BY DEF Store!Top
  <1> HIDE DEF P
  <1>3. IsFiniteSet(P)
    <2>1. P \subseteq Positions /\ IsFiniteSet(Positions)
      BY <1>1, ParamsAssumption
    <2> QED  BY <2>1, FS_Subset
  <1>4. P # {} => \E q \in P : \A x \in P : x <= q
    <2>1. P \in SUBSET Int
      BY <1>1
    <2> QED  BY <1>3, <2>1, FirstAndLast
  <1>5. CASE P = {}
    BY <1>2, <1>5
  <1>6. CASE P # {}
    <2> DEFINE top == CHOOSE q \in P : \A x \in P : x <= q
    <2>1. top \in P
      BY <1>4, <1>6
    <2> HIDE DEF top
    <2>2. top < p /\ top \in Int
      BY <1>1, <2>1
    <2>3. Store!Top(s) = top
      BY <1>2, <1>6 DEF top
    <2> QED  BY <2>2, <2>3
  <1> QED  BY <1>5, <1>6

(* The entry that a token of a batch becomes. *)
TokEnt(t) == [tok |-> t.tok, pos |-> t.pos, seqs |-> t.seqs]

LEMMA AfterAll ==
    ASSUME Whole, NEW y \in TokType, \A z \in Entries : Before(z, y)
    PROVE  Store!After(TokEnt(y))
  <1> SUFFICES ASSUME NEW s \in y.seqs  PROVE y.pos > Store!Top(s)
    BY DEF Store!After, TokEnt
  <1>1. y.pos \in Nat /\ s \in Seqs
    BY CellsAssumption DEF TokType
  <1>2. MInv(Mem) /\ Entries = Held(Mem)
    <2>1. Entries = StoreOf(Mem)
      BY MemFacts DEF Entries, StoreOf
    <2> QED  BY <2>1, StoreHeld DEF Whole, KVInv, PhaseInv
  <1>3. ASSUME NEW z \in Entries, s \in z.seqs  PROVE z.pos \in Positions /\ z.pos < y.pos
    <2>1. PICK i \in Cells : Mem.cells.pos[i] # -1 /\ z = EntAt(Mem, i)
      BY <1>2, HeldMember
    <2>2. z.pos \in Positions
      BY <1>2, <2>1 DEF MInv, MemType, CellsType, EntAt
    <2> QED  BY <1>1, <1>3, <2>2 DEF Before
  <1> QED  BY <1>1, <1>3, AboveTop

(* An update and a placing on trial change no entry; what was placed is ahead. *)
LEMMA UpdateStore ==
    ASSUME Whole, NEW b, UpdateCall(b)
    PROVE  StoreStep
  <1>0. MInv(Mem) /\ Phased(Mem) /\ Faults = {}
    BY DEF Whole, KVInv, PhaseInv, PhaseKept
  <1>1. PICK m \in Update(Mem, b) : Becomes(m, <<>>, "update")
    BY DEF UpdateCall
  <1>2. MInv(m) /\ Phased(m) /\ Held(m) = Held(Mem)
    BY <1>0, <1>1, UpdateKeeps DEF Keeps
  <1>3. Entries' = Entries /\ op' = "update"
    BY <1>1, <1>2, EntriesKnown
  <1>4. todo = <<>>
    BY DEF UpdateCall
  <1>5. Store!Next
    BY <1>1, <1>3, <1>4, NothingDue DEF Store!Next, Store!Quiet
  <1> QED  BY <1>1, <1>5, NothingAhead DEF StoreStep

LEMMA DecodeStore ==
    ASSUME Whole, SwaType = "none", NEW batch \in Batches, NEW b \in BOOLEAN, Decode(batch, b)
    PROVE  StoreStep
  <1> DEFINE toks == WithPos(cells, batch)
             us == Ubatches(toks)
             AsBefore(m) == MInv(m) /\ Phased(m) /\ Held(m) = Held(Mem)
             Placed(p) == /\ Len(p.slots) = Len(us)
                          /\ \A k \in 1 .. Len(us) : p.slots[k].toks = us[k]
  <1>0. AsBefore(Mem) /\ Faults = {} /\ KVInv /\ Inv(cells) /\ todo = <<>>
    BY MemFacts DEF Whole, KVInv, PhaseInv, PhaseKept, MInv, CInv, Decode
  <1>1. UbatchOK(toks)
    BY PosFacts DEF Decode
  <1>2. us \in Seq(Seq(TokType)) /\ \A k \in 1 .. Len(us) : UbatchOK(us[k])
    BY <1>1, UbatchesFacts
  <1>3. \/ Becomes(Mem, <<>>, "invalid")
        \/ /\ Consistent(cells, toks)
           /\ \E m1 \in Update(Mem, b) :
                LET p1 == Prepare(m1, us)
                IN  \/ Becomes(p1.m, p1.slots, "update")
                    \/ Becomes(p1.m, <<>>, "full")
                    \/ \E m2 \in Update(p1.m, TRUE) :
                          LET p2 == Prepare(m2, us)
                          IN  \/ Becomes(p2.m, p2.slots, "update")
                              \/ Becomes(p2.m, <<>>, "full")
    BY DEF Decode
  <1>4. Consistent(cells, toks) =>
           \A l \in 1 .. Len(us) : \A y \in Range(us[l]) :
               /\ \A e \in Held(Mem) : Before(e, y)
               /\ \A k \in 1 .. Len(us) : k < l => \A x \in Range(us[k]) : Before(x, y)
    <2> HAVE Consistent(cells, toks)
    <2>1. \A i, j \in 1 .. Len(toks) : i < j => Before(toks[i], toks[j])
      BY <1>0, PosOrder
    <2>2. \A y \in Range(toks) : \A e \in Held(Mem) : Before(e, y)
      BY <1>0, <1>1, BatchAfterMem
    <2> HIDE DEF toks
    <2>3. /\ \A k \in 1 .. Len(us) : Range(us[k]) \subseteq Range(toks)
          /\ \A k, l \in 1 .. Len(us) : k < l =>
                \A x \in Range(us[k]), y \in Range(us[l]) : Before(x, y)
      BY <1>1, <2>1, UbatchOrder
    <2> HIDE DEF us
    <2> QED  BY <2>2, <2>3
  <1> HIDE DEF us, toks
  <1>5. ASSUME NEW m, AsBefore(m), NEW b1, NEW d \in Update(m, b1)
        PROVE  AsBefore(Prepare(d, us).m) /\ Placed(Prepare(d, us))
    <2> DEFINE p == Prepare(d, us)
    <2>1. MInv(d) /\ Phased(d) /\ ~d.cells.has_shift /\ Held(d) = Held(Mem)
      BY <1>0, <1>5, UpdateKeeps DEF Keeps
    <2>2. Prepared(d, p) /\ Placed(p)
      BY <1>2, <2>1, PrepareFacts
    <2>3. MInv(p.m) /\ Held(p.m) = Held(d)
      BY <2>2 DEF Prepared
    <2> QED  BY <2>1, <2>2, <2>3, PreparedPhase
  <1>6. ASSUME NEW p, AsBefore(p.m), Placed(p), Becomes(p.m, p.slots, "update"), Consistent(cells, toks)
        PROVE  StoreStep
    <2>1. Entries' = Entries /\ op' = "update"
      BY <1>6, EntriesKnown
    <2>2. Mem' = p.m /\ todo' = p.slots
      BY <1>6, MemNext
    <2>3. Ahead(Held(p.m), p.slots)
      BY <1>4, <1>6 DEF Ahead
    <2>4. AheadInv'
      <3>1. Ahead(Held(Mem'), todo')
        BY <2>2, <2>3
      <3> QED  BY <3>1 DEF AheadInv, Ahead, Held, EntAt
    <2>5. Store!Accept
      <3>1. Due = <<>>
        <4>1. Len(todo) = 0
          BY <1>0
        <4> QED  BY <4>1 DEF Due
      <3>2. Entries = Held(Mem)
        BY <1>6, EntriesKnown
      <3>3. \A k \in 1 .. Len(us) : \A y \in Range(us[k]) :
               \A e \in Entries : Before(e, y)
        BY <1>4, <1>6, <3>2
      <3>4. ASSUME NEW k \in DOMAIN Due', NEW e \in Due'[k]  PROVE Store!After(e)
        <4>1. k \in 1 .. Len(todo') /\ Due'[k] = {TokEnt(t) : t \in Range(todo'[k].toks)}
          BY <3>4 DEF Due, TokEnt
        <4>2. PICK y \in Range(us[k]) : e = TokEnt(y)
          BY <1>6, <2>2, <4>1
        <4>3. k \in 1 .. Len(us)
          BY <1>6, <2>2, <4>1
        <4>4. y \in TokType
          BY <1>2, <4>2, <4>3 DEF UbatchOK, Range
        <4>5. \A z \in Entries : Before(z, y)
          BY <3>3, <4>2, <4>3
        <4> QED  BY <4>2, <4>4, <4>5, AfterAll
      <3> QED  BY <2>1, <3>1, <3>4 DEF Store!Accept
    <2> QED  BY <2>4, <2>5 DEF StoreStep, Store!Next
  <1>7. ASSUME NEW m, AsBefore(m), NEW o \in {"full", "invalid"}, Becomes(m, <<>>, o)
        PROVE  StoreStep
    <2>1. Entries' = Entries /\ op' = o
      BY <1>7, EntriesKnown
    <2> QED  BY <1>0, <1>7, <2>1, NothingAhead, NothingDue DEF StoreStep, Store!Next, Store!Quiet
  <1>8. CASE Becomes(Mem, <<>>, "invalid")
    BY <1>0, <1>7, <1>8
  <1>9. ASSUME Consistent(cells, toks), NEW m1 \in Update(Mem, b),
               LET p1 == Prepare(m1, us)
               IN  \/ Becomes(p1.m, p1.slots, "update")
                   \/ Becomes(p1.m, <<>>, "full")
                   \/ \E m2 \in Update(p1.m, TRUE) :
                         LET p2 == Prepare(m2, us)
                         IN  \/ Becomes(p2.m, p2.slots, "update")
                             \/ Becomes(p2.m, <<>>, "full")
        PROVE  StoreStep
    <2> DEFINE p1 == Prepare(m1, us)
    <2>1. AsBefore(p1.m) /\ Placed(p1)
      BY <1>0, <1>5
    <2> HIDE DEF AsBefore, Placed
    <2>2. CASE Becomes(p1.m, p1.slots, "update")
      <3> HIDE DEF p1
      <3> QED  BY <1>6, <1>9, <2>1, <2>2
    <2>3. CASE Becomes(p1.m, <<>>, "full")
      <3> HIDE DEF p1
      <3> QED  BY <1>7, <2>1, <2>3
    <2>4. ASSUME NEW m2 \in Update(p1.m, TRUE),
                 LET p2 == Prepare(m2, us)
                 IN  \/ Becomes(p2.m, p2.slots, "update")
                     \/ Becomes(p2.m, <<>>, "full")
          PROVE  StoreStep
      <3> DEFINE p2 == Prepare(m2, us)
      <3>1. AsBefore(p2.m) /\ Placed(p2)
        <4> HIDE DEF p1
        <4> QED  BY <1>5, <2>1
      <3>2. \/ Becomes(p2.m, p2.slots, "update")
            \/ Becomes(p2.m, <<>>, "full")
        BY <2>4
      <3> HIDE DEF p2
      <3> QED  BY <1>6, <1>7, <1>9, <3>1, <3>2
    <2> QED  BY <1>9, <2>2, <2>3, <2>4
  <1> QED  BY <1>3, <1>8, <1>9

-----------------------------------------------------------------------------
(* Computing an ubatch appends its tokens; one that fails leaves nothing. *)

(* The tokens of the first ubatch that is left, and the rest. *)
LEMMA HeadAhead ==
    ASSUME TodoOK(cells, todo), todo # <<>>, AheadInv
    PROVE  /\ \A y \in Range(Head(todo).toks) : \A e \in Held(Mem) : Before(e, y)
           /\ Ahead(Held(Mem), Tail(todo))
           /\ \A l \in 1 .. Len(Tail(todo)) : \A y \in Range(Tail(todo)[l].toks) :
                 \A x \in Range(Head(todo).toks) : Before(x, y)
  <1> DEFINE U == [idxs : Seq(Cells), toks : Seq(TokType)]
             r == Tail(todo)
  <1>1. todo \in Seq(U)
    BY DEF TodoOK, TodoType
  <1> HIDE DEF U
  <1>2. /\ Len(todo) \in Nat /\ Len(todo) >= 1 /\ Head(todo) = todo[1]
        /\ Len(r) = Len(todo) - 1 /\ \A k \in 1 .. Len(r) : r[k] = todo[k + 1]
    BY <1>1
  <1> HIDE DEF r
  <1>3. /\ 1 \in 1 .. Len(todo) /\ \A k \in 1 .. Len(r) : k + 1 \in 1 .. Len(todo) /\ 1 < k + 1
        /\ \A k, l \in 1 .. Len(r) : k < l => k + 1 < l + 1
    BY <1>2
  <1>4. \A l \in 1 .. Len(todo) : \A y \in Range(todo[l].toks) :
           /\ \A e \in Held(Mem) : Before(e, y)
           /\ \A k \in 1 .. Len(todo) : k < l => \A x \in Range(todo[k].toks) : Before(x, y)
    BY DEF AheadInv, Ahead
  <1>5. Ahead(Held(Mem), r)
    BY <1>2, <1>3, <1>4 DEF Ahead
  <1> QED  BY <1>2, <1>3, <1>4, <1>5 DEF r

(* Of the tokens that are due, the first ubatch and the others. *)
LEMMA DueFacts ==
    ASSUME todo \in TodoType, todo # <<>>
    PROVE  /\ Due # <<>> /\ Head(Due) = {TokEnt(y) : y \in Range(Head(todo).toks)}
           /\ todo' = Tail(todo) => Due' = Tail(Due)
           /\ todo' = <<>> => Due' = <<>>
  <1> DEFINE E(u) == {TokEnt(y) : y \in Range(u.toks)}
             U == [idxs : Seq(Cells), toks : Seq(TokType)]
  <1>1. todo \in Seq(U) /\ Len(todo) \in Nat \ {0} /\ Head(todo) = todo[1]
    BY DEF TodoType
  <1>2. Due = [k \in 1 .. Len(todo) |-> E(todo[k])]
    BY DEF Due, TokEnt
  <1>3. Due' = [k \in 1 .. Len(todo') |-> E(todo'[k])]
    BY DEF Due, TokEnt
  <1> HIDE DEF E, U
  <1>4. Due \in Seq({E(u) : u \in U}) /\ Len(Due) = Len(todo) /\ Due[1] = E(todo[1])
    BY <1>1, <1>2
  <1>5. Due # <<>> /\ Head(Due) = E(Head(todo))
    BY <1>1, <1>4
  <1>6. ASSUME todo' = Tail(todo)  PROVE Due' = Tail(Due)
    <2>1. /\ Len(todo') = Len(todo) - 1 /\ todo' \in Seq(U)
          /\ \A k \in 1 .. Len(todo) - 1 : todo'[k] = todo[k + 1]
      BY <1>1, <1>6
    <2>2. Tail(Due) = [k \in 1 .. Len(todo) - 1 |-> E(todo[k + 1])]
      BY <1>1, <1>2, <1>4
    <2> QED  BY <1>3, <2>1, <2>2
  <1>7. ASSUME todo' = <<>>  PROVE Due' = <<>>
    <2>1. Len(todo') = 0
      BY <1>7
    <2> QED  BY <1>3, <2>1
  <1> QED  BY <1>5, <1>6, <1>7 DEF E

LEMMA ProcessStore ==
    ASSUME Whole, SwaType = "none", AheadInv, ProcessUbatch
    PROVE  StoreStep
  <1> DEFINE u == Head(todo)
             r == Tail(todo)
             d == Apply_ubatch(Mem, u.idxs, u.toks)
             x == Written(u, Range(u.idxs))
             f == [d EXCEPT !.data = x]
  <1>1. todo # <<>> /\ Becomes(f, r, "decode")
    BY DEF ProcessUbatch
  <1>2. MInv(Mem) /\ Mem.cells = cells /\ Mem.data = data /\ TodoOK(cells, todo) /\ data \in DataType
    BY MemFacts DEF Whole, KVInv, MInv, MemType
  <1>3. /\ SlotOK(u.idxs, u.toks) /\ OneToOne(u.idxs)
        /\ \A i \in Range(u.idxs) : cells.pos[i] = -1
    BY <1>1, <1>2, HeadFacts
  <1>4. MInv(d)
    BY <1>2, <1>3, ApplyFacts DEF Applied
  <1>5. /\ \A i \in Range(u.idxs) : \E k \in 1 .. Len(u.idxs) :
              u.idxs[k] = i /\ d.cells.pos[i] = u.toks[k].pos /\ d.cells.seq[i] = u.toks[k].seqs
        /\ \A i \in Cells : i \notin Range(u.idxs) =>
              d.cells.pos[i] = cells.pos[i] /\ d.cells.seq[i] = cells.seq[i]
    BY <1>2, <1>3, ApplyFree
  <1>6. /\ \A y \in Range(u.toks) : \A e \in Held(Mem) : Before(e, y)
        /\ Ahead(Held(Mem), r)
        /\ \A l \in 1 .. Len(r) : \A y \in Range(r[l].toks) : \A z \in Range(u.toks) : Before(z, y)
    BY <1>1, <1>2, HeadAhead
  <1>7. Step
    BY ProcessStep DEF Whole
  <1> HIDE DEF u, r, d
  <1>8. /\ x \in DataType /\ \A i \in Cells : i \notin Range(u.idxs) => x[i] = data[i]
        /\ \A k \in 1 .. Len(u.idxs) : u.idxs[k] \in Range(u.idxs) =>
              x[u.idxs[k]].tok = u.toks[k].tok
    BY <1>2, <1>3, WrittenFacts
  <1> HIDE DEF x
  <1>9. MInv(f) /\ f.cells = d.cells /\ f.data = x
    BY <1>4, <1>8, RewrittenInv
  <1> HIDE DEF f
  <1>10. Mem' = f /\ todo' = r /\ op' = "decode"
    BY <1>1, <1>9, MemNext
  <1>11. Phased(f)
    <2>1. PhaseInv'
      BY <1>7 DEF Whole, Step
    <2> QED  BY <1>10, <2>1 DEF PhaseInv, Phased
  <1>12. Entries = Held(Mem) /\ Entries' = Held(f)
    BY <1>1, <1>9, <1>11, EntriesKnown
  <1>13. ASSUME NEW e \in Held(f)
         PROVE  e \in Held(Mem) \/ \E y \in Range(u.toks) : e = TokEnt(y)
    <2>1. PICK i \in Cells : f.cells.pos[i] # -1 /\ e = EntAt(f, i)
      BY HeldMember
    <2>2. CASE i \in Range(u.idxs)
      <3>1. PICK k \in 1 .. Len(u.idxs) : /\ u.idxs[k] = i /\ d.cells.pos[i] = u.toks[k].pos
                                          /\ d.cells.seq[i] = u.toks[k].seqs
        BY <1>5, <2>2
      <3>2. u.toks[k] \in Range(u.toks)
        BY <1>3 DEF SlotOK, UbatchOK, Range
      <3>3. x[i].tok = u.toks[k].tok
        BY <1>8, <2>2, <3>1
      <3>4. e = TokEnt(u.toks[k])
        BY <1>9, <2>1, <3>1, <3>3 DEF EntAt, TokEnt
      <3> QED  BY <3>2, <3>4
    <2>3. CASE i \notin Range(u.idxs)
      <3>1. d.cells.pos[i] = cells.pos[i] /\ d.cells.seq[i] = cells.seq[i] /\ x[i] = data[i]
        BY <1>5, <1>8, <2>3
      <3>2. EntAt(f, i) = EntAt(Mem, i) /\ Mem.cells.pos[i] # -1
        BY <1>2, <1>9, <2>1, <3>1 DEF EntAt
      <3> QED  BY <2>1, <3>2, HeldMember
    <2> QED  BY <2>2, <2>3
  <1>14. ASSUME NEW e \in Held(Mem)  PROVE e \in Held(f)
    <2>1. PICK i \in Cells : Mem.cells.pos[i] # -1 /\ e = EntAt(Mem, i)
      BY HeldMember
    <2>2. i \notin Range(u.idxs)
      BY <1>2, <1>3, <2>1
    <2>3. d.cells.pos[i] = cells.pos[i] /\ d.cells.seq[i] = cells.seq[i] /\ x[i] = data[i]
      BY <1>5, <1>8, <2>2
    <2>4. EntAt(f, i) = e /\ f.cells.pos[i] # -1
      BY <1>2, <1>9, <2>1, <2>3 DEF EntAt
    <2> QED  BY <2>4, HeldMember
  <1>15. ASSUME NEW y \in Range(u.toks)  PROVE TokEnt(y) \in Held(f) /\ Store!After(TokEnt(y))
    <2>1. PICK k \in 1 .. Len(u.toks) : y = u.toks[k]
      BY <1>3 DEF SlotOK, UbatchOK, Range
    <2>2. k \in 1 .. Len(u.idxs) /\ u.idxs[k] \in Range(u.idxs) /\ u.idxs[k] \in Cells
      BY <1>3, <2>1 DEF SlotOK, Range
    <2>3. PICK l \in 1 .. Len(u.idxs) : /\ u.idxs[l] = u.idxs[k]
                                        /\ d.cells.pos[u.idxs[k]] = u.toks[l].pos
                                        /\ d.cells.seq[u.idxs[k]] = u.toks[l].seqs
      BY <1>5, <2>2
    <2>4. l = k
      BY <1>3, <2>2, <2>3 DEF OneToOne
    <2>5. y \in TokType /\ y.pos # -1
      <3>1. y \in TokType
        BY <1>3 DEF SlotOK, UbatchOK, Range
      <3> QED  BY <3>1, CellsAssumption DEF TokType
    <2>6. x[u.idxs[k]].tok = y.tok
      BY <1>8, <2>1, <2>2
    <2>7. EntAt(f, u.idxs[k]) = TokEnt(y) /\ f.cells.pos[u.idxs[k]] # -1
      BY <1>9, <2>1, <2>3, <2>4, <2>5, <2>6 DEF EntAt, TokEnt
    <2>8. \A z \in Entries : Before(z, y)
      BY <1>6, <1>12
    <2> QED  BY <2>2, <2>5, <2>7, <2>8, AfterAll, HeldMember
  <1>16. Store!Extend
    <2>1. Entries \ Entries' = {}
      BY <1>12, <1>14
    <2>2. Due # <<>> /\ Head(Due) = {TokEnt(y) : y \in Range(u.toks)} /\ Due' = Tail(Due)
      <3>1. todo \in TodoType
        BY <1>2 DEF TodoOK
      <3> QED  BY <1>1, <1>10, <3>1, DueFacts DEF u, r
    <2>3. Head(Due) \subseteq Entries' /\ \A e \in Head(Due) : Store!After(e)
      BY <1>12, <1>15, <2>2
    <2>4. Entries' \subseteq Entries \cup Head(Due)
      BY <1>12, <1>13, <2>2
    <2> QED  BY <1>10, <2>1, <2>2, <2>3, <2>4 DEF Store!Extend
  <1>17. Ahead(Held(f), r)
    <2> SUFFICES ASSUME NEW l \in 1 .. Len(r), NEW y \in Range(r[l].toks)
                 PROVE  /\ \A e \in Held(f) : Before(e, y)
                        /\ \A k \in 1 .. Len(r) : k < l => \A z \in Range(r[k].toks) : Before(z, y)
      BY DEF Ahead
    <2>1. /\ \A e \in Held(Mem) : Before(e, y)
          /\ \A k \in 1 .. Len(r) : k < l => \A z \in Range(r[k].toks) : Before(z, y)
      BY <1>6 DEF Ahead
    <2>2. ASSUME NEW e \in Held(f)  PROVE Before(e, y)
      <3>1. CASE e \in Held(Mem)
        BY <2>1, <3>1
      <3>2. ASSUME NEW z \in Range(u.toks), e = TokEnt(z)  PROVE Before(e, y)
        BY <1>6, <3>2 DEF Before, TokEnt
      <3> QED  BY <1>13, <3>1, <3>2
    <2> QED  BY <2>1, <2>2
  <1>18. AheadInv'
    <2>1. Ahead(Held(Mem'), todo')
      BY <1>10, <1>17
    <2> QED  BY <2>1 DEF AheadInv, Ahead, Held, EntAt
  <1> QED  BY <1>16, <1>18 DEF StoreStep, Store!Next

LEMMA FailStore ==
    ASSUME Whole, SwaType = "none", AheadInv, FailUbatch
    PROVE  StoreStep
  <1> DEFINE u == Head(todo)
             d == Apply_ubatch(Mem, u.idxs, u.toks)
             e == RemoveFailed(d, u.toks)
  <1>1. PICK W \in SUBSET Range(u.idxs) :
           Becomes([e EXCEPT !.data = Written(u, W)], <<>>, "failed")
    BY DEF FailUbatch
  <1> DEFINE x == Written(u, W)
             f == [e EXCEPT !.data = x]
  <1>2. /\ MInv(Mem) /\ Mem.cells = cells /\ Mem.data = data /\ TodoOK(cells, todo)
        /\ data \in DataType /\ todo # <<>> /\ ~Coupled
    BY MemFacts DEF Whole, KVInv, MInv, MemType, FailUbatch, PhaseKept
  <1>3. /\ SlotOK(u.idxs, u.toks) /\ OneToOne(u.idxs)
        /\ \A i \in Range(u.idxs) : cells.pos[i] = -1
    BY <1>2, HeadFacts
  <1>4. Applied(Mem, d, u.idxs, u.toks) /\ MInv(d)
    <2>1. Applied(Mem, d, u.idxs, u.toks)
      BY <1>2, <1>3, ApplyFacts
    <2> QED  BY <2>1 DEF Applied
  <1>5. \A i \in Cells : i \notin Range(u.idxs) =>
              d.cells.pos[i] = cells.pos[i] /\ d.cells.seq[i] = cells.seq[i]
    BY <1>2, <1>3, ApplyFree
  <1>6. \A y \in Range(u.toks) : \A z \in Held(Mem) : Before(z, y)
    BY <1>2, HeadAhead
  <1>7. Step
    BY FailStep DEF Whole
  <1> HIDE DEF u, d
  <1>8. /\ MInv(e) /\ \A i \in Range(u.idxs) : e.cells.pos[i] = -1
        /\ \A i \in Cells : RmAt(d.cells, e.cells, FailedAt(d.cells, u.toks, i), i)
    <2>1. /\ MInv(e) /\ e.data = d.data
          /\ \A i \in Cells : Thinner(d.cells, e.cells, i)
          /\ ~Coupled => \A i \in Range(u.idxs) : e.cells.pos[i] = -1
          /\ \A i \in Cells : RmAt(d.cells, e.cells, FailedAt(d.cells, u.toks, i), i)
      BY <1>3, <1>4, RemoveFacts, Zenon
    <2> QED  BY <1>2, <2>1
  <1>9. x \in DataType /\ \A i \in Cells : i \notin W => x[i] = data[i]
    BY <1>2, <1>3, WrittenFacts
  <1>10. Becomes(f, <<>>, "failed")
    BY <1>1
  <1> HIDE DEF e, x
  <1>11. MInv(f) /\ f.cells = e.cells /\ f.data = x
    BY <1>8, <1>9, RewrittenInv
  <1> HIDE DEF f
  <1>12. Mem' = f
    BY <1>10, <1>11, MemNext
  <1>13. Phased(f)
    <2>1. PhaseInv'
      BY <1>7 DEF Whole, Step
    <2> QED  BY <1>12, <2>1 DEF PhaseInv, Phased
  <1>14. ASSUME NEW i \in Cells
         PROVE  /\ f.cells.pos[i] = Mem.cells.pos[i]
                /\ f.cells.pos[i] # -1 => EntAt(f, i) = EntAt(Mem, i)
    <2>1. CASE i \in Range(u.idxs)
      BY <1>2, <1>3, <1>8, <1>11, <2>1
    <2>2. CASE i \notin Range(u.idxs)
      <3> DEFINE R == FailedAt(d.cells, u.toks, i)
      <3>1. d.cells.pos[i] = cells.pos[i] /\ d.cells.seq[i] = cells.seq[i] /\ x[i] = data[i]
        BY <1>5, <1>9, <2>2
      <3>2. R = {}
        <4> SUFFICES ASSUME NEW s \in cells.seq[i], NEW t \in Range(u.toks),
                            t.lead = s, t.pos <= cells.pos[i]
                     PROVE  FALSE
          BY <3>1 DEF FailedAt
        <4>1. t \in TokType /\ t.lead \in t.seqs
          BY <1>3 DEF SlotOK, UbatchOK, TokOK, Range
        <4>2. t.pos \in Nat /\ s \in Seqs /\ s \in t.seqs
          BY <4>1, CellsAssumption DEF TokType
        <4>3. cells.pos[i] # -1 /\ cells.pos[i] \in Nat
          BY <1>2, CellFacts
        <4>4. EntAt(Mem, i) \in Held(Mem) /\ EntAt(Mem, i).pos = cells.pos[i]
              /\ s \in EntAt(Mem, i).seqs
          BY <1>2, <4>3, HeldMember, CellFacts
        <4>5. cells.pos[i] < t.pos
          BY <1>6, <4>2, <4>4 DEF Before
        <4> QED  BY <4>2, <4>3, <4>5
      <3>3. RmAt(d.cells, e.cells, R, i)
        BY <1>8
      <3> HIDE DEF R
      <3>4. e.cells.seq[i] = cells.seq[i]
        BY <3>1, <3>2, <3>3 DEF RmAt
      <3>5. e.cells.pos[i] = cells.pos[i]
        <4>1. cells.pos[i] # -1 <=> cells.seq[i] # {}
          BY <1>2, CellFacts
        <4> QED  BY <3>1, <3>2, <3>3, <4>1 DEF RmAt
      <3> QED  BY <1>2, <1>11, <3>1, <3>4, <3>5 DEF EntAt
    <2> QED  BY <2>1, <2>2
  <1>15. Held(f) = Held(Mem)
    <2>1. \A z : z \in Held(f) <=> z \in Held(Mem)
      BY <1>14, HeldMember
    <2> QED  BY <2>1
  <1>16. Entries' = Entries /\ op' = "failed"
    BY <1>10, <1>11, <1>13, <1>15, EntriesKnown
  <1>17. Due # <<>> /\ Due' = <<>>
    <2>1. todo \in TodoType /\ todo' = <<>>
      BY <1>2, <1>10 DEF TodoOK, Becomes
    <2> QED  BY <1>2, <2>1, DueFacts
  <1> QED  BY <1>10, <1>16, <1>17, NothingAhead DEF StoreStep, Store!Next, Store!Fail

LEMMA NextStore ==
    ASSUME CpInto # "any", SwaType = "none", Whole, AheadInv, Next
    PROVE  StoreStep
  <1>1. CASE \E wipe \in BOOLEAN : Clear(wipe)
    BY <1>1, StoreClear
  <1>2. CASE \E s \in Seqs : SeqKeep(s)
    BY <1>2, StoreCalls
  <1>3. CASE \E s \in Seqs, r \in Ranges : \/ SeqRm(s, r)
                                           \/ \E d \in Deltas : SeqAdd(s, r, d)
                                           \/ \E d \in Divisors : SeqDiv(s, r, d)
    BY <1>3, StoreCalls
  <1>4. CASE \E s, t \in Seqs, r \in CpRanges : SeqCp(s, t, r)
    BY <1>4, StoreCalls
  <1>5. CASE \E b \in BOOLEAN : UpdateCall(b)
    BY <1>5, UpdateStore
  <1>6. CASE \E batch \in Batches, b \in BOOLEAN : Decode(batch, b)
    BY <1>6, DecodeStore
  <1>7. CASE ProcessUbatch
    BY <1>7, ProcessStore
  <1>8. CASE FailUbatch
    BY <1>8, FailStore
  <1> QED  BY <1>1, <1>2, <1>3, <1>4, <1>5, <1>6, <1>7, <1>8 DEF Next

(* The invariant of the refinement, and its steps. *)
RefInv == KVInv /\ PhaseInv /\ AheadInv

LEMMA RefInit == Init => RefInv /\ Store!Init
  <1> SUFFICES ASSUME Init  PROVE AheadInv /\ Store!Init
    BY InitInv DEF RefInv
  <1>1. Entries = {} /\ op = "clear" /\ todo = <<>>
    BY DEF Init, Entries, ResetCells
  <1>2. Len(todo) = 0 /\ \A l \in 1 .. Len(todo) : FALSE
    BY <1>1
  <1> QED  BY <1>1, <1>2 DEF AheadInv, Ahead, Store!Init, Due

LEMMA RefStep ==
    ASSUME CpInto # "any", SwaType = "none", PhaseKept, RefInv, [Next]_vars
    PROVE  RefInv' /\ [Store!Next]_<<Entries, Due, op>>
  <1> SUFFICES AheadInv' /\ [Store!Next]_<<Entries, Due, op>>
    BY NextStep DEF Step, RefInv
  <1>1. CASE Next
    BY <1>1, NextStore DEF Whole, StoreStep, RefInv
  <1>2. CASE UNCHANGED vars
    <2>1. cells' = cells /\ head' = head /\ data' = data /\ todo' = todo /\ op' = op
      BY <1>2 DEF vars
    <2>2. Entries' = Entries
      BY <2>1 DEF Entries
    <2>3. Mem' = Mem
      BY <2>1 DEF Mem
    <2>4. AheadInv'
      BY <2>1, <2>3 DEF AheadInv, Ahead, Held, EntAt, RefInv
    <2>5. Due' = Due
      BY <2>1 DEF Due
    <2> QED  BY <2>1, <2>2, <2>4, <2>5
  <1> QED  BY <1>1, <1>2

(* Without a window the cache implements the store of include/llama.h: every   *)
(* call does to the tokens what the API says, an ubatch that is computed only  *)
(* adds tokens, each after the last position of its sequences, and updates,    *)
(* defragmentations, trials and failed batches change no entry.  The           *)
(* hypotheses are those of ShiftsStayApplied, without which the data of a cell *)
(* is not what its position says.                                              *)
THEOREM StoreImplemented ==
    ASSUME CpInto # "any", SwaType = "none",
           Divisors \subseteq {1}, Faults = {}, ~(Coupled /\ CanFail)
    PROVE  Spec => ImplementsStore
  <1>1. RefInv /\ [Next]_vars => RefInv' /\ [Store!Next]_<<Entries, Due, op>>
    BY RefStep DEF PhaseKept
  <1> QED  BY <1>1, RefInit, PTL DEF Spec, ImplementsStore, Store!Spec

(* A batch that prepare() can not place, after the trials of its ubatches are  *)
(* undone and the cells were defragmented, leaves every entry as it was.       *)
THEOREM FullRestores ==
    ASSUME CpInto # "any", SwaType = "none",
           Divisors \subseteq {1}, Faults = {}, ~(Coupled /\ CanFail)
    PROVE  Spec => RestoredWhenFull
  <1>1. RefInv /\ [Next]_vars => RefInv'
    BY RefStep DEF PhaseKept
  <1>2. RefInv /\ [Next]_vars => [op' = "full" => Entries' = Entries]_vars
    <2> SUFFICES ASSUME [Store!Next]_<<Entries, Due, op>>, op' = "full"  PROVE Entries' = Entries
      BY RefStep DEF PhaseKept
    <2> QED  BY DEF Store!Next, Store!Clear, Store!Quiet, Store!Accept, Store!Extend,
                    Store!Fail, Store!SeqRm,
                    Store!SeqCp, Store!SeqKeep, Store!SeqAdd, Store!SeqDiv
  <1> QED  BY <1>1, <1>2, RefInit, PTL DEF Spec, RestoredWhenFull

(* Without a window, no step of llama_decode, an update, a trial, an ubatch    *)
(* that is computed or one that fails, loses a token of any sequence: it is    *)
(* still there, in some cell, at its position.                                 *)
THEOREM TokensKept ==
    ASSUME CpInto # "any", SwaType = "none",
           Divisors \subseteq {1}, Faults = {}, ~(Coupled /\ CanFail)
    PROVE  Spec => WindowKept
  <1> DEFINE All == op' \in {"update", "decode", "failed"} =>
                \A i \in cells.used : \A s \in cells.seq[i] :
                   \/ IsMaskedSwa(cells.pos[i],
                                  IF op' = "update" THEN LastPos(cells, todo', s)
                                                    ELSE NextPos(cells, todo, s))
                   \/ Kept(i, s)
  <1>1. RefInv /\ [Next]_vars => RefInv'
    BY RefStep DEF PhaseKept
  <1>2. RefInv /\ [Next]_vars => All
    <2> SUFFICES ASSUME RefInv, RefInv', [Store!Next]_<<Entries, Due, op>>,
                        op' \in {"update", "decode", "failed"},
                        NEW i \in cells.used, NEW s \in cells.seq[i]
                 PROVE  \E j \in cells'.used : /\ s \in cells'.seq[j]
                                               /\ cells'.pos[j] = cells.pos[i]
                                               /\ data'[j].tok = data[i].tok
      BY RefStep DEF PhaseKept, Kept
    <2>1. Entries \subseteq Entries'
      <3>1. Entries' = Entries \/ Store!Extend
        BY DEF Store!Next, Store!Clear, Store!Quiet, Store!Accept, Store!Fail, Store!SeqRm,
               Store!SeqCp, Store!SeqKeep, Store!SeqAdd, Store!SeqDiv
      <3>2. Store!Extend => \A e \in Entries \ Entries' : FALSE
        BY DEF Store!Extend, IsMaskedSwa
      <3> QED  BY <3>1, <3>2
    <2> DEFINE e == [tok |-> data[i].tok, pos |-> data[i].rope + cells.shift[i], seqs |-> cells.seq[i]]
    <2>2. e.pos = cells.pos[i]
      <3>1. i \in Cells /\ cells.pos[i] # -1
        BY MemFacts DEF RefInv, KVInv, MInv, CInv, Inv, Used
      <3>2. cells.pos[i] = data[i].rope + cells.shift[i]
        BY <3>1, MemFacts DEF RefInv, PhaseInv, Phased
      <3> QED  BY <3>2
    <2>3. e \in Entries
      BY DEF Entries
    <2>4. PICK j \in cells'.used : e = [tok |-> data'[j].tok, pos |-> data'[j].rope + cells'.shift[j],
                                        seqs |-> cells'.seq[j]]
      <3> HIDE DEF e
      <3> QED  BY <2>1, <2>3 DEF Entries
    <2>5. /\ data'[j].tok = data[i].tok /\ cells'.seq[j] = cells.seq[i]
          /\ data'[j].rope + cells'.shift[j] = cells.pos[i]
      BY <2>2, <2>4
    <2>6. cells'.pos[j] = data'[j].rope + cells'.shift[j]
      <3>1. Mem'.cells = cells' /\ Mem'.data = data'
        BY DEF Mem
      <3>2. j \in Cells /\ cells'.pos[j] # -1
        BY <3>1 DEF RefInv, KVInv, MInv, CInv, Inv, Used
      <3> QED  BY <3>1, <3>2 DEF RefInv, PhaseInv, Phased
    <2> QED  BY <2>5, <2>6
  <1>3. RefInv /\ [Next]_vars => [All]_vars
    BY <1>2
  <1> QED  BY <1>1, <1>3, RefInit, PTL DEF Spec, WindowKept

-----------------------------------------------------------------------------
(* Free cells: an update does not change how many there are, each ubatch of a  *)
(* trial takes as many as it has tokens, and the search misses none.           *)
FreeCells(c) == {i \in Cells : c.pos[i] = -1}
NFree(c)     == Cardinality(FreeCells(c))

LEMMA FreeFacts ==
    ASSUME NEW c
    PROVE  /\ IsFiniteSet(FreeCells(c)) /\ NFree(c) \in Nat
           /\ SwaType = "none" => {i \in Cells : CanUse(c, i)} = FreeCells(c)
  <1>1. FreeCells(c) \in SUBSET Cells
    BY DEF FreeCells
  <1>2. IsFiniteSet(FreeCells(c)) /\ NFree(c) \in Nat
    BY <1>1, CellsFacts DEF NFree
  <1>3. SwaType = "none" => {i \in Cells : CanUse(c, i)} = FreeCells(c)
    BY DEF FreeCells, CanUse, IsEmpty, IsMaskedSwa
  <1> QED  BY <1>2, <1>3

(* As many cells become free as are taken. *)
LEMMA MovesFree ==
    ASSUME NEW c, CInv(c), NEW ids, MovesOK(c, ids)
    PROVE  NFree(MvLoop(c, ids)) = NFree(c)
  <1> DEFINE d == MvLoop(c, ids)
             D == DOMAIN ids
             R == {ids[j] : j \in D}
             A == FreeCells(c) \ R
             g == [j \in D |-> ids[j]]
  <1>0. /\ D \subseteq Cells /\ \A j \in D : c.pos[j] # -1 /\ ids[j] \in Cells /\ c.pos[ids[j]] = -1
        /\ \A i, j \in D : ids[i] = ids[j] => i = j
    BY DEF MovesOK
  <1>1. /\ \A j \in D : d.pos[ids[j]] = c.pos[j] /\ d.pos[j] = -1
        /\ \A i \in Cells : i \notin D /\ i \notin R => d.pos[i] = c.pos[i]
    BY MvFacts DEF Took, Blanked, Same
  <1> HIDE DEF d
  <1>2. FreeCells(c) = A \cup R /\ A \cap R = {}
    BY <1>0 DEF FreeCells
  <1>3. FreeCells(d) = A \cup D /\ A \cap D = {}
    <2>1. A \cap D = {}
      BY <1>0 DEF FreeCells
    <2>2. \A i \in R : d.pos[i] # -1
      BY <1>0, <1>1
    <2>3. \A i \in Cells : d.pos[i] = -1 <=> i \in A \/ i \in D
      BY <1>0, <1>1, <2>2 DEF FreeCells
    <2>4. \A i \in A \cup D : i \in Cells
      BY <1>0 DEF FreeCells
    <2> HIDE DEF A, D
    <2> QED  BY <2>1, <2>3, <2>4 DEF FreeCells
  <1>4. IsFiniteSet(A) /\ IsFiniteSet(D) /\ IsFiniteSet(R)
    <2>1. A \in SUBSET Cells /\ D \in SUBSET Cells /\ R \in SUBSET Cells
      BY <1>0 DEF FreeCells
    <2> HIDE DEF A, D, R
    <2> QED  BY <2>1, CellsFacts
  <1>5. Cardinality(D) = Cardinality(R)
    <2>1. g \in [D -> R] /\ (\A x \in R : \E j \in D : g[j] = x)
      OBVIOUS
    <2>2. \A i, j \in D : g[i] = g[j] => i = j
      BY <1>0
    <2> HIDE DEF D, R, g
    <2>3. g \in Bijection(D, R)
      BY <2>1, <2>2 DEF Bijection, Injection, Surjection, IsInjective
    <2>4. ExistsBijection(D, R)
      BY <2>3 DEF ExistsBijection
    <2> QED  BY <1>4, <2>4, FS_Bijection
  <1> HIDE DEF A, D, R
  <1>6. /\ Cardinality(A \cup D) = Cardinality(A) + Cardinality(D) - Cardinality({})
        /\ Cardinality(A \cup R) = Cardinality(A) + Cardinality(R) - Cardinality({})
    BY <1>2, <1>3, <1>4, FS_Union
  <1>7. NFree(d) = NFree(c)
    BY <1>2, <1>3, <1>5, <1>6 DEF NFree
  <1> QED  BY <1>7 DEF d

LEMMA SamePosFree ==
    ASSUME NEW c, NEW d, \A i \in Cells : d.pos[i] = c.pos[i]
    PROVE  NFree(d) = NFree(c)
  <1>1. FreeCells(d) = FreeCells(c)
    BY DEF FreeCells
  <1> QED  BY <1>1 DEF NFree

LEMMA UpdateFree ==
    ASSUME NEW m, MInv(m), NEW b, NEW d \in Update(m, b)
    PROVE  NFree(d.cells) = NFree(m.cells)
  <1> DEFINE ids == Plan(m, b)
             m1  == IF m.cells.has_shift THEN Kshift(m) ELSE m
             moved == MoveCells(m1, ids)
             final == IF ids = <<>> THEN m1 ELSE MoveData(moved, ids)
  <1>1. d = final \/ d = m \/ d = moved
    BY DEF Update
  <1>2. MInv(m1) /\ \A i \in Cells : m1.cells.pos[i] = m.cells.pos[i]
    BY KshiftKeeps DEF Keeps
  <1>3. MovesOK(m.cells, ids)
    <2>1. CASE b
      BY <2>1, DefragFacts DEF Plan, MInv
    <2>2. CASE ~b
      <3>1. ids = <<>> /\ DOMAIN <<>> = {}
        BY <2>2 DEF Plan
      <3> QED  BY <3>1 DEF MovesOK
    <2> QED  BY <2>1, <2>2
  <1> HIDE DEF ids, m1
  <1>4. MovesOK(m1.cells, ids)
    BY <1>2, <1>3 DEF MovesOK
  <1>5. NFree(m1.cells) = NFree(m.cells)
    BY <1>2, SamePosFree
  <1>6. moved.cells = MvLoop(m1.cells, ids) /\ MoveData(moved, ids).cells = moved.cells
    <2>1. m1 \in MemType
      BY <1>2 DEF MInv
    <2>2. moved = Recelled(m1, MvLoop(m1.cells, ids), 0)
      BY DEF MoveCells, MvLoop, Recelled
    <2>3. moved.cells = MvLoop(m1.cells, ids) /\ DOMAIN moved = {"cells", "head", "data"}
      BY <2>1, <2>2 DEF Recelled, MemType
    <2> HIDE DEF moved
    <2>4. MoveData(moved, ids).cells = moved.cells
      BY <2>3 DEF MoveData
    <2> QED  BY <2>3, <2>4
  <1>7. NFree(MvLoop(m1.cells, ids)) = NFree(m1.cells)
    BY <1>2, <1>4, MovesFree DEF MInv
  <1> QED  BY <1>1, <1>5, <1>6, <1>7

(* A stage that finds its slot takes as many free cells as it has tokens. *)
LEMMA TriedFree ==
    ASSUME SwaType = "none", NEW p, NEW q, NEW toks, Tried(p, q, toks), q.ok
    PROVE  NFree(q.m.cells) = NFree(p.m.cells) - Len(toks)
  <1> DEFINE K == Range(q.idxs)
             A == FreeCells(q.m.cells)
             n == Len(toks)
  <1>1. SlotOK(q.idxs, toks) /\ OneToOne(q.idxs)
    BY DEF Tried
  <1>2. Cardinality(K) = n /\ IsFiniteSet(K) /\ n \in Nat
    BY <1>1, SlotSize DEF SlotOK
  <1>3. /\ \A i \in K : i \in Cells /\ p.m.cells.pos[i] = -1 /\ q.m.cells.pos[i] # -1
        /\ \A i \in Cells : i \notin K => q.m.cells.pos[i] = p.m.cells.pos[i]
    BY DEF Tried
  <1>4. FreeCells(p.m.cells) = A \cup K /\ A \cap K = {}
    <2> HIDE DEF K
    <2> QED  BY <1>3 DEF FreeCells
  <1> HIDE DEF K, A, n
  <1>5. IsFiniteSet(A) /\ Cardinality(A) = NFree(q.m.cells) /\ Cardinality(A) \in Nat
    BY FreeFacts DEF A, NFree
  <1>6. Cardinality(A \cup K) = Cardinality(A) + Cardinality(K) - 0
    <2>1. Cardinality(A \cup K) = Cardinality(A) + Cardinality(K) - Cardinality(A \cap K)
      BY <1>2, <1>5, FS_Union
    <2>2. Cardinality(A \cap K) = 0
      BY <1>4, FS_EmptySet
    <2> QED  BY <2>1, <2>2
  <1>7. NFree(p.m.cells) = NFree(q.m.cells) + n
    BY <1>2, <1>4, <1>5, <1>6 DEF NFree
  <1> QED  BY <1>2, <1>5, <1>7 DEF n

(* A trial of a batch finds all its slots if there are as many free cells. *)
LEMMA TrialRoom ==
    ASSUME SwaType = "none", ~Cont, NEW m, MInv(m), NEW toks, UbatchOK(toks),
           NFree(m.cells) >= Len(toks)
    PROVE  Prepare(m, Ubatches(toks)).ok
  <1> DEFINE us == Ubatches(toks)
             N == Len(us)
             t == Trial(m, us)
             U == NUbatch
             L == Len(toks)
             f(k) == NFree(t[k].m.cells)
  <1>1. /\ us \in Seq(Seq(TokType)) /\ N \in Nat
        /\ \A k \in 1 .. N : UbatchOK(us[k]) /\ UbatchSize(toks, k)
    BY UbatchesFacts
  <1>2. L \in Nat /\ U \in Nat /\ NFree(m.cells) \in Nat
    BY FreeFacts, ParamsAssumption DEF UbatchOK
  <1>3. TrialOK(t, m, us)
    BY <1>1, TrialFacts
  <1>4. Prepare(m, us).ok = t[N + 1].ok
    BY DEF Prepare
  <1>5. /\ t[1].ok /\ t[1].m = m
        /\ \A k \in 1 .. N : Tried(t[k], t[k + 1], us[k])
    BY <1>3 DEF TrialOK
  <1>6. \A k \in 1 .. N : /\ Len(us[k]) \in Nat /\ Len(us[k]) <= U
                          /\ (k - 1) * U + Len(us[k]) <= L
    BY <1>1 DEF UbatchSize, UbatchOK
  <1>7. \A k : f(k) \in Nat
    BY FreeFacts
  <1> DEFINE S == {n \in 0 .. N : t[n + 1].ok /\ f(n + 1) >= NFree(m.cells) - n * U}
  <1> HIDE DEF us, N, t, U, L
  <1>8. 0 \in S
    <2>1. 0 * U = 0 /\ 0 + 1 = 1 /\ 0 \in 0 .. N
      BY <1>1, <1>2
    <2>2. f(1) >= NFree(m.cells) - 0
      BY <1>2, <1>5
    <2> QED  BY <1>5, <2>1, <2>2
  <1> HIDE DEF f
  <1>9. ASSUME NEW n \in 0 .. N - 1, n \in S  PROVE n + 1 \in S
    <2> DEFINE k == n + 1
               z == n * U
               e == (n + 1) * U
               l == Len(us[k])
    <2>1. /\ k \in 1 .. N /\ k - 1 = n /\ n \in Nat
          /\ t[k].ok /\ f(k) >= NFree(m.cells) - z
      BY <1>1, <1>9
    <2>2. z \in Nat /\ e \in Nat /\ e = z + U
      BY <1>2, <2>1
    <2>3. l \in Nat /\ l <= U /\ z + l <= L
      BY <1>6, <2>1
    <2>4. Tried(t[k], t[k + 1], us[k])
      BY <1>5, <2>1
    <2> HIDE DEF z, e, l, k
    <2>5. f(k) \in Nat /\ f(k + 1) \in Nat
      BY <1>7
    <2>6. t[k + 1].ok
      <3> SUFFICES ASSUME ~t[k + 1].ok  PROVE FALSE
        OBVIOUS
      <3>1. TooFew(t[k].m.cells, l)
        BY <2>1, <2>4 DEF Tried, l
      <3>2. f(k) < l
        BY <3>1, FreeFacts DEF TooFew, f, NFree
      <3>3. NFree(m.cells) >= L
        BY DEF L
      <3> QED  BY <1>2, <2>1, <2>2, <2>3, <2>5, <3>2, <3>3
    <2>7. f(k + 1) = f(k) - l
      BY <2>4, <2>6, TriedFree DEF f, l
    <2>8. f(k + 1) >= NFree(m.cells) - e
      BY <1>2, <2>1, <2>2, <2>3, <2>5, <2>7
    <2> QED  BY <1>1, <2>1, <2>6, <2>8 DEF k, e
  <1>10. N \in S
    <2> HIDE DEF S
    <2>1. \A k \in 0 .. N - 1 : k \in S => k + 1 \in S
      BY <1>9
    <2>2. 0 .. N \subseteq S
      BY <1>1, <1>8, <2>1, Induct
    <2> QED  BY <1>1, <2>2
  <1> QED  BY <1>4, <1>10 DEF us

(* The answer that there is no slot for a batch is given only if fewer cells   *)
(* are free than a batch may have tokens: find_slot wraps around and misses no *)
(* free cell, the trial of each ubatch takes no more than it needs, and        *)
(* updates and defragmentations lose none, also when a graph fails.            *)
THEOREM RoomAlwaysFound ==
    ASSUME CpInto # "any", SwaType = "none", ~Cont
    PROVE  Spec => RoomFound
  <1> DEFINE Room == op' = "full" => Cardinality({i \in Cells : CanUse(cells, i)}) < MaxBatch
  <1>1. ASSUME KVInv, NEW batch \in Batches, NEW b \in BOOLEAN, Decode(batch, b), op' = "full"
        PROVE  NFree(cells) < MaxBatch
    <2> DEFINE toks == WithPos(cells, batch)
               us == Ubatches(toks)
    <2>1. UbatchOK(toks) /\ Len(toks) = Len(batch)
      BY <1>1, PosFacts DEF Decode
    <2>2. Len(batch) \in Nat /\ Len(batch) <= MaxBatch /\ MaxBatch \in Nat
      BY BatchFacts, ParamsAssumption
    <2>3. \E m1 \in Update(Mem, b) : ~Prepare(m1, us).ok
      BY <1>1 DEF Decode, Becomes
    <2> HIDE DEF toks
    <2>4. PICK m1 \in Update(Mem, b) : ~Prepare(m1, us).ok
      BY <2>3
    <2>5. MInv(Mem) /\ MInv(m1) /\ NFree(m1.cells) = NFree(cells)
      BY <1>1, UpdateKeeps, UpdateFree, MemFacts DEF KVInv
    <2>6. ~(NFree(m1.cells) >= Len(toks))
      BY <2>1, <2>4, <2>5, TrialRoom
    <2>7. NFree(cells) \in Nat
      BY FreeFacts
    <2> QED  BY <2>1, <2>2, <2>5, <2>6, <2>7
  <1>2. KVInv /\ Next => Room
    <2> SUFFICES ASSUME KVInv, Next, op' = "full"
                 PROVE  NFree(cells) < MaxBatch
      BY FreeFacts DEF NFree
    <2>1. \E batch \in Batches, b \in BOOLEAN : Decode(batch, b)
      BY DEF Next, Clear, SeqKeep, SeqRm, SeqAdd, SeqDiv, SeqCp, UpdateCall, ProcessUbatch,
             FailUbatch, Becomes
    <2> QED  BY <1>1, <2>1
  <1>3. KVInv /\ [Next]_vars => [Room]_vars
    BY <1>2
  <1> QED  BY <1>3, KVInvHolds, PTL DEF Spec, RoomFound

=============================================================================
