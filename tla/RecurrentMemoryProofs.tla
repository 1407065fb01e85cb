----------------------- MODULE RecurrentMemoryProofs ------------------------
(***************************************************************************)
(* What holds of RecurrentMemory for every number of cells, every bound and *)
(* every choice of the sequences that tokens share: the tails and the count *)
(* are exact, no assertion of find_slot() fails, and the state of each       *)
(* sequence is that of its own tokens.                                       *)
(*                                                                         *)
(* find_slot() is followed stage by stage: Staged says what holds of the    *)
(* memory while sequences are detached, placed and exchanged, with           *)
(* cells[i].src telling where the state of cell i still is.                  *)
(***************************************************************************)
EXTENDS RecurrentMemory, FiniteSetTheorems, NaturalsInduction, WellFoundedInduction, TLAPS

-----------------------------------------------------------------------------
(***************************************************************************)
(* Numbers and finite sets.                                                *)
(***************************************************************************)

(* A nonempty set of natural numbers has a least element. *)
LEMMA LeastNatural ==
    ASSUME NEW P \in SUBSET Nat, P # {}
    PROVE  \E m \in P : \A k \in P : m <= k
  <1> DEFINE R == OpToRel(<, Nat)
  <1>1. IsWellFoundedOn(R, Nat)
    BY NatLessThanWellFounded, Zenon
  <1>2. \A k, m \in Nat : k < m => <<k, m>> \in R
    BY DEF OpToRel
  <1> HIDE DEF R
  <1>3. PICK m \in P : \A k \in P : ~(<<k, m>> \in R)
    BY <1>1, WFMin
  <1>4. \A k \in P : ~(k < m)
    BY <1>2, <1>3
  <1> QED  BY <1>4

(* Induction over a set of numbers: what loops of the code are followed by. *)
LEMMA Induct ==
    ASSUME NEW S, NEW n \in Nat, 0 \in S,
           \A k \in 0 .. n - 1 : k \in S => k + 1 \in S
    PROVE  0 .. n \subseteq S
  <1> SUFFICES ASSUME ~(0 .. n \subseteq S)  PROVE FALSE
    OBVIOUS
  <1> DEFINE P == {k \in 0 .. n : k \notin S}
  <1>1. P \in SUBSET Nat /\ P # {}
    OBVIOUS
  <1>2. PICK m \in P : \A k \in P : m <= k
    <2> HIDE DEF P
    <2> QED  BY <1>1, LeastNatural
  <1>3. m # 0 /\ m \in Nat /\ m <= n /\ m \notin S
    OBVIOUS
  <1>4. m - 1 \in 0 .. n - 1 /\ ~(m <= m - 1)
    BY <1>3
  <1>5. m - 1 \in S
    BY <1>2, <1>4
  <1>6. (m - 1) + 1 \in S
    BY <1>4, <1>5
  <1> QED  BY <1>3, <1>6

LEMMA MinFacts ==
    ASSUME NEW S \in SUBSET Nat, S # {}
    PROVE  MinOf(S) \in S /\ \A y \in S : MinOf(S) <= y
  BY LeastNatural DEF MinOf

LEMMA IdsFacts ==
    /\ Size \in Nat /\ Size >= 1
    /\ Ids \subseteq Nat /\ 0 \in Ids /\ None \notin Ids /\ Ids # {}
    /\ \A i : i \in Ids <=> i \in Nat /\ i < Size
    /\ IsFiniteSet(Ids) /\ Cardinality(Ids) = Size
    /\ \A S \in SUBSET Ids : IsFiniteSet(S) /\ Cardinality(S) \in 0 .. Size
  <1>1. Size \in Nat /\ Size >= 1
    BY RecurrentAssumption
  <1>2. IsFiniteSet(Ids) /\ Cardinality(Ids) = Size
    BY <1>1, FS_Interval DEF Ids
  <1>3. ASSUME NEW S \in SUBSET Ids
        PROVE  IsFiniteSet(S) /\ Cardinality(S) \in 0 .. Size
    BY <1>1, <1>2, <1>3, FS_Subset, FS_CardinalityType
  <1> QED  BY <1>1, <1>2, <1>3 DEF Ids, None

(* The greatest of some cells. *)
LEMMA MaxFacts ==
    ASSUME NEW S \in SUBSET Ids, S # {}
    PROVE  MaxOf(S) \in S /\ \A y \in S : MaxOf(S) >= y
  <1> DEFINE P == {Size - x : x \in S}
  <1>1. P \in SUBSET Nat /\ P # {}
    <2>1. \A x \in S : Size - x \in Nat
      BY IdsFacts
    <2> QED  BY <2>1
  <1>2. PICK p \in P : \A k \in P : p <= k
    <2> HIDE DEF P
    <2> QED  BY <1>1, LeastNatural
  <1>3. PICK x \in S : p = Size - x
    OBVIOUS
  <1>4. ASSUME NEW y \in S  PROVE x >= y
    <2>1. Size - x <= Size - y
      BY <1>2, <1>3
    <2> QED  BY <2>1, IdsFacts
  <1> QED  BY <1>4 DEF MaxOf

-----------------------------------------------------------------------------
(***************************************************************************)
(* What holds between the operations.                                      *)
(***************************************************************************)
Stages == [cell : [Ids -> Cells], tail : [Ids -> Ids \cup {None}],
           head : Ids, used : Int, ok : BOOLEAN]

(* A sequence is in the cell of its tail and in no other. *)
TailsExact(m) == \A s, i \in Ids : s \in m.cell[i].seqs <=> m.tail[s] = i
PosExact(m) == \A i \in Ids : m.cell[i].seqs # {} <=> m.cell[i].pos >= 0

Consistent(m) ==
    /\ m \in Memories /\ m.ok
    /\ TailsExact(m) /\ PosExact(m)
    /\ m.used = Cardinality(Used(m))

(* No token was added to the state since it was cleared or left. *)
Fresh(st) == st.toks = <<>>

LEMMA StatesFacts ==
    /\ Empty \in States /\ Unknown \in States
    /\ Fresh(Empty) /\ Fresh(Unknown)
    /\ \A x : Agrees(x, x) /\ Agrees(x, Unknown)
    /\ \A x : Fresh(x) => Agrees(x, Empty)
    /\ \A x \in States, s \in Ids : After(x, s) \in States
    /\ \A x, y \in States, s \in Ids : Agrees(x, y) => Agrees(After(x, s), After(y, s))
  <1>1. Empty \in States /\ Unknown \in States
    BY DEF Empty, Unknown, States
  <1>2. Fresh(Empty) /\ Fresh(Unknown)
    BY DEF Fresh, Empty, Unknown
  <1>3. \A x : Agrees(x, x) /\ Agrees(x, Unknown)
    BY DEF Agrees, Unknown
  <1>4. \A x : Fresh(x) => Agrees(x, Empty)
    BY DEF Fresh, Agrees, Empty
  <1>5. ASSUME NEW x \in States, NEW s \in Ids
        PROVE  /\ After(x, s) \in States
               /\ After(x, s).known = x.known /\ After(x, s).toks = Append(x.toks, s)
    BY DEF States, After
  <1>6. ASSUME NEW x \in States, NEW y \in States, NEW s \in Ids, Agrees(x, y)
        PROVE  Agrees(After(x, s), After(y, s))
    <2>1. /\ After(x, s).toks = Append(x.toks, s) /\ After(y, s).toks = Append(y.toks, s)
          /\ After(y, s).known = y.known
      BY <1>5
    <2> QED  BY <1>6, <2>1 DEF Agrees
  <1> QED  BY <1>1, <1>2, <1>3, <1>4, <1>5, <1>6

(* What is shared agrees with the state that is used. *)
LEMMA SharedFacts ==
    ASSUME NEW tx \in [Ids -> States], NEW s \in Ids, NEW q \in Ids
    PROVE  /\ Shared(tx, s, q) \in States
           /\ \A x : Agrees(x, After(tx[q], q)) => Agrees(x, Shared(tx, s, q))
  <1>1. After(tx[q], q) \in States
    BY StatesFacts
  <1> DEFINE a == After(tx[q], q)
  <1>2. Shared(tx, s, q) = [a EXCEPT !.known = @ /\ tx[s] = tx[q]]
    BY DEF Shared
  <1> HIDE DEF a
  <1>3. /\ Shared(tx, s, q) \in States /\ Shared(tx, s, q).toks = a.toks
        /\ Shared(tx, s, q).known => a.known
    BY <1>1, <1>2 DEF States, a
  <1> QED  BY <1>3 DEF Agrees, a

(* The state of a cell is in the cell.  One that is free may still say so:   *)
(* its state was cleared, or a failed graph was to write it.                 *)
InPlace(m) == \A i \in Ids :
    /\ m.cell[i].src \in {None, i}
    /\ m.cell[i].seqs # {} => m.cell[i].src = i
FreeCleared(m, st) == \A i \in Ids :
    m.cell[i].seqs = {} /\ m.cell[i].src = i => Fresh(st[i])
StatesExact(m, st, tx) == \A s \in Ids :
    IF m.tail[s] = None THEN tx[s] = Empty ELSE Agrees(st[m.tail[s]], tx[s])

Exact(m, st, tx) == InPlace(m) /\ FreeCleared(m, st) /\ StatesExact(m, st, tx)

RInv ==
    /\ TypeOK
    /\ Consistent(mem)
    /\ Exact(mem, state, text)
    /\ saved = NothingSaved \/ saved.pos >= 0

-----------------------------------------------------------------------------
(***************************************************************************)
(* Removing sequences.                                                     *)
(***************************************************************************)

(* n is m without some sequences: a cell that lost the last one is free.    *)
Fewer(m, n) ==
    /\ \A i \in Ids : \/ n.cell[i].src = None /\ n.cell[i].seqs = {}
                      \/ /\ n.cell[i].src = m.cell[i].src
                         /\ n.cell[i].seqs = {} <=> m.cell[i].seqs = {}
    /\ \A s \in Ids : n.tail[s] \in {m.tail[s], None}

LEMMA NoCellFacts ==
    NoCell \in Cells /\ NoCell.pos = -1 /\ NoCell.src = None /\ NoCell.seqs = {}
  BY RecurrentAssumption DEF NoCell, Cells, None

LEMMA FewerExact ==
    ASSUME NEW m, NEW n, NEW st, NEW tx, Fewer(m, n), Exact(m, st, tx),
           n.tail \in [Ids -> Ids \cup {None}]
    PROVE  Exact(n, st, Remaining(n, tx))
  <1>1. InPlace(n)
    BY NoCellFacts DEF Fewer, Exact, InPlace
  <1>2. FreeCleared(n, st)
    <2> SUFFICES ASSUME NEW i \in Ids, n.cell[i].seqs = {}, n.cell[i].src = i
                 PROVE  Fresh(st[i])
      BY DEF FreeCleared
    <2>1. n.cell[i].src # None
      BY IdsFacts
    <2> QED  BY <2>1 DEF Fewer, Exact, FreeCleared
  <1>3. StatesExact(n, st, Remaining(n, tx))
    <2> SUFFICES ASSUME NEW s \in Ids
                 PROVE  IF n.tail[s] = None THEN Remaining(n, tx)[s] = Empty
                        ELSE Agrees(st[n.tail[s]], Remaining(n, tx)[s])
      BY DEF StatesExact
    <2>1. Remaining(n, tx)[s] = IF n.tail[s] = None THEN Empty ELSE tx[s]
      BY DEF Remaining
    <2>2. n.tail[s] # None => n.tail[s] = m.tail[s] /\ m.tail[s] # None
      BY DEF Fewer
    <2>3. m.tail[s] # None => Agrees(st[m.tail[s]], tx[s])
      BY DEF Exact, StatesExact
    <2> QED  BY <2>1, <2>2, <2>3
  <1> QED  BY <1>1, <1>2, <1>3 DEF Exact

LEMMA HeadAtType ==
    ASSUME NEW m \in Memories, NEW freed \in SUBSET Ids
    PROVE  HeadAt(m, freed) \in Ids
  <1>1. m.head \in Ids
    BY DEF Memories
  <1>2. freed # {} => MinOf(freed) \in Ids
    BY MinFacts, IdsFacts
  <1> QED  BY <1>1, <1>2 DEF HeadAt

(* The count goes down by the cells that are freed. *)
LEMMA CountRemoved ==
    ASSUME NEW m, NEW n, NEW freed \in SUBSET Ids,
           freed \subseteq Used(m), Used(n) = Used(m) \ freed,
           m.used = Cardinality(Used(m))
    PROVE  /\ m.used - Cardinality(freed) = Cardinality(Used(n))
           /\ m.used - Cardinality(freed) \in 0 .. Size
  <1>1. Used(m) \in SUBSET Ids /\ Used(n) \in SUBSET Ids
    BY DEF Used
  <1>2. IsFiniteSet(Used(m))
    BY <1>1, IdsFacts
  <1>3. Cardinality(Used(n)) = Cardinality(Used(m)) - Cardinality(Used(m) \cap freed)
    BY <1>2, FS_Difference
  <1>4. Used(m) \cap freed = freed
    OBVIOUS
  <1>5. Cardinality(Used(n)) \in 0 .. Size
    BY <1>1, IdsFacts
  <1> QED  BY <1>3, <1>4, <1>5

LEMMA WithoutFacts ==
    ASSUME NEW c \in Cells, NEW s
    PROVE  /\ Without(c, s) \in Cells
           /\ Without(c, s).seqs = c.seqs \ {s}
           /\ c.seqs \subseteq {s} => Without(c, s) = NoCell
           /\ ~(c.seqs \subseteq {s}) =>
                Without(c, s).src = c.src /\ Without(c, s).pos = c.pos
  BY NoCellFacts DEF Without, Cells

LEMMA SeqRemovedConsistent ==
    ASSUME NEW m, Consistent(m), NEW s \in Ids, NEW p0 \in Int, NEW p1 \in Int
    PROVE  LET n == SeqRemoved(m, s, p0, p1)
           IN  /\ Consistent(n) /\ Fewer(m, n)
               /\ m.tail[s] # None /\ p0 <= 0 /\ MaxPos < p1 => n.tail[s] = None
               /\ m.tail[s] = None => n.tail[s] = None
  <1> DEFINE hit(i) == InRange(m.cell[i], p0, p1) /\ s \in m.cell[i].seqs
             freed  == {i \in Ids : hit(i) /\ m.cell[i].seqs = {s}}
             t      == m.tail[s]
             tail   == IF t # None /\ InRange(m.cell[t], p0, p1) THEN None ELSE t
             new    == [i \in Ids |-> IF hit(i) THEN Without(m.cell[i], s) ELSE m.cell[i]]
             n      == SeqRemoved(m, s, p0, p1)
  <1>1. m \in Memories /\ m.ok /\ TailsExact(m) /\ PosExact(m) /\ m.used = Cardinality(Used(m))
    BY DEF Consistent
  <1>2. /\ n.cell = new /\ n.ok = m.ok /\ n.head = HeadAt(m, freed)
        /\ n.tail = [m.tail EXCEPT ![s] = tail]
        /\ n.used = m.used - Cardinality(freed)
        /\ n = [cell |-> new, tail |-> n.tail, head |-> n.head, used |-> n.used, ok |-> n.ok]
    <2>1. n = [m EXCEPT !.cell = new, !.tail[s] = tail,
                        !.used = @ - Cardinality(freed), !.head = HeadAt(m, freed)]
      BY DEF SeqRemoved
    <2>2. m = [cell |-> m.cell, tail |-> m.tail, head |-> m.head, used |-> m.used, ok |-> m.ok]
      BY <1>1 DEF Memories
    <2> HIDE DEF n, new, tail, freed
    <2> QED  BY <2>1, <2>2
  <1>3. \A i \in Ids : m.cell[i] \in Cells
    BY <1>1 DEF Memories
  <1>4. m.tail \in [Ids -> Ids \cup {None}]
    BY <1>1 DEF Memories
  <1>5. n.tail \in [Ids -> Ids \cup {None}] /\ n.tail[s] = tail
        /\ \A r \in Ids \ {s} : n.tail[r] = m.tail[r]
    BY <1>2, <1>4
  <1>6. \A i \in Ids : new[i] = (IF hit(i) THEN Without(m.cell[i], s) ELSE m.cell[i])
    OBVIOUS
  <1>7. \A i \in Ids : new[i] \in Cells
    BY <1>3, <1>6, WithoutFacts
  <1>8. \A i \in Ids : new[i].seqs = (IF hit(i) THEN m.cell[i].seqs \ {s} ELSE m.cell[i].seqs)
    BY <1>3, <1>6, WithoutFacts
  <1>9. \A i \in Ids : hit(i) <=> m.tail[s] = i /\ InRange(m.cell[i], p0, p1)
    BY <1>1 DEF TailsExact
  <1>10. TailsExact(n)
    <2> SUFFICES ASSUME NEW r \in Ids, NEW i \in Ids
                 PROVE  r \in new[i].seqs <=> n.tail[r] = i
      BY <1>2 DEF TailsExact
    <2>1. r \in m.cell[i].seqs <=> m.tail[r] = i
      BY <1>1 DEF TailsExact
    <2>2. CASE r # s
      <3>1. r \in new[i].seqs <=> r \in m.cell[i].seqs
        BY <1>8, <2>2
      <3> QED  BY <2>1, <2>2, <3>1, <1>5
    <2>3. CASE r = s
      <3>1. n.tail[r] = tail
        BY <1>5, <2>3
      <3>2. CASE hit(i)
        <4>1. r \notin new[i].seqs
          BY <1>8, <2>3, <3>2
        <4>2. t = i /\ InRange(m.cell[t], p0, p1)
          BY <1>9, <3>2
        <4>3. tail = None
          BY <4>2, IdsFacts
        <4> QED  BY <3>1, <4>1, <4>3, IdsFacts
      <3>3. CASE ~hit(i)
        <4>1. r \in new[i].seqs <=> t = i
          BY <1>8, <2>1, <2>3, <3>3
        <4>2. t = i => ~InRange(m.cell[t], p0, p1)
          BY <1>9, <3>3
        <4>3. tail = i <=> t = i
          BY <4>2, IdsFacts
        <4> QED  BY <3>1, <4>1, <4>3
      <3> QED  BY <3>2, <3>3
    <2> QED  BY <2>2, <2>3
  <1>11. \A i \in Ids : i \in freed <=> hit(i) /\ m.cell[i].seqs \subseteq {s}
    OBVIOUS
  <1>12. \A i \in Ids : i \in freed => new[i] = NoCell
    BY <1>3, <1>6, <1>11, WithoutFacts
  <1>13. \A i \in Ids : i \notin freed =>
            /\ new[i].src = m.cell[i].src /\ new[i].pos = m.cell[i].pos
            /\ new[i].seqs = {} <=> m.cell[i].seqs = {}
    <2> SUFFICES ASSUME NEW i \in Ids, i \notin freed
                 PROVE  /\ new[i].src = m.cell[i].src /\ new[i].pos = m.cell[i].pos
                        /\ new[i].seqs = {} <=> m.cell[i].seqs = {}
      OBVIOUS
    <2>1. CASE hit(i)
      <3>1. ~(m.cell[i].seqs \subseteq {s})
        BY <1>11, <2>1
      <3>2. new[i] = Without(m.cell[i], s)
        BY <1>6, <2>1
      <3>3. m.cell[i] \in Cells
        BY <1>3
      <3> QED  BY <3>1, <3>2, <3>3, WithoutFacts
    <2>2. CASE ~hit(i)
      BY <1>6, <2>2
    <2> QED  BY <2>1, <2>2
  <1>14. PosExact(n)
    <2> SUFFICES ASSUME NEW i \in Ids
                 PROVE  new[i].seqs # {} <=> new[i].pos >= 0
      BY <1>2 DEF PosExact
    <2>1. m.cell[i].seqs # {} <=> m.cell[i].pos >= 0
      BY <1>1 DEF PosExact
    <2> QED  BY <2>1, <1>12, <1>13, NoCellFacts
  <1>15. freed \subseteq Used(m) /\ Used(n) = Used(m) \ freed
    <2>1. freed \subseteq Used(m)
      BY DEF Used, is_empty
    <2>2. ASSUME NEW i \in Ids  PROVE i \in Used(n) <=> i \in Used(m) /\ i \notin freed
      BY <1>2, <1>12, <1>13, NoCellFacts DEF Used, is_empty
    <2> QED  BY <2>1, <2>2 DEF Used
  <1>16. n.used = Cardinality(Used(n)) /\ n.used \in 0 .. Size
    <2> HIDE DEF freed, n
    <2>1. freed \in SUBSET Ids
      BY DEF freed
    <2>2. freed \subseteq Used(m) /\ Used(n) = Used(m) \ freed /\ m.used = Cardinality(Used(m))
      BY <1>1, <1>15
    <2>3. /\ m.used - Cardinality(freed) = Cardinality(Used(n))
          /\ m.used - Cardinality(freed) \in 0 .. Size
      BY <2>1, <2>2, CountRemoved
    <2> QED  BY <1>2, <2>3
  <1>17. n.head \in Ids
    BY <1>1, <1>2, HeadAtType
  <1>18. n \in Memories
    <2>1. new \in [Ids -> Cells]
      BY <1>7
    <2>2. n.ok \in BOOLEAN
      BY <1>1, <1>2
    <2> HIDE DEF n, new
    <2> QED  BY <1>2, <1>5, <1>16, <1>17, <2>1, <2>2 DEF Memories
  <1>19. Fewer(m, n)
    <2>1. \A i \in Ids : \/ new[i] = NoCell
                         \/ new[i].src = m.cell[i].src /\ (new[i].seqs = {} <=> m.cell[i].seqs = {})
      BY <1>12, <1>13
    <2>2. \A r \in Ids : n.tail[r] \in {m.tail[r], None}
      BY <1>5
    <2> HIDE DEF new, n
    <2> QED  BY <1>2, <2>1, <2>2, NoCellFacts DEF Fewer
  <1>20. m.tail[s] # None /\ p0 <= 0 /\ MaxPos < p1 => n.tail[s] = None
    <2> SUFFICES ASSUME t # None, p0 <= 0, MaxPos < p1  PROVE tail = None
      BY <1>5
    <2>1. t \in Ids /\ m.cell[t] \in Cells
      BY <1>3, <1>4
    <2>2. m.cell[t].pos >= 0
      BY <2>1, <1>1 DEF TailsExact, PosExact
    <2>3. InRange(m.cell[t], p0, p1)
      BY <2>1, <2>2, RecurrentAssumption DEF InRange, Cells
    <2> QED  BY <2>3
  <1>21. m.tail[s] = None => n.tail[s] = None
    BY <1>5
  <1>22. Consistent(n)
    BY <1>1, <1>2, <1>10, <1>14, <1>16, <1>18 DEF Consistent
  <1> QED  BY <1>19, <1>20, <1>21, <1>22

LEMMA FewerTrans ==
    /\ \A m : m.tail \in [Ids -> Ids \cup {None}] => Fewer(m, m)
    /\ \A k, m, n : Fewer(k, m) /\ Fewer(m, n) => Fewer(k, n)
  <1>1. \A m : Fewer(m, m)
    BY DEF Fewer
  <1>2. ASSUME NEW k, NEW m, NEW n, Fewer(k, m), Fewer(m, n)  PROVE Fewer(k, n)
    <2>1. ASSUME NEW i \in Ids
          PROVE  \/ n.cell[i].src = None /\ n.cell[i].seqs = {}
                 \/ /\ n.cell[i].src = k.cell[i].src
                    /\ n.cell[i].seqs = {} <=> k.cell[i].seqs = {}
      BY <1>2 DEF Fewer
    <2>2. ASSUME NEW s \in Ids  PROVE n.tail[s] \in {k.tail[s], None}
      BY <1>2 DEF Fewer
    <2> QED  BY <2>1, <2>2 DEF Fewer
  <1> QED  BY <1>1, <1>2

(* seq_rm(): what it refuses it leaves alone, and a whole sequence is never   *)
(* refused.                                                                   *)
LEMMA SeqRmConsistent ==
    ASSUME NEW m, Consistent(m), NEW s \in Ids, NEW p0 \in Int, NEW p1 \in Int
    PROVE  /\ Consistent(SeqRm(m, s, p0, p1)) /\ Fewer(m, SeqRm(m, s, p0, p1))
           /\ p0 = 0 /\ p1 = End => SeqRm(m, s, p0, p1).tail[s] = None
           /\ m.tail[s] = None => SeqRm(m, s, p0, p1).tail[s] = None
  <1>1. m.tail \in [Ids -> Ids \cup {None}] /\ m.cell \in [Ids -> Cells]
    BY DEF Consistent, Memories
  <1>2. CASE Partial(m, s, p0, p1)
    <2>1. SeqRm(m, s, p0, p1) = m
      BY <1>2 DEF SeqRm
    <2>2. ~(p0 = 0 /\ p1 = End)
      <3>1. m.tail[s] \in Ids
        BY <1>1, <1>2 DEF Partial
      <3>2. m.cell[m.tail[s]].pos \in -1 .. MaxPos
        BY <1>1, <3>1 DEF Cells
      <3> QED  BY <1>2, <3>2, RecurrentAssumption DEF Partial, End
    <2>3. Fewer(m, m)
      BY <1>1, FewerTrans
    <2> QED  BY <2>1, <2>2, <2>3
  <1>3. CASE ~Partial(m, s, p0, p1)
    <2>1. SeqRm(m, s, p0, p1) = SeqRemoved(m, s, p0, p1)
      BY <1>3 DEF SeqRm
    <2>2. p0 = 0 /\ p1 = End => p0 <= 0 /\ MaxPos < p1
      BY RecurrentAssumption DEF End
    <2> QED  BY <2>1, <2>2, SeqRemovedConsistent
  <1> QED  BY <1>2, <1>3

(* clear() *)
LEMMA ClearedConsistent ==
    /\ Consistent(Cleared)
    /\ \A st : Exact(Cleared, st, NoTexts)
  <1>1. /\ Cleared.cell = [i \in Ids |-> NoCell] /\ Cleared.tail = [s \in Ids |-> None]
        /\ Cleared.head = 0 /\ Cleared.used = 0 /\ Cleared.ok = TRUE
    BY DEF Cleared
  <1>2. Cleared \in Memories
    <2>1. Cleared.cell \in [Ids -> Cells] /\ Cleared.tail \in [Ids -> Ids \cup {None}]
      BY <1>1, NoCellFacts
    <2> QED  BY <1>1, <2>1, IdsFacts DEF Memories, Cleared
  <1>3. \A i \in Ids : Cleared.cell[i] = NoCell /\ Cleared.tail[i] = None
    BY <1>1
  <1>4. TailsExact(Cleared) /\ PosExact(Cleared)
    BY <1>3, NoCellFacts, IdsFacts DEF TailsExact, PosExact
  <1>5. Used(Cleared) = {}
    BY <1>3, NoCellFacts DEF Used, is_empty
  <1>6. Consistent(Cleared)
    BY <1>1, <1>2, <1>4, <1>5, FS_EmptySet DEF Consistent
  <1>7. ASSUME NEW st  PROVE Exact(Cleared, st, NoTexts)
    <2>1. InPlace(Cleared) /\ FreeCleared(Cleared, st)
      BY <1>3, NoCellFacts, IdsFacts DEF InPlace, FreeCleared
    <2>2. StatesExact(Cleared, st, NoTexts)
      BY <1>3 DEF StatesExact, NoTexts
    <2> QED  BY <2>1, <2>2 DEF Exact
  <1> QED  BY <1>6, <1>7

(* seq_keep() *)
LEMMA SeqKeptConsistent ==
    ASSUME NEW m, Consistent(m), NEW s \in Ids
    PROVE  Consistent(SeqKept(m, s)) /\ Fewer(m, SeqKept(m, s))
  <1> DEFINE gone == {i \in Ids : s \notin m.cell[i].seqs}
             freed == {i \in gone : m.cell[i].pos >= 0}
             new  == [i \in Ids |->
                        IF i \in gone THEN NoCell ELSE [m.cell[i] EXCEPT !.seqs = {s}]]
             tail == [i \in Ids |-> IF i = s THEN m.tail[s] ELSE None]
             n    == SeqKept(m, s)
  <1>1. m \in Memories /\ m.ok /\ TailsExact(m) /\ PosExact(m) /\ m.used = Cardinality(Used(m))
    BY DEF Consistent
  <1>2. /\ n.cell = new /\ n.ok = m.ok /\ n.head = HeadAt(m, gone) /\ n.tail = tail
        /\ n.used = m.used - Cardinality(freed)
        /\ n = [cell |-> new, tail |-> tail, head |-> n.head, used |-> n.used, ok |-> n.ok]
    <2>1. n = [m EXCEPT !.cell = new, !.tail = tail,
                        !.used = @ - Cardinality(freed), !.head = HeadAt(m, gone)]
      BY DEF SeqKept
    <2>2. m = [cell |-> m.cell, tail |-> m.tail, head |-> m.head, used |-> m.used, ok |-> m.ok]
      BY <1>1 DEF Memories
    <2> HIDE DEF n, new, tail, freed, gone
    <2> QED  BY <2>1, <2>2
  <1>3. \A i \in Ids : m.cell[i] \in Cells
    BY <1>1 DEF Memories
  <1>4. \A i \in Ids : s \in m.cell[i].seqs <=> m.tail[s] = i
    BY <1>1 DEF TailsExact
  <1>5. \A i \in Ids : m.tail[s] # i => new[i] = NoCell
    BY <1>4
  <1>6. \A i \in Ids : m.tail[s] = i =>
            /\ new[i] \in Cells /\ new[i].seqs = {s} /\ m.cell[i].seqs # {}
            /\ new[i].src = m.cell[i].src /\ new[i].pos = m.cell[i].pos
    BY <1>3, <1>4 DEF Cells
  <1>7. \A r \in Ids : tail[r] = (IF r = s THEN m.tail[s] ELSE None)
    OBVIOUS
  <1>8. m.tail[s] \in Ids \cup {None}
    BY <1>1 DEF Memories
  <1>9. TailsExact(n)
    <2> SUFFICES ASSUME NEW r \in Ids, NEW i \in Ids
                 PROVE  r \in new[i].seqs <=> tail[r] = i
      BY <1>2 DEF TailsExact
    <2>1. i # None
      BY IdsFacts
    <2>2. r \in new[i].seqs <=> r = s /\ m.tail[s] = i
      <3> HIDE DEF new
      <3>1. CASE m.tail[s] = i
        BY <1>6, <3>1
      <3>2. CASE m.tail[s] # i
        <4>1. new[i].seqs = {}
          BY <1>5, <3>2, NoCellFacts
        <4> QED  BY <3>2, <4>1
      <3> QED  BY <3>1, <3>2
    <2> QED  BY <2>1, <2>2, <1>7
  <1>10. PosExact(n)
    <2> SUFFICES ASSUME NEW i \in Ids
                 PROVE  new[i].seqs # {} <=> new[i].pos >= 0
      BY <1>2 DEF PosExact
    <2>1. m.cell[i].seqs # {} <=> m.cell[i].pos >= 0
      BY <1>1 DEF PosExact
    <2> QED  BY <2>1, <1>5, <1>6, NoCellFacts
  <1>11. freed \subseteq Used(m) /\ Used(n) = Used(m) \ freed
    <2>1. freed \subseteq Used(m)
      BY <1>1 DEF Used, is_empty, PosExact
    <2>2. \A i \in Ids : i \in freed <=> m.tail[s] # i /\ m.cell[i].seqs # {}
      BY <1>1, <1>4 DEF PosExact
    <2>3. ASSUME NEW i \in Ids  PROVE i \in Used(n) <=> i \in Used(m) /\ i \notin freed
      <3> HIDE DEF new, freed
      <3>1. i \in Used(n) <=> new[i].seqs # {}
        BY <1>2 DEF Used, is_empty
      <3>2. new[i].seqs # {} <=> m.tail[s] = i
        BY <1>5, <1>6, NoCellFacts
      <3> QED  BY <2>2, <3>1, <3>2, <1>6 DEF Used, is_empty
    <2> QED  BY <2>1, <2>3 DEF Used
  <1>12. n.used = Cardinality(Used(n)) /\ n.used \in 0 .. Size
    <2> HIDE DEF freed, n
    <2>1. freed \in SUBSET Ids
      BY DEF freed
    <2>2. freed \subseteq Used(m) /\ Used(n) = Used(m) \ freed /\ m.used = Cardinality(Used(m))
      BY <1>1, <1>11
    <2>3. /\ m.used - Cardinality(freed) = Cardinality(Used(n))
          /\ m.used - Cardinality(freed) \in 0 .. Size
      BY <2>1, <2>2, CountRemoved
    <2> QED  BY <1>2, <2>3
  <1>13. n.head \in Ids
    BY <1>1, <1>2, HeadAtType
  <1>14. n \in Memories
    <2>1. new \in [Ids -> Cells]
      <3>1. \A i \in Ids : new[i] \in Cells
        BY <1>5, <1>6, NoCellFacts
      <3> QED  BY <3>1
    <2>2. tail \in [Ids -> Ids \cup {None}]
      BY <1>8
    <2>3. n.ok \in BOOLEAN
      BY <1>1, <1>2
    <2> HIDE DEF n, new, tail
    <2> QED  BY <1>2, <1>12, <1>13, <2>1, <2>2, <2>3 DEF Memories
  <1>15. Fewer(m, n)
    <2>1. \A i \in Ids : \/ new[i] = NoCell
                         \/ new[i].src = m.cell[i].src /\ (new[i].seqs = {} <=> m.cell[i].seqs = {})
      BY <1>5, <1>6
    <2>2. \A r \in Ids : tail[r] \in {m.tail[r], None}
      BY <1>7
    <2> HIDE DEF new, tail, n
    <2> QED  BY <1>2, <2>1, <2>2, NoCellFacts DEF Fewer
  <1> QED  BY <1>1, <1>2, <1>9, <1>10, <1>12, <1>14, <1>15 DEF Consistent

(* seq_add(), seq_div(): the position of a cell in use stays one. *)
LEMMA MovedConsistent ==
    ASSUME NEW m, Consistent(m), NEW st, NEW tx, Exact(m, st, tx),
           NEW t \in Ids, m.cell[t].seqs # {}, NEW q \in 0 .. MaxPos
    PROVE  LET n == [m EXCEPT !.cell[t].pos = q]
           IN  Consistent(n) /\ Exact(n, st, tx)
  <1> DEFINE n == [m EXCEPT !.cell[t].pos = q]
  <1>1. m \in Memories /\ m.ok /\ TailsExact(m) /\ PosExact(m) /\ m.used = Cardinality(Used(m))
    BY DEF Consistent
  <1>2. m.cell \in [Ids -> Cells] /\ \A i \in Ids : m.cell[i] \in Cells
    BY <1>1 DEF Memories
  <1>3. /\ n.cell = [m.cell EXCEPT ![t] = [m.cell[t] EXCEPT !.pos = q]]
        /\ n.tail = m.tail /\ n.used = m.used /\ n.head = m.head /\ n.ok = m.ok
        /\ n = [cell |-> n.cell, tail |-> n.tail, head |-> n.head, used |-> n.used, ok |-> n.ok]
    <2>1. m = [cell |-> m.cell, tail |-> m.tail, head |-> m.head, used |-> m.used, ok |-> m.ok]
      BY <1>1 DEF Memories
    <2>2. n = [cell |-> [m.cell EXCEPT ![t] = [m.cell[t] EXCEPT !.pos = q]],
               tail |-> m.tail, head |-> m.head, used |-> m.used, ok |-> m.ok]
      BY <2>1
    <2> HIDE DEF n
    <2> QED  BY <2>2
  <1>4. \A i \in Ids : n.cell[i] = IF i = t THEN [m.cell[t] EXCEPT !.pos = q] ELSE m.cell[i]
    BY <1>2, <1>3
  <1> HIDE DEF n
  <1>5. \A i \in Ids : /\ n.cell[i] \in Cells
                       /\ n.cell[i].seqs = m.cell[i].seqs /\ n.cell[i].src = m.cell[i].src
                       /\ n.cell[i].pos = IF i = t THEN q ELSE m.cell[i].pos
    <2>1. \A c \in Cells : /\ [c EXCEPT !.pos = q] \in Cells /\ [c EXCEPT !.pos = q].pos = q
                           /\ [c EXCEPT !.pos = q].seqs = c.seqs
                           /\ [c EXCEPT !.pos = q].src = c.src
      BY DEF Cells
    <2> QED  BY <1>2, <1>4, <2>1, ZenonT(40)
  <1>6. n \in Memories
    <2>1. n.cell \in [Ids -> Cells]
      BY <1>2, <1>3, <1>5
    <2>2. /\ m.tail \in [Ids -> Ids \cup {None}] /\ m.head \in Ids
          /\ m.used \in 0 .. Size /\ m.ok \in BOOLEAN
      BY <1>1 DEF Memories
    <2> QED  BY <1>3, <2>1, <2>2 DEF Memories
  <1>7. TailsExact(n)
    BY <1>1, <1>3, <1>5 DEF TailsExact
  <1>8. PosExact(n)
    BY <1>1, <1>5 DEF PosExact
  <1>9. Used(n) = Used(m)
    BY <1>5 DEF Used, is_empty
  <1>10. Consistent(n)
    BY <1>1, <1>3, <1>6, <1>7, <1>8, <1>9 DEF Consistent
  <1>11. InPlace(n) /\ FreeCleared(n, st)
    BY <1>5 DEF Exact, InPlace, FreeCleared
  <1>12. StatesExact(n, st, tx)
    BY <1>3 DEF Exact, StatesExact
  <1> QED  BY <1>10, <1>11, <1>12 DEF Exact, n

(* seq_cp() *)
LEMMA SeqCopiedConsistent ==
    ASSUME NEW m, Consistent(m), NEW st, NEW tx \in [Ids -> States], Exact(m, st, tx),
           NEW src \in Ids, NEW dst \in Ids, src # dst
    PROVE  LET n == SeqCopied(m, src, dst)
           IN  Consistent(n) /\ Exact(n, st, [tx EXCEPT ![dst] = tx[src]])
  <1> DEFINE td    == m.tail[dst]
             ts    == m.tail[src]
             freed == IF td # None /\ m.cell[td].seqs = {dst} THEN {td} ELSE {}
             a(i)  == IF i = td THEN Without(m.cell[i], dst) ELSE m.cell[i]
             n     == SeqCopied(m, src, dst)
  <1>1. m \in Memories /\ m.ok /\ TailsExact(m) /\ PosExact(m) /\ m.used = Cardinality(Used(m))
    BY DEF Consistent
  <1>2. m.cell \in [Ids -> Cells] /\ \A i \in Ids : m.cell[i] \in Cells
    BY <1>1 DEF Memories
  <1>3. td \in Ids \cup {None} /\ ts \in Ids \cup {None} /\ m.tail \in [Ids -> Ids \cup {None}]
    BY <1>1 DEF Memories
  <1>4. /\ n.tail = [m.tail EXCEPT ![dst] = ts] /\ n.head = m.head /\ n.ok = m.ok
        /\ n.used = m.used - Cardinality(freed)
        /\ n = [cell |-> n.cell, tail |-> n.tail, head |-> n.head, used |-> n.used, ok |-> n.ok]
        /\ n.cell = [i \in Ids |-> IF i = ts THEN [a(i) EXCEPT !.seqs = @ \cup {dst}] ELSE a(i)]
    <2> DEFINE m1 == IF td = None THEN m
                     ELSE [m EXCEPT !.cell[td] = Without(@, dst),
                                    !.used = @ - (IF m.cell[td].seqs = {dst} THEN 1 ELSE 0)]
    <2>1. m = [cell |-> m.cell, tail |-> m.tail, head |-> m.head, used |-> m.used, ok |-> m.ok]
      BY <1>1 DEF Memories
    <2>2. m.used \in Int /\ Cardinality({}) = 0 /\ \A i : Cardinality({i}) = 1
      <3>1. m.used \in Int
        BY <1>1 DEF Memories
      <3> QED  BY <3>1, FS_EmptySet, FS_Singleton
    <2>3. m1 = [cell |-> [i \in Ids |-> a(i)], tail |-> m.tail, head |-> m.head,
                used |-> m.used - Cardinality(freed), ok |-> m.ok]
      <3>1. CASE td = None
        <4>1. \A i \in Ids : a(i) = m.cell[i]
          BY <3>1, IdsFacts
        <4>2. [i \in Ids |-> a(i)] = m.cell
          BY <1>2, <4>1
        <4>3. m.used - Cardinality(freed) = m.used
          BY <2>2, <3>1
        <4> QED  BY <2>1, <3>1, <4>2, <4>3
      <3>2. CASE td # None
        <4>1. [m.cell EXCEPT ![td] = Without(@, dst)] = [i \in Ids |-> a(i)]
          BY <1>2
        <4>2. Cardinality(freed) = IF m.cell[td].seqs = {dst} THEN 1 ELSE 0
          BY <2>2, <3>2
        <4>3. m1 = [m EXCEPT !.cell = [i \in Ids |-> a(i)],
                             !.used = m.used - Cardinality(freed)]
          BY <2>1, <3>2, <4>1, <4>2
        <4> HIDE DEF m1, a, freed
        <4> QED  BY <2>1, <4>3
      <3> QED  BY <3>1, <3>2
    <2>4. n = IF ts = None THEN [m1 EXCEPT !.tail[dst] = None]
              ELSE [m1 EXCEPT !.cell[ts].seqs = @ \cup {dst}, !.tail[dst] = ts]
      <3>1. m1.tail[src] = ts
        <4> HIDE DEF m1, a, freed
        <4> QED  BY <2>3
      <3>2. n = IF m1.tail[src] = None THEN [m1 EXCEPT !.tail[dst] = None]
                ELSE [m1 EXCEPT !.cell[m1.tail[src]].seqs = @ \cup {dst},
                                !.tail[dst] = m1.tail[src]]
        BY DEF SeqCopied
      <3> HIDE DEF m1, n, ts
      <3> QED  BY <3>1, <3>2
    <2> HIDE DEF m1, n, freed, td
    <2>5. CASE ts = None
      <3>1. n.cell = [i \in Ids |-> a(i)]
        BY <2>3, <2>4, <2>5
      <3>2. \A i \in Ids : i # ts
        BY <2>5, IdsFacts
      <3> QED  BY <2>3, <2>4, <2>5, <3>1, <3>2
    <2>6. CASE ts # None
      BY <2>3, <2>4, <2>6, <1>3
    <2> QED  BY <2>5, <2>6
  <1>5. \A i \in Ids : n.cell[i] = IF i = ts THEN [a(i) EXCEPT !.seqs = @ \cup {dst}] ELSE a(i)
    BY <1>4
  <1>6. \A r, i \in Ids : r \in m.cell[i].seqs <=> m.tail[r] = i
    BY <1>1 DEF TailsExact
  <1>7. \A i \in Ids : /\ a(i) \in Cells
                       /\ a(i).seqs = m.cell[i].seqs \ {dst}
                       /\ i \notin freed => a(i).src = m.cell[i].src /\ a(i).pos = m.cell[i].pos
                                            /\ (a(i).seqs = {} <=> m.cell[i].seqs = {})
                       /\ i \in freed => a(i) = NoCell
    <2> SUFFICES ASSUME NEW i \in Ids
                 PROVE  /\ a(i) \in Cells
                        /\ a(i).seqs = m.cell[i].seqs \ {dst}
                        /\ i \notin freed => a(i).src = m.cell[i].src /\ a(i).pos = m.cell[i].pos
                                             /\ (a(i).seqs = {} <=> m.cell[i].seqs = {})
                        /\ i \in freed => a(i) = NoCell
      OBVIOUS
    <2>1. m.cell[i] \in Cells
      BY <1>2
    <2>2. CASE i = td
      <3>1. dst \in m.cell[i].seqs
        BY <1>6, <2>2
      <3>2. i \in freed <=> m.cell[i].seqs \subseteq {dst}
        BY <2>2, <3>1, IdsFacts
      <3>3. a(i) = Without(m.cell[i], dst)
        BY <2>2
      <3> HIDE DEF a, freed
      <3> QED  BY <2>1, <3>1, <3>2, <3>3, WithoutFacts
    <2>3. CASE i # td
      <3>1. dst \notin m.cell[i].seqs
        BY <1>6, <2>3
      <3> QED  BY <2>1, <2>3, <3>1
    <2> QED  BY <2>2, <2>3
  <1> HIDE DEF a, n
  <1>8. \A c \in Cells : LET d == [c EXCEPT !.seqs = @ \cup {dst}]
                         IN  /\ d \in Cells /\ d.src = c.src /\ d.pos = c.pos
                             /\ d.seqs = c.seqs \cup {dst}
    BY DEF Cells
  <1>9. \A i \in Ids : /\ n.cell[i] \in Cells
                       /\ n.cell[i].src = a(i).src /\ n.cell[i].pos = a(i).pos
                       /\ n.cell[i].seqs = IF i = ts THEN a(i).seqs \cup {dst} ELSE a(i).seqs
    <2> SUFFICES ASSUME NEW i \in Ids
                 PROVE  /\ n.cell[i] \in Cells
                        /\ n.cell[i].src = a(i).src /\ n.cell[i].pos = a(i).pos
                        /\ n.cell[i].seqs = IF i = ts THEN a(i).seqs \cup {dst} ELSE a(i).seqs
      OBVIOUS
    <2>1. a(i) \in Cells
      BY <1>7
    <2>2. CASE i = ts
      <3>1. n.cell[i] = [a(i) EXCEPT !.seqs = @ \cup {dst}]
        BY <1>5, <2>2
      <3> QED  BY <2>1, <2>2, <3>1, <1>8
    <2>3. CASE i # ts
      <3>1. n.cell[i] = a(i)
        BY <1>5, <2>3
      <3> QED  BY <2>1, <2>3, <3>1
    <2> QED  BY <2>2, <2>3
  <1>10. \A i \in Ids : i = ts => i \notin freed /\ m.cell[i].seqs # {}
    BY <1>6
  <1>11. \A r \in Ids : n.tail[r] = IF r = dst THEN ts ELSE m.tail[r]
    BY <1>3, <1>4
  <1> HIDE DEF freed
  <1>12. TailsExact(n)
    <2> SUFFICES ASSUME NEW r \in Ids, NEW i \in Ids
                 PROVE  r \in n.cell[i].seqs <=> n.tail[r] = i
      BY DEF TailsExact
    <2>1. r \in m.cell[i].seqs <=> m.tail[r] = i
      BY <1>6
    <2>2. r \in a(i).seqs <=> r # dst /\ m.tail[r] = i
      BY <1>7, <2>1
    <2>3. n.tail[r] = IF r = dst THEN ts ELSE m.tail[r]
      BY <1>11
    <2>4. r \in n.cell[i].seqs <=> r \in a(i).seqs \/ (i = ts /\ r = dst)
      BY <1>9, ZenonT(40)
    <2> QED  BY <2>2, <2>3, <2>4
  <1>13. \A i \in Ids : n.cell[i].seqs = {} <=> i \in freed \/ m.cell[i].seqs = {}
    <2> SUFFICES ASSUME NEW i \in Ids
                 PROVE  n.cell[i].seqs = {} <=> i \in freed \/ m.cell[i].seqs = {}
      OBVIOUS
    <2>1. CASE i = ts
      BY <1>9, <1>10, <2>1
    <2>2. CASE i # ts
      BY <1>7, <1>9, <2>2, NoCellFacts
    <2> QED  BY <2>1, <2>2
  <1>14. PosExact(n)
    <2> SUFFICES ASSUME NEW i \in Ids
                 PROVE  n.cell[i].seqs # {} <=> n.cell[i].pos >= 0
      BY DEF PosExact
    <2>1. m.cell[i].seqs # {} <=> m.cell[i].pos >= 0
      BY <1>1 DEF PosExact
    <2>2. n.cell[i].pos = a(i).pos
      BY <1>9
    <2>3. a(i).pos = IF i \in freed THEN -1 ELSE m.cell[i].pos
      BY <1>7, NoCellFacts
    <2> QED  BY <1>13, <2>1, <2>2, <2>3
  <1>15. freed \in SUBSET Ids /\ freed \subseteq Used(m) /\ Used(n) = Used(m) \ freed
    <2>1. \A i \in freed : i \in Ids /\ m.cell[i].seqs # {}
      BY <1>3 DEF freed
    <2>2. \A i : i \in Used(n) <=> i \in Used(m) \ freed
      BY <1>13 DEF Used, is_empty
    <2> QED  BY <2>1, <2>2 DEF Used, is_empty
  <1>16. n.used = Cardinality(Used(n)) /\ n.used \in 0 .. Size
    <2>1. m.used = Cardinality(Used(m))
      BY <1>1
    <2>2. /\ m.used - Cardinality(freed) = Cardinality(Used(n))
          /\ m.used - Cardinality(freed) \in 0 .. Size
      BY <1>15, <2>1, CountRemoved
    <2> QED  BY <1>4, <2>2
  <1>17. n \in Memories
    <2>1. n.cell \in [Ids -> Cells]
      BY <1>4, <1>9
    <2>2. n.tail \in [Ids -> Ids \cup {None}]
      BY <1>3, <1>4
    <2>3. n.head \in Ids /\ n.ok \in BOOLEAN
      BY <1>1, <1>4 DEF Memories
    <2> QED  BY <1>4, <1>16, <2>1, <2>2, <2>3 DEF Memories
  <1>18. InPlace(n) /\ FreeCleared(n, st)
    <2>1. \A i \in Ids : \/ n.cell[i].src = None /\ n.cell[i].seqs = {}
                         \/ /\ n.cell[i].src = m.cell[i].src
                            /\ n.cell[i].seqs = {} <=> m.cell[i].seqs = {}
      <3> SUFFICES ASSUME NEW i \in Ids
                   PROVE  \/ n.cell[i].src = None /\ n.cell[i].seqs = {}
                          \/ /\ n.cell[i].src = m.cell[i].src
                             /\ n.cell[i].seqs = {} <=> m.cell[i].seqs = {}
        OBVIOUS
      <3>1. n.cell[i].src = a(i).src
        BY <1>9
      <3>2. a(i).src = IF i \in freed THEN None ELSE m.cell[i].src
        BY <1>7, NoCellFacts
      <3> QED  BY <1>13, <3>1, <3>2
    <2>2. InPlace(m) /\ FreeCleared(m, st)
      BY DEF Exact
    <2> QED  BY <2>1, <2>2, IdsFacts DEF InPlace, FreeCleared
  <1>19. StatesExact(n, st, [tx EXCEPT ![dst] = tx[src]])
    <2>1. \A r \in Ids : [tx EXCEPT ![dst] = tx[src]][r] = IF r = dst THEN tx[src] ELSE tx[r]
      OBVIOUS
    <2>2. StatesExact(m, st, tx)
      BY DEF Exact
    <2> QED  BY <1>11, <2>1, <2>2 DEF StatesExact
  <1> QED  BY <1>1, <1>4, <1>12, <1>14, <1>16, <1>17, <1>18, <1>19 DEF Consistent, Exact, n

-----------------------------------------------------------------------------
(***************************************************************************)
(* find_slot(), stage by stage.  D are the sequences that share a token and *)
(* are not its first: they have no cell.  X are the first sequences that    *)
(* were placed: each is alone in its cell, and one that was new has a cell  *)
(* that does not name it yet.                                               *)
(***************************************************************************)
UbatchOK(u) ==
    /\ Len(u) \in 1 .. Size /\ DOMAIN u = 1 .. Len(u)
    /\ \A k \in 1 .. Len(u) : /\ First(u, k) \in Range(u[k].ids)
                              /\ Range(u[k].ids) \subseteq Ids
                              /\ u[k].last \in 0 .. MaxPos
    /\ \A j, k \in 1 .. Len(u) : j # k => Range(u[j].ids) \cap Range(u[k].ids) = {}

Firsts(u, n) == {First(u, j) : j \in 1 .. n}

TailsStaged(m, D, X) ==
    /\ \A s, i \in Ids : s \in m.cell[i].seqs => m.tail[s] = i
    /\ \A s \in Ids : m.tail[s] # None =>
            \/ s \in m.cell[m.tail[s]].seqs
            \/ s \in X /\ m.cell[m.tail[s]].seqs = {}
    /\ \A s \in D : m.tail[s] = None
    /\ \A s \in X : m.tail[s] # None /\ \A r \in Ids \ {s} : m.tail[r] # m.tail[s]

(* src of a cell is where its state is. *)
StatesStaged(m, D, st, tx) ==
    /\ \A s \in Ids : m.tail[s] # None =>
            LET c == m.cell[m.tail[s]].src
            IN  IF c = None THEN tx[s] = Empty ELSE Agrees(st[c], tx[s])
    /\ \A s \in Ids \ D : m.tail[s] = None => tx[s] = Empty
    /\ \A i \in Ids : LET c == m.cell[i].src
                      IN  m.cell[i].seqs = {} /\ c # None => Fresh(st[c])

Staged(m, D, X, st, tx) ==
    /\ m \in Stages /\ m.ok
    /\ TailsStaged(m, D, X) /\ PosExact(m) /\ StatesStaged(m, D, st, tx)

(* The cells outside C still have their own states. *)
Frame(m, C) == \A i \in Ids \ C :
    /\ m.cell[i].src \in {None, i}
    /\ m.cell[i].seqs # {} => m.cell[i].src = i

LEMMA FirstsFacts ==
    ASSUME NEW u, UbatchOK(u)
    PROVE  /\ Len(u) \in Nat /\ Len(u) >= 1 /\ Len(u) <= Size
           /\ \A k \in 1 .. Len(u) : First(u, k) \in Ids \ Later(u)
           /\ \A j, k \in 1 .. Len(u) : First(u, j) = First(u, k) => j = k
           /\ Later(u) \subseteq Ids
           /\ Firsts(u, 0) = {}
           /\ \A k \in 1 .. Len(u) : /\ Firsts(u, k) = Firsts(u, k - 1) \cup {First(u, k)}
                                     /\ First(u, k) \notin Firsts(u, k - 1)
                                     /\ Firsts(u, k) \subseteq Ids
  <1>1. Len(u) \in Nat /\ Len(u) >= 1 /\ Len(u) <= Size
    BY IdsFacts DEF UbatchOK
  <1>2. \A k \in 1 .. Len(u) : First(u, k) \in Range(u[k].ids) /\ Range(u[k].ids) \subseteq Ids
    BY DEF UbatchOK
  <1>3. \A j, k \in 1 .. Len(u) : j # k => Range(u[j].ids) \cap Range(u[k].ids) = {}
    BY DEF UbatchOK
  <1>4. \A j, k \in 1 .. Len(u) : First(u, j) = First(u, k) => j = k
    BY <1>2, <1>3
  <1>5. ASSUME NEW s \in Later(u)
        PROVE  \E k \in 1 .. Len(u) : s \in Range(u[k].ids) /\ s # First(u, k)
    BY DEF Later, UbatchOK
  <1>6. Later(u) \subseteq Ids
    BY <1>2, <1>5
  <1>7. ASSUME NEW k \in 1 .. Len(u)  PROVE First(u, k) \in Ids \ Later(u)
    <2>1. SUFFICES ASSUME First(u, k) \in Later(u)  PROVE FALSE
      BY <1>2
    <2>2. PICK j \in 1 .. Len(u) : First(u, k) \in Range(u[j].ids) /\ First(u, k) # First(u, j)
      BY <1>5, <2>1
    <2> QED  BY <1>2, <1>3, <2>2
  <1>8. Firsts(u, 0) = {}
    BY DEF Firsts
  <1>9. ASSUME NEW k \in 1 .. Len(u)
        PROVE  /\ Firsts(u, k) = Firsts(u, k - 1) \cup {First(u, k)}
               /\ First(u, k) \notin Firsts(u, k - 1)
               /\ Firsts(u, k) \subseteq Ids
    <2>1. k \in Nat /\ k >= 1 /\ k <= Len(u)
      BY <1>1
    <2>2. \A j : j \in 1 .. k <=> j \in 1 .. k - 1 \/ j = k
      BY <2>1
    <2>3. \A s : s \in Firsts(u, k) <=> s \in Firsts(u, k - 1) \cup {First(u, k)}
      BY <2>2 DEF Firsts
    <2>4. \A j \in 1 .. k - 1 : First(u, j) # First(u, k)
      BY <1>4, <2>1
    <2>5. First(u, k) \notin Firsts(u, k - 1)
      BY <2>4 DEF Firsts
    <2>6. \A j \in 1 .. k : j \in 1 .. Len(u)
      BY <2>1, <1>1
    <2>7. Firsts(u, k) \subseteq Ids
      BY <2>6, <1>7 DEF Firsts
    <2> QED  BY <2>3, <2>5, <2>7
  <1> QED  BY <1>1, <1>4, <1>6, <1>7, <1>8, <1>9

(* The sequences of D leave their cells. *)
LEMMA DetachedStaged ==
    ASSUME NEW m, Consistent(m), NEW st, NEW tx, Exact(m, st, tx),
           NEW D \in SUBSET Ids, NEW h \in Ids
    PROVE  LET n == Detached([m EXCEPT !.head = h], D)
           IN  Staged(n, D, {}, st, tx) /\ Frame(n, {}) /\ n.head = h
  <1> DEFINE left(i) == {s \in D : m.tail[s] = i}
             freed   == {i \in Ids : left(i) # {} /\ m.cell[i].seqs \subseteq left(i)}
             new     == [i \in Ids |-> IF i \in freed THEN NoCell
                                ELSE [m.cell[i] EXCEPT !.seqs = @ \ left(i)]]
             tail    == [s \in Ids |-> IF s \in D THEN None ELSE m.tail[s]]
             n       == Detached([m EXCEPT !.head = h], D)
  <1>1. m \in Memories /\ m.ok /\ TailsExact(m) /\ PosExact(m)
    BY DEF Consistent
  <1>2. m.cell \in [Ids -> Cells] /\ (\A i \in Ids : m.cell[i] \in Cells)
        /\ m.tail \in [Ids -> Ids \cup {None}] /\ m.used \in Int /\ m.ok \in BOOLEAN
    BY <1>1 DEF Memories
  <1>3. n = [cell |-> new, tail |-> tail, head |-> h,
             used |-> m.used - Cardinality(freed), ok |-> m.ok]
    <2>1. m = [cell |-> m.cell, tail |-> m.tail, head |-> m.head, used |-> m.used, ok |-> m.ok]
      BY <1>1 DEF Memories
    <2>2. [m EXCEPT !.head = h]
            = [cell |-> m.cell, tail |-> m.tail, head |-> h, used |-> m.used, ok |-> m.ok]
      BY <2>1
    <2> DEFINE mh == [m EXCEPT !.head = h]
    <2>3. mh.cell = m.cell /\ mh.tail = m.tail
      BY <2>2
    <2> DEFINE hleft(i) == {s \in D : mh.tail[s] = i}
               hfreed   == {i \in Ids : hleft(i) # {} /\ mh.cell[i].seqs \subseteq hleft(i)}
               hnew     == [i \in Ids |-> IF i \in hfreed THEN NoCell
                                ELSE [mh.cell[i] EXCEPT !.seqs = @ \ hleft(i)]]
               htail    == [s \in Ids |-> IF s \in D THEN None ELSE mh.tail[s]]
    <2>4. n = [mh EXCEPT !.cell = hnew, !.tail = htail, !.used = @ - Cardinality(hfreed)]
      BY DEF Detached
    <2> HIDE DEF mh
    <2>5. hnew = new /\ htail = tail /\ hfreed = freed
      BY <2>3
    <2>6. mh = [cell |-> m.cell, tail |-> m.tail, head |-> h, used |-> m.used, ok |-> m.ok]
      BY <2>2 DEF mh
    <2> HIDE DEF hnew, htail, hfreed, new, tail, freed, n
    <2> QED  BY <2>4, <2>5, <2>6
  <1>4. Cardinality(freed) \in Int
    <2>1. freed \in SUBSET Ids
      OBVIOUS
    <2> HIDE DEF freed
    <2> QED  BY <2>1, IdsFacts
  <1>5. \A r, i \in Ids : r \in m.cell[i].seqs <=> m.tail[r] = i
    BY <1>1 DEF TailsExact
  <1>6. \A i \in Ids : left(i) \subseteq m.cell[i].seqs
    BY <1>5
  <1>7. \A i \in Ids : i \in freed => new[i] = NoCell /\ m.cell[i].seqs \ left(i) = {}
    OBVIOUS
  <1>8. \A i \in Ids : i \notin freed =>
            /\ new[i] \in Cells /\ new[i].seqs = m.cell[i].seqs \ left(i)
            /\ new[i].src = m.cell[i].src /\ new[i].pos = m.cell[i].pos
            /\ new[i].seqs = {} <=> m.cell[i].seqs = {}
    <2> SUFFICES ASSUME NEW i \in Ids, i \notin freed
                 PROVE  /\ new[i] \in Cells /\ new[i].seqs = m.cell[i].seqs \ left(i)
                        /\ new[i].src = m.cell[i].src /\ new[i].pos = m.cell[i].pos
                        /\ new[i].seqs = {} <=> m.cell[i].seqs = {}
      OBVIOUS
    <2>1. new[i] = [m.cell[i] EXCEPT !.seqs = @ \ left(i)] /\ m.cell[i] \in Cells
      BY <1>2
    <2>2. ~(left(i) # {} /\ m.cell[i].seqs \subseteq left(i))
      OBVIOUS
    <2>3. left(i) \subseteq m.cell[i].seqs
      BY <1>6
    <2> HIDE DEF new, left, freed
    <2>4. /\ new[i] \in Cells /\ new[i].seqs = m.cell[i].seqs \ left(i)
          /\ new[i].src = m.cell[i].src /\ new[i].pos = m.cell[i].pos
      BY <2>1 DEF Cells
    <2> QED  BY <2>2, <2>3, <2>4
  <1>9. \A i \in Ids : new[i] \in Cells /\ new[i].seqs = m.cell[i].seqs \ left(i)
    <2> HIDE DEF new, freed, left
    <2> QED  BY <1>7, <1>8, NoCellFacts
  <1>10. \A s \in Ids : tail[s] = IF s \in D THEN None ELSE m.tail[s]
    OBVIOUS
  <1>11. \A s, i \in Ids : s \in new[i].seqs <=> tail[s] = i
    <2> SUFFICES ASSUME NEW s \in Ids, NEW i \in Ids
                 PROVE  s \in new[i].seqs <=> tail[s] = i
      OBVIOUS
    <2>1. s \in new[i].seqs <=> s \in m.cell[i].seqs /\ s \notin left(i)
      BY <1>9
    <2>2. s \in left(i) <=> s \in D /\ m.tail[s] = i
      OBVIOUS
    <2>3. s \in m.cell[i].seqs <=> m.tail[s] = i
      BY <1>5
    <2>4. tail[s] = IF s \in D THEN None ELSE m.tail[s]
      BY <1>10
    <2> HIDE DEF new, tail, left
    <2> QED  BY <2>1, <2>2, <2>3, <2>4, IdsFacts
  <1>12. new \in [Ids -> Cells] /\ tail \in [Ids -> Ids \cup {None}]
    <2>1. new \in [Ids -> Cells]
      BY <1>9
    <2>2. tail \in [Ids -> Ids \cup {None}]
      BY <1>2
    <2> QED  BY <2>1, <2>2
  <1> HIDE DEF new, tail, freed, left, n
  <1>13. n \in Stages /\ n.ok /\ n.head = h
    BY <1>1, <1>2, <1>3, <1>4, <1>12 DEF Stages
  <1>14. n.cell = new /\ n.tail = tail
    BY <1>3
  <1>15. TailsStaged(n, D, {})
    <2>1. \A s \in Ids : tail[s] # None => tail[s] \in Ids
      BY <1>12
    <2> QED  BY <1>10, <1>11, <1>14, <2>1 DEF TailsStaged
  <1>16. PosExact(n)
    <2> SUFFICES ASSUME NEW i \in Ids
                 PROVE  new[i].seqs # {} <=> new[i].pos >= 0
      BY <1>14 DEF PosExact
    <2>1. m.cell[i].seqs # {} <=> m.cell[i].pos >= 0
      BY <1>1 DEF PosExact
    <2> QED  BY <1>7, <1>8, <2>1, NoCellFacts
  <1>17. Frame(n, {})
    <2>1. InPlace(m)
      BY DEF Exact
    <2>2. \A i \in Ids : m.cell[i].src \in {None, i} /\ (m.cell[i].seqs # {} => m.cell[i].src = i)
      BY <2>1 DEF InPlace
    <2> QED  BY <1>7, <1>8, <1>14, <2>2, NoCellFacts DEF Frame
  <1>18. StatesStaged(n, D, st, tx)
    <2>1. InPlace(m) /\ FreeCleared(m, st) /\ StatesExact(m, st, tx)
      BY DEF Exact
    <2>2. ASSUME NEW s \in Ids, tail[s] # None
          PROVE  /\ new[tail[s]].src = tail[s] /\ tail[s] # None
                 /\ Agrees(st[tail[s]], tx[s])
      <3>1. tail[s] \in Ids /\ tail[s] = m.tail[s] /\ s \in new[tail[s]].seqs
        BY <1>10, <1>11, <1>12, <2>2
      <3>2. tail[s] \notin freed /\ m.cell[tail[s]].seqs # {}
        BY <1>7, <1>9, <3>1, NoCellFacts
      <3>3. new[tail[s]].src = tail[s]
        BY <1>8, <2>1, <3>1, <3>2 DEF InPlace
      <3>4. Agrees(st[m.tail[s]], tx[s])
        BY <2>1, <2>2, <3>1 DEF StatesExact
      <3> QED  BY <2>2, <3>1, <3>3, <3>4
    <2>3. ASSUME NEW s \in Ids \ D, tail[s] = None  PROVE tx[s] = Empty
      <3>1. m.tail[s] = None
        BY <1>10, <2>3
      <3> QED  BY <2>1, <3>1 DEF StatesExact
    <2>4. ASSUME NEW i \in Ids, new[i].seqs = {}, new[i].src # None
          PROVE  Fresh(st[new[i].src])
      <3>1. i \notin freed
        BY <1>7, <2>4, NoCellFacts
      <3>2. m.cell[i].seqs = {} /\ new[i].src = m.cell[i].src
        BY <1>8, <2>4, <3>1
      <3>3. m.cell[i].src = i
        BY <2>1, <2>4, <3>2 DEF InPlace
      <3> QED  BY <2>1, <3>2, <3>3 DEF FreeCleared
    <2> QED  BY <1>14, <2>2, <2>3, <2>4 DEF StatesStaged
  <1>19. Staged(n, D, {}, st, tx)
    BY <1>13, <1>15, <1>16, <1>18 DEF Staged
  <1> QED  BY <1>13, <1>17, <1>19 DEF n

(* Cells further on from i, going round. *)
Ahead(i, j) == IF j >= i THEN j - i ELSE (j - i) + Size

LEMMA AheadFacts ==
    /\ \A i \in 0 .. Size, j \in Ids : /\ Ahead(i, j) \in 0 .. Size - 1
                                       /\ Wrapped(i + Ahead(i, j)) = j
    /\ \A i \in 0 .. Size, k \in 0 .. Size - 1 : /\ Wrapped(i + k) \in Ids
                                                 /\ Ahead(i, Wrapped(i + k)) = k
    /\ \A h, e, i \in Ids : i # e =>
            Ahead(e + 1, i) = IF Ahead(h, i) > Ahead(h, e)
                              THEN (Ahead(h, i) - Ahead(h, e)) - 1
                              ELSE ((Ahead(h, i) - Ahead(h, e)) - 1) + Size
    /\ \A h, i, j \in Ids : Ahead(h, i) = Ahead(h, j) => i = j
  <1>1. Size \in Nat /\ Size >= 1 /\ Ids = 0 .. Size - 1
    BY IdsFacts DEF Ids
  <1>2. ASSUME NEW i \in 0 .. Size, NEW j \in Ids
        PROVE  Ahead(i, j) \in 0 .. Size - 1 /\ Wrapped(i + Ahead(i, j)) = j
    BY <1>1 DEF Ahead, Wrapped
  <1>3. ASSUME NEW i \in 0 .. Size, NEW k \in 0 .. Size - 1
        PROVE  Wrapped(i + k) \in Ids /\ Ahead(i, Wrapped(i + k)) = k
    BY <1>1 DEF Ahead, Wrapped
  <1>4. ASSUME NEW h \in Ids, NEW e \in Ids, NEW i \in Ids, i # e
        PROVE  Ahead(e + 1, i) = IF Ahead(h, i) > Ahead(h, e)
                              THEN (Ahead(h, i) - Ahead(h, e)) - 1
                              ELSE ((Ahead(h, i) - Ahead(h, e)) - 1) + Size
    BY <1>1, <1>4 DEF Ahead
  <1>5. ASSUME NEW h \in Ids, NEW i \in Ids, NEW j \in Ids, Ahead(h, i) = Ahead(h, j)
        PROVE  i = j
    BY <1>1, <1>5 DEF Ahead
  <1> QED  BY <1>2, <1>3, <1>4, <1>5

LEMMA NextEmptyFacts ==
    ASSUME NEW m, NEW i \in 0 .. Size
    PROVE  /\ NextEmpty(m, i) \in Ids
           /\ \A j \in Ids : m.cell[j].seqs = {} =>
                /\ m.cell[NextEmpty(m, i)].seqs = {}
                /\ Ahead(i, NextEmpty(m, i)) <= Ahead(i, j)
  <1> DEFINE free == {k \in 0 .. Size - 1 : is_empty(m.cell[Wrapped(i + k)])}
             d    == IF free = {} THEN 0 ELSE MinOf(free)
  <1>1. NextEmpty(m, i) = Wrapped(i + d)
    BY DEF NextEmpty
  <1>2. free # {} => d \in free /\ \A k \in free : d <= k
    <2>1. free \in SUBSET Nat
      BY IdsFacts
    <2> HIDE DEF free
    <2> QED  BY <2>1, MinFacts
  <1>3. \A k \in free : k \in 0 .. Size - 1 /\ is_empty(m.cell[Wrapped(i + k)])
    OBVIOUS
  <1>4. ASSUME NEW j \in Ids, m.cell[j].seqs = {}  PROVE Ahead(i, j) \in free
    <2>1. Ahead(i, j) \in 0 .. Size - 1 /\ Wrapped(i + Ahead(i, j)) = j
      BY AheadFacts
    <2> QED  BY <1>4, <2>1 DEF is_empty
  <1> HIDE DEF free
  <1>5. d \in 0 .. Size - 1
    BY <1>2, <1>3, IdsFacts
  <1> HIDE DEF d
  <1>6. Wrapped(i + d) \in Ids /\ Ahead(i, Wrapped(i + d)) = d
    BY <1>5, AheadFacts
  <1>7. ASSUME NEW j \in Ids, m.cell[j].seqs = {}
        PROVE  m.cell[NextEmpty(m, i)].seqs = {} /\ Ahead(i, NextEmpty(m, i)) <= Ahead(i, j)
    <2>1. Ahead(i, j) \in free
      BY <1>4, <1>7
    <2>2. d \in free /\ d <= Ahead(i, j)
      BY <1>2, <2>1
    <2>3. is_empty(m.cell[Wrapped(i + d)])
      BY <1>3, <2>2
    <2> QED  BY <1>1, <1>6, <2>2, <2>3 DEF is_empty
  <1> QED  BY <1>1, <1>6, <1>7

(* "everything should fit if all seq_ids are smaller than the max": when a    *)
(* sequence is not alone in a cell, there is a cell that no sequence has.     *)
LEMMA FreeCell ==
    ASSUME NEW tail \in [Ids -> Ids \cup {None}], NEW s \in Ids,
           tail[s] = None \/ \E r \in Ids \ {s} : tail[r] = tail[s]
    PROVE  \E i \in Ids : \A r \in Ids : tail[r] # i
  <1> SUFFICES ASSUME \A i \in Ids : \E r \in Ids : tail[r] = i
               PROVE  FALSE
    OBVIOUS
  <1> DEFINE T == Ids \ {s}
             f == [i \in Ids |-> CHOOSE r \in T : tail[r] = i]
  <1>1. ASSUME NEW i \in Ids  PROVE \E r \in T : tail[r] = i
    <2>1. PICK r \in Ids : tail[r] = i
      OBVIOUS
    <2>2. CASE r = s
      BY <2>1, <2>2, IdsFacts
    <2> QED  BY <2>1, <2>2
  <1>2. \A i \in Ids : f[i] \in T /\ tail[f[i]] = i
    BY <1>1
  <1>3. f \in [Ids -> T]
    BY <1>2
  <1>4. IsFiniteSet(Ids) /\ IsFiniteSet(T) /\ Cardinality(T) < Cardinality(Ids)
    BY IdsFacts, FS_RemoveElement
  <1> HIDE DEF f, T
  <1>5. PICK i, j \in Ids : i # j /\ f[i] = f[j]
    BY <1>3, <1>4, FS_PigeonHole
  <1> QED  BY <1>2, <1>5

(* Free cells that no sequence was given yet. *)
Unclaimed(m) == {i \in Ids : m.cell[i].seqs = {} /\ \A s \in Ids : m.tail[s] # i}

LEMMA OwnsFacts ==
    ASSUME NEW m, NEW D, NEW X, m \in Stages, TailsStaged(m, D, X),
           NEW s \in Ids, s \notin X
    PROVE  /\ Held(m, s)
           /\ Owns(m, s) => m.tail[s] \in Ids /\ \A r \in Ids \ {s} : m.tail[r] # m.tail[s]
           /\ ~Owns(m, s) => \/ m.tail[s] = None
                             \/ /\ m.tail[s] \in Ids
                                /\ m.cell[m.tail[s]].seqs \ {s} # {}
                                /\ \E r \in Ids \ {s} : m.tail[r] = m.tail[s]
  <1> DEFINE t == m.tail[s]
  <1>1. m.tail \in [Ids -> Ids \cup {None}] /\ m.cell \in [Ids -> Cells]
    BY DEF Stages
  <1>2. t # None => t \in Ids /\ s \in m.cell[t].seqs /\ m.cell[t].seqs \in SUBSET Ids
    BY <1>1 DEF TailsStaged, Cells
  <1>3. Held(m, s)
    BY <1>2 DEF Held
  <1>4. ASSUME Owns(m, s)  PROVE t \in Ids /\ \A r \in Ids \ {s} : m.tail[r] # t
    <2>1. t \in Ids /\ s \in m.cell[t].seqs /\ Cardinality(m.cell[t].seqs) = 1
      BY <1>2, <1>4 DEF Owns
    <2>2. IsFiniteSet(m.cell[t].seqs)
      BY <1>2, <2>1, IdsFacts
    <2>3. PICK x : m.cell[t].seqs = {x}
      BY <2>1, <2>2, FS_Singleton
    <2>4. m.cell[t].seqs = {s}
      BY <2>1, <2>3
    <2>5. ASSUME NEW r \in Ids \ {s}, m.tail[r] = t  PROVE FALSE
      <3>1. t # None
        BY <2>1, IdsFacts
      <3>2. r \in m.cell[t].seqs \/ m.cell[t].seqs = {}
        BY <2>5, <3>1 DEF TailsStaged
      <3> QED  BY <2>4, <3>2
    <2> QED  BY <2>1, <2>5
  <1>5. ASSUME ~Owns(m, s), t # None
        PROVE  t \in Ids /\ m.cell[t].seqs \ {s} # {} /\ \E r \in Ids \ {s} : m.tail[r] = t
    <2>1. t \in Ids /\ s \in m.cell[t].seqs /\ Cardinality(m.cell[t].seqs) # 1
      BY <1>2, <1>5 DEF Owns
    <2>2. m.cell[t].seqs # {s}
      BY <2>1, FS_Singleton
    <2>3. PICK r \in m.cell[t].seqs : r # s
      BY <2>1, <2>2
    <2>4. r \in Ids
      <3>1. m.cell[t] \in Cells
        BY <1>1, <2>1
      <3>2. m.cell[t].seqs \in SUBSET Ids
        BY <3>1 DEF Cells
      <3> QED  BY <2>3, <3>2
    <2>5. m.tail[r] = t
      BY <2>1, <2>3, <2>4 DEF TailsStaged
    <2> QED  BY <2>1, <2>3, <2>4, <2>5
  <1> QED  BY <1>3, <1>4, <1>5

(* What MovedTo writes into two cells. *)
LEMMA TwoCells ==
    ASSUME NEW m, NEW e, NEW t, NEW x, NEW S,
           [m.cell EXCEPT ![e] = x][t] = m.cell[t],
           m = [cell |-> m.cell, tail |-> m.tail, head |-> m.head, used |-> m.used, ok |-> m.ok]
    PROVE  LET c1 == [m.cell EXCEPT ![e] = x]
           IN  [m EXCEPT !.cell[e] = x, !.cell[t].seqs = @ \ S]
                = [cell |-> [c1 EXCEPT ![t] = [c1[t] EXCEPT !.seqs = @ \ S]],
                   tail |-> m.tail, head |-> m.head, used |-> m.used, ok |-> m.ok]
  <1> DEFINE c1 == [m.cell EXCEPT ![e] = x]
             k  == [m EXCEPT !.cell = c1]
             c2 == [c1 EXCEPT ![t] = [c1[t] EXCEPT !.seqs = @ \ S]]
  <1>1. k = [cell |-> c1, tail |-> m.tail, head |-> m.head, used |-> m.used, ok |-> m.ok]
    <2> HIDE DEF c1
    <2> QED OBVIOUS
  <1>2. [m EXCEPT !.cell[e] = x] = k
    OBVIOUS
  <1>3. [k EXCEPT !.cell[t].seqs = m.cell[t].seqs \ S] = [k EXCEPT !.cell = c2]
    <2>1. c1[t] = m.cell[t]
      OBVIOUS
    <2> HIDE DEF c1, k
    <2>2. k.cell = c1
      BY <1>1
    <2> QED BY <2>1, <2>2
  <1>4. [k EXCEPT !.cell = c2] = [cell |-> c2, tail |-> m.tail, head |-> m.head, used |-> m.used, ok |-> m.ok]
    <2> HIDE DEF c1, k, c2
    <2> QED BY <1>1
  <1>5. [m EXCEPT !.cell[e] = x, !.cell[t].seqs = @ \ S] = [[m EXCEPT !.cell[e] = x] EXCEPT !.cell[t].seqs = m.cell[t].seqs \ S]
    OBVIOUS
  <1> DEFINE g == [m EXCEPT !.cell[e] = x, !.cell[t].seqs = @ \ S]
  <1>6. g = [k EXCEPT !.cell[t].seqs = m.cell[t].seqs \ S]
    BY <1>2, <1>5
  <1>7. g = [cell |-> c2, tail |-> m.tail, head |-> m.head, used |-> m.used, ok |-> m.ok]
    <2> HIDE DEF g, k, c2
    <2> QED BY <1>3, <1>4, <1>6
  <1> QED BY <1>7

(* Only the cell e, which was empty, may have become one that is in use. *)
OneMoved(m, n, s, e) ==
    /\ n.tail = [m.tail EXCEPT ![s] = e]
    /\ \A i \in Ids \ {e} : n.cell[i].seqs = {} <=> m.cell[i].seqs = {}

(* A sequence that is not alone, or has no cell, is moved to a free one.     *)
LEMMA MovedToStaged ==
    ASSUME NEW m, NEW D, NEW X \in SUBSET Ids, NEW st, NEW tx, NEW C \in SUBSET Ids,
           Staged(m, D, X, st, tx), Frame(m, C),
           NEW s \in Ids, s \notin X, s \notin D,
           NEW e \in Unclaimed(m), ~Owns(m, s)
    PROVE  /\ Staged(MovedTo(m, s, e), D, X \cup {s}, st, tx)
           /\ Frame(MovedTo(m, s, e), C \cup {e})
           /\ OneMoved(m, MovedTo(m, s, e), s, e)
  <1> DEFINE t == m.tail[s]
             n == MovedTo(m, s, e)
             new(i) == IF t = None THEN m.cell[i]
                       ELSE IF i = e THEN [m.cell[t] EXCEPT !.seqs = {s}]
                       ELSE IF i = t THEN [m.cell[t] EXCEPT !.seqs = @ \ {s}]
                       ELSE m.cell[i]
  <1>1. /\ m \in Stages /\ m.ok
        /\ TailsStaged(m, D, X) /\ PosExact(m) /\ StatesStaged(m, D, st, tx)
    BY DEF Staged
  <1>2. /\ m.cell \in [Ids -> Cells] /\ m.tail \in [Ids -> Ids \cup {None}]
        /\ \A i \in Ids : m.cell[i] \in Cells
        /\ m.head \in Ids /\ m.used \in Int /\ m.ok = TRUE
    BY <1>1 DEF Stages
  <1>3. e \in Ids /\ m.cell[e].seqs = {} /\ \A r \in Ids : m.tail[r] # e
    BY DEF Unclaimed
  <1>4. Held(m, s)
    BY <1>1, OwnsFacts
  <1>5. t # None => /\ t \in Ids /\ m.cell[t].seqs \ {s} # {} /\ s \in m.cell[t].seqs
                    /\ t # e
    <2>1. t # None => t \in Ids /\ m.cell[t].seqs \ {s} # {}
      BY <1>1, OwnsFacts
    <2>2. t # None => s \in m.cell[t].seqs
      BY <1>1 DEF TailsStaged
    <2> QED  BY <1>3, <2>1, <2>2
  <1>6. n = [cell |-> [i \in Ids |-> new(i)], tail |-> [m.tail EXCEPT ![s] = e],
             head |-> m.head, used |-> m.used, ok |-> TRUE]
    <2> DEFINE m1 == IF t = None THEN m
                     ELSE [m EXCEPT !.cell[e] = [m.cell[t] EXCEPT !.seqs = {s}],
                                    !.cell[t].seqs = @ \ {s}]
               ok == m1.ok /\ Held(m, s) /\ is_empty(m.cell[e])
                           /\ (t = None \/ m.cell[t].seqs # {s})
    <2>1. m = [cell |-> m.cell, tail |-> m.tail, head |-> m.head, used |-> m.used, ok |-> TRUE]
      BY <1>1, <1>2 DEF Stages
    <2>2. m1 = [cell |-> [i \in Ids |-> new(i)], tail |-> m.tail, head |-> m.head,
                used |-> m.used, ok |-> TRUE]
      <3>1. CASE t = None
        <4>1. [i \in Ids |-> new(i)] = m.cell
          BY <1>2, <3>1
        <4> HIDE DEF new
        <4> QED  BY <2>1, <3>1, <4>1
      <3>2. CASE t # None
        <4> DEFINE c1 == [m.cell EXCEPT ![e] = [m.cell[t] EXCEPT !.seqs = {s}]]
                   c2 == [c1 EXCEPT ![t] = [c1[t] EXCEPT !.seqs = @ \ {s}]]
        <4>1. c1[t] = m.cell[t]
          BY <1>2, <1>5, <3>2
        <4>2. c2 = [i \in Ids |-> new(i)]
          BY <1>2, <1>3, <1>5, <3>2, <4>1
        <4>3. m1 = [m EXCEPT !.cell[e] = [m.cell[t] EXCEPT !.seqs = {s}],
                             !.cell[t].seqs = @ \ {s}]
          BY <3>2
        <4>4. m1 = [cell |-> c2, tail |-> m.tail, head |-> m.head, used |-> m.used, ok |-> m.ok]
          <5> DEFINE x == [m.cell[t] EXCEPT !.seqs = {s}]
          <5>1. m = [cell |-> m.cell, tail |-> m.tail, head |-> m.head, used |-> m.used, ok |-> m.ok]
            BY <1>1 DEF Stages
          <5>2. [m.cell EXCEPT ![e] = x][t] = m.cell[t]
            BY <4>1
          <5>3. m1 = [m EXCEPT !.cell[e] = x, !.cell[t].seqs = @ \ {s}]
            BY <4>3
          <5>4. c2 = [[m.cell EXCEPT ![e] = x] EXCEPT
                        ![t] = [[m.cell EXCEPT ![e] = x][t] EXCEPT !.seqs = @ \ {s}]]
            OBVIOUS
          <5> HIDE DEF x, m1, t, c2
          <5> QED  BY <5>1, <5>2, <5>3, <5>4, TwoCells
        <4> HIDE DEF c2, new, m1
        <4> QED  BY <1>2, <4>2, <4>4
      <3> QED  BY <3>1, <3>2
    <2>3. n = [m1 EXCEPT !.tail[s] = e, !.ok = ok]
      BY DEF MovedTo
    <2>4. ok = TRUE
      <3>1. m1.ok = TRUE
        <4> HIDE DEF m1, new
        <4> QED  BY <2>2
      <3>2. t = None \/ m.cell[t].seqs # {s}
        BY <1>5
      <3> HIDE DEF m1
      <3> QED  BY <1>3, <1>4, <3>1, <3>2 DEF is_empty
    <2> HIDE DEF m1, ok, n, new
    <2> QED  BY <2>2, <2>3, <2>4
  <1>7. \A i \in Ids : n.cell[i] = new(i)
    BY <1>6
  <1>8. n.tail = [m.tail EXCEPT ![s] = e] /\ n.ok
        /\ \A r \in Ids : n.tail[r] = IF r = s THEN e ELSE m.tail[r]
    <2>1. n.tail = [m.tail EXCEPT ![s] = e] /\ n.ok = TRUE
      <3> HIDE DEF new, n
      <3> QED  BY <1>6
    <2> QED  BY <1>2, <2>1
  <1>9. \A c \in Cells : \A S \in SUBSET Ids :
            LET d == [c EXCEPT !.seqs = S]
            IN  d \in Cells /\ d.seqs = S /\ d.src = c.src /\ d.pos = c.pos
    BY DEF Cells
  <1>10. \A i \in Ids : new(i) \in Cells
            /\ new(i).seqs = (IF t = None THEN m.cell[i].seqs
                              ELSE IF i = e THEN {s}
                              ELSE IF i = t THEN m.cell[i].seqs \ {s} ELSE m.cell[i].seqs)
            /\ new(i).src = (IF t # None /\ i = e THEN m.cell[t].src ELSE m.cell[i].src)
            /\ new(i).pos = (IF t # None /\ i = e THEN m.cell[t].pos ELSE m.cell[i].pos)
    <2> SUFFICES ASSUME NEW i \in Ids
                 PROVE  new(i) \in Cells
            /\ new(i).seqs = (IF t = None THEN m.cell[i].seqs
                              ELSE IF i = e THEN {s}
                              ELSE IF i = t THEN m.cell[i].seqs \ {s} ELSE m.cell[i].seqs)
            /\ new(i).src = (IF t # None /\ i = e THEN m.cell[t].src ELSE m.cell[i].src)
            /\ new(i).pos = (IF t # None /\ i = e THEN m.cell[t].pos ELSE m.cell[i].pos)
      OBVIOUS
    <2>1. CASE t = None
      BY <1>2, <2>1
    <2>2. CASE t # None /\ i = e
      <3>1. m.cell[t] \in Cells /\ {s} \in SUBSET Ids
        BY <1>2, <1>5, <2>2
      <3>2. new(i) = [m.cell[t] EXCEPT !.seqs = {s}]
        BY <2>2
      <3> HIDE DEF new, t
      <3> QED  BY <1>9, <2>2, <3>1, <3>2
    <2>3. CASE t # None /\ i = t /\ i # e
      <3>1. m.cell[i] \in Cells /\ m.cell[i].seqs \ {s} \in SUBSET Ids
        <4>1. m.cell[i] \in Cells
          BY <1>2
        <4> QED  BY <4>1 DEF Cells
      <3>2. new(i) = [m.cell[i] EXCEPT !.seqs = m.cell[i].seqs \ {s}]
        BY <2>3
      <3> HIDE DEF new, t
      <3> QED  BY <1>9, <2>3, <3>1, <3>2
    <2>4. CASE t # None /\ i # t /\ i # e
      BY <1>2, <2>4
    <2> QED  BY <2>1, <2>2, <2>3, <2>4
  <1> HIDE DEF new, n
  <1>11. n \in Stages
    <2>1. [i \in Ids |-> new(i)] \in [Ids -> Cells]
      BY <1>10
    <2>2. [m.tail EXCEPT ![s] = e] \in [Ids -> Ids \cup {None}]
      BY <1>2, <1>3
    <2> QED  BY <1>2, <1>6, <2>1, <2>2 DEF Stages
  <1>12. \A i \in Ids \ {e} : n.cell[i].seqs = {} <=> m.cell[i].seqs = {}
    BY <1>5, <1>7, <1>10
  <1>13. \A r, i \in Ids : r \in m.cell[i].seqs => m.tail[r] = i
    BY <1>1 DEF TailsStaged
  <1>14. TailsStaged(n, D, X \cup {s})
    <2>1. ASSUME NEW r \in Ids, NEW i \in Ids, r \in n.cell[i].seqs  PROVE n.tail[r] = i
      <3>1. r \in new(i).seqs
        BY <1>7, <2>1
      <3>2. CASE t = None
        <4>1. r \in m.cell[i].seqs
          BY <1>10, <3>1, <3>2
        <4>2. m.tail[r] = i /\ r # s
          BY <1>13, <3>2, <4>1, IdsFacts
        <4> QED  BY <1>8, <4>2
      <3>3. CASE t # None /\ i = e
        <4>1. new(i).seqs = {s}
          BY <1>10, <3>3
        <4>2. r = s
          BY <3>1, <4>1
        <4> QED  BY <1>8, <3>3, <4>2
      <3>4. CASE t # None /\ i # e
        <4>1. r \in m.cell[i].seqs /\ (i = t => r # s)
          BY <1>10, <3>1, <3>4
        <4>2. m.tail[r] = i
          BY <1>13, <4>1
        <4>3. r # s
          BY <4>1, <4>2
        <4> QED  BY <1>8, <4>2, <4>3
      <3> QED  BY <3>2, <3>3, <3>4
    <2>2. ASSUME NEW r \in Ids, n.tail[r] # None
          PROVE  \/ r \in n.cell[n.tail[r]].seqs
                 \/ r \in X \cup {s} /\ n.cell[n.tail[r]].seqs = {}
      <3>1. CASE r = s
        <4>1. n.tail[r] = e
          BY <1>8, <3>1
        <4>2. n.cell[e].seqs = IF t = None THEN {} ELSE {s}
          BY <1>3, <1>7, <1>10
        <4> QED  BY <3>1, <4>1, <4>2
      <3>2. CASE r # s
        <4> DEFINE i == m.tail[r]
        <4>1. n.tail[r] = i /\ i \in Ids /\ i # e
          BY <1>2, <1>3, <1>8, <2>2, <3>2
        <4>2. r \in m.cell[i].seqs \/ (r \in X /\ m.cell[i].seqs = {})
          BY <1>1, <2>2, <4>1 DEF TailsStaged
        <4>3. r \in m.cell[i].seqs => r \in n.cell[i].seqs
          BY <1>7, <1>10, <3>2, <4>1
        <4>4. m.cell[i].seqs = {} => n.cell[i].seqs = {}
          BY <1>12, <4>1
        <4> HIDE DEF i
        <4> QED  BY <4>1, <4>2, <4>3, <4>4
      <3> QED  BY <3>1, <3>2
    <2>3. ASSUME NEW r \in D, r \in Ids  PROVE n.tail[r] = None
      BY <1>1, <1>8, <2>3 DEF TailsStaged
    <2>4. ASSUME NEW r \in X \cup {s}, NEW q \in Ids \ {r}
          PROVE  n.tail[r] # None /\ n.tail[q] # n.tail[r]
      <3>1. CASE r = s
        BY <1>3, <1>8, <2>4, <3>1, IdsFacts
      <3>2. CASE r # s
        <4>1. r \in X /\ r \in Ids /\ m.tail[r] # None /\ m.tail[q] # m.tail[r]
          BY <1>1, <2>4, <3>2 DEF TailsStaged
        <4>2. m.tail[r] # e
          BY <1>3, <4>1
        <4> QED  BY <1>8, <3>2, <4>1, <4>2
      <3> QED  BY <3>1, <3>2
    <2>5. \A r \in X \cup {s} : n.tail[r] # None
      <3>1. \A r \in X : r \in Ids /\ m.tail[r] # None
        BY <1>1 DEF TailsStaged
      <3> QED  BY <3>1, <1>8, <1>3, IdsFacts
    <2>6. \A r \in D : n.tail[r] = None
      <3>1. \A r \in D : m.tail[r] = None
        BY <1>1 DEF TailsStaged
      <3>2. \A r \in D : r # s
        OBVIOUS
      <3> QED  BY <1>8, <3>1, <3>2
    <2> QED  BY <2>1, <2>2, <2>4, <2>5, <2>6 DEF TailsStaged
  <1>15. PosExact(n)
    <2> SUFFICES ASSUME NEW i \in Ids
                 PROVE  n.cell[i].seqs # {} <=> n.cell[i].pos >= 0
      BY DEF PosExact
    <2>1. \A j \in Ids : m.cell[j].seqs # {} <=> m.cell[j].pos >= 0
      BY <1>1 DEF PosExact
    <2>2. CASE t # None /\ i = e
      <3>1. n.cell[i].seqs # {} /\ n.cell[i].pos = m.cell[t].pos
        BY <1>7, <1>10, <2>2
      <3> QED  BY <1>5, <2>1, <2>2, <3>1
    <2>3. CASE t = None \/ i # e
      <3>1. n.cell[i].pos = m.cell[i].pos
        BY <1>7, <1>10, <2>3
      <3>2. n.cell[i].seqs = {} <=> m.cell[i].seqs = {}
        BY <1>7, <1>10, <1>12, <2>3
      <3> QED  BY <2>1, <3>1, <3>2
    <2> QED  BY <2>2, <2>3
  <1>16. Frame(n, C \cup {e})
    <2> SUFFICES ASSUME NEW i \in Ids \ (C \cup {e})
                 PROVE  /\ n.cell[i].src \in {None, i}
                        /\ n.cell[i].seqs # {} => n.cell[i].src = i
      BY DEF Frame
    <2>1. n.cell[i].src = m.cell[i].src
      BY <1>7, <1>10
    <2> QED  BY <1>12, <2>1 DEF Frame
  <1>17. StatesStaged(n, D, st, tx)
    <2>1. /\ \A r \in Ids : m.tail[r] # None =>
                LET c == m.cell[m.tail[r]].src
                IN  IF c = None THEN tx[r] = Empty ELSE Agrees(st[c], tx[r])
          /\ \A r \in Ids \ D : m.tail[r] = None => tx[r] = Empty
          /\ \A i \in Ids : m.cell[i].seqs = {} /\ m.cell[i].src # None
                                => Fresh(st[m.cell[i].src])
      BY <1>1 DEF StatesStaged
    <2>2. ASSUME NEW r \in Ids, n.tail[r] # None
          PROVE  LET c == n.cell[n.tail[r]].src
                 IN  IF c = None THEN tx[r] = Empty ELSE Agrees(st[c], tx[r])
      <3>1. CASE r = s
        <4>1. n.tail[r] = e
          BY <1>8, <3>1
        <4>2. CASE t = None
          <5>1. n.cell[e].src = m.cell[e].src
            BY <1>3, <1>7, <1>10, <4>2
          <5>2. tx[r] = Empty
            BY <2>1, <3>1, <4>2
          <5>3. m.cell[e].src # None => Fresh(st[m.cell[e].src])
            BY <1>3, <2>1
          <5> QED  BY <4>1, <5>1, <5>2, <5>3, StatesFacts
        <4>3. CASE t # None
          <5>1. n.cell[e].src = m.cell[t].src
            BY <1>3, <1>7, <1>10, <4>3
          <5>2. IF m.cell[t].src = None THEN tx[s] = Empty ELSE Agrees(st[m.cell[t].src], tx[s])
            BY <2>1, <4>3
          <5> QED  BY <3>1, <4>1, <5>1, <5>2
        <4> QED  BY <4>2, <4>3
      <3>2. CASE r # s
        <4>1. n.tail[r] = m.tail[r] /\ m.tail[r] \in Ids /\ m.tail[r] # e
          BY <1>2, <1>3, <1>8, <2>2, <3>2
        <4>2. n.cell[m.tail[r]].src = m.cell[m.tail[r]].src
          BY <1>7, <1>10, <4>1
        <4>3. IF m.cell[m.tail[r]].src = None THEN tx[r] = Empty
              ELSE Agrees(st[m.cell[m.tail[r]].src], tx[r])
          BY <2>1, <2>2, <4>1
        <4> QED  BY <4>1, <4>2, <4>3
      <3> QED  BY <3>1, <3>2
    <2>3. ASSUME NEW r \in Ids \ D, n.tail[r] = None  PROVE tx[r] = Empty
      <3>1. m.tail[r] = None
        BY <1>3, <1>8, <2>3, IdsFacts
      <3> QED  BY <2>1, <3>1
    <2>4. ASSUME NEW i \in Ids, n.cell[i].seqs = {}, n.cell[i].src # None
          PROVE  Fresh(st[n.cell[i].src])
      <3>1. ~(t # None /\ i = e)
        BY <1>7, <1>10, <2>4
      <3>2. n.cell[i].src = m.cell[i].src
        BY <1>7, <1>10, <3>1
      <3>3. m.cell[i].seqs = {}
        BY <1>3, <1>12, <2>4
      <3> QED  BY <2>1, <2>4, <3>2, <3>3
    <2> QED  BY <2>2, <2>3, <2>4 DEF StatesStaged
  <1>18. Staged(n, D, X \cup {s}, st, tx)
    BY <1>8, <1>11, <1>14, <1>15, <1>17 DEF Staged
  <1> QED  BY <1>8, <1>12, <1>16, <1>18 DEF n, OneMoved

(* The loop that places the first sequences. *)
LEMMA PlaceAllLoop ==
    ASSUME NEW m, NEW u, Len(u) \in Nat
    PROVE  \E a : /\ a[0] = [m |-> m, next |-> NextEmpty(m, m.head), cells |-> {}]
                 /\ \A k \in 1 .. Len(u) : a[k] = PlaceSeq(a[k - 1], First(u, k), k = Len(u))
                 /\ PlaceAll(m, u) = a[Len(u)]
  <1> DEFINE base == [m |-> m, next |-> NextEmpty(m, m.head), cells |-> {}]
             step(x, k) == PlaceSeq(x, First(u, k), k = Len(u))
             S == {n \in Nat : \E f : f = [k \in 0 .. n |->
                        IF k = 0 THEN base ELSE step(f[k - 1], k)]}
             a == CHOOSE f : f = [k \in 0 .. Len(u) |->
                        IF k = 0 THEN base ELSE step(f[k - 1], k)]
  <1>1. PlaceAll(m, u) = a[Len(u)]
    BY DEF PlaceAll
  <1> HIDE DEF base, step
  <1>2. 0 \in S
    <2> DEFINE f == [k \in 0 .. 0 |-> base]
    <2>1. f = [k \in 0 .. 0 |-> IF k = 0 THEN base ELSE step(f[k - 1], k)]
      OBVIOUS
    <2> HIDE DEF f
    <2> QED  BY <2>1
  <1>3. ASSUME NEW n \in Nat, n \in S  PROVE n + 1 \in S
    <2>1. PICK f : f = [k \in 0 .. n |-> IF k = 0 THEN base ELSE step(f[k - 1], k)]
      BY <1>3
    <2> DEFINE g == [k \in 0 .. n + 1 |-> IF k = n + 1 THEN step(f[n], n + 1) ELSE f[k]]
    <2>2. ASSUME NEW k \in 0 .. n + 1
          PROVE  g[k] = IF k = 0 THEN base ELSE step(g[k - 1], k)
      <3>1. CASE k = n + 1
        <4>1. (n + 1) - 1 = n /\ n \in 0 .. n + 1 /\ n # n + 1 /\ k # 0
          BY <3>1
        <4>2. g[k - 1] = f[n] /\ g[k] = step(f[n], k)
          BY <3>1, <4>1
        <4> QED  BY <4>1, <4>2
      <3>2. CASE k # n + 1
        <4>1. k \in 0 .. n /\ g[k] = f[k]
          BY <3>2
        <4>2. k # 0 => k - 1 \in 0 .. n + 1 /\ k - 1 # n + 1
          BY <4>1
        <4>3. k # 0 => g[k - 1] = f[k - 1]
          BY <4>2
        <4>4. f[k] = IF k = 0 THEN base ELSE step(f[k - 1], k)
          BY <2>1, <4>1
        <4> QED  BY <4>1, <4>3, <4>4
      <3> QED  BY <3>1, <3>2
    <2>3. g = [k \in 0 .. n + 1 |-> IF k = 0 THEN base ELSE step(g[k - 1], k)]
      BY <2>2
    <2> HIDE DEF g
    <2> QED  BY <2>3
  <1>4. Len(u) \in S
    <2> HIDE DEF S
    <2>1. 0 .. Len(u) \subseteq S
      <3>1. \A k \in 0 .. Len(u) - 1 : k \in S => k + 1 \in S
        BY <1>3
      <3>2. Len(u) \in Nat
        OBVIOUS
      <3> QED  BY <1>2, <3>1, <3>2, Induct
    <2> QED  BY <2>1
  <1>5. a = [k \in 0 .. Len(u) |-> IF k = 0 THEN base ELSE step(a[k - 1], k)]
    <2> HIDE DEF step, base
    <2> QED  BY <1>4
  <1> HIDE DEF a
  <1>6. a[0] = base /\ \A k \in 1 .. Len(u) : a[k] = step(a[k - 1], k)
    BY <1>5
  <1> QED  BY <1>1, <1>6 DEF base, step


(* The loop that exchanges cells: x[k] is the memory after k sequences.     *)
GatherSteps(x, m, u, first) ==
    /\ x[0] = m
    /\ \A k \in 1 .. Len(u) :
            x[k] = Swap(x[k - 1], (x[k - 1]).tail[First(u, k)], (first + k) - 1)
    /\ Gathered(m, u, first) = x[Len(u)]

LEMMA GatheredLoop ==
    ASSUME NEW m, NEW u, Len(u) \in Nat, NEW first
    PROVE  \E x : GatherSteps(x, m, u, first)
  <1> DEFINE base == m
             step(x, k) == Swap(x, (x).tail[First(u, k)], (first + k) - 1)
             S == {n \in Nat : \E f : f = [k \in 0 .. n |->
                        IF k = 0 THEN base ELSE step(f[k - 1], k)]}
             a == CHOOSE f : f = [k \in 0 .. Len(u) |->
                        IF k = 0 THEN base ELSE step(f[k - 1], k)]
  <1>1. Gathered(m, u, first) = a[Len(u)]
    BY DEF Gathered
  <1> HIDE DEF base, step
  <1>2. 0 \in S
    <2> DEFINE f == [k \in 0 .. 0 |-> base]
    <2>1. f = [k \in 0 .. 0 |-> IF k = 0 THEN base ELSE step(f[k - 1], k)]
      OBVIOUS
    <2> HIDE DEF f
    <2> QED  BY <2>1
  <1>3. ASSUME NEW n \in Nat, n \in S  PROVE n + 1 \in S
    <2>1. PICK f : f = [k \in 0 .. n |-> IF k = 0 THEN base ELSE step(f[k - 1], k)]
      BY <1>3
    <2> DEFINE g == [k \in 0 .. n + 1 |-> IF k = n + 1 THEN step(f[n], n + 1) ELSE f[k]]
    <2>2. ASSUME NEW k \in 0 .. n + 1
          PROVE  g[k] = IF k = 0 THEN base ELSE step(g[k - 1], k)
      <3>1. CASE k = n + 1
        <4>1. (n + 1) - 1 = n /\ n \in 0 .. n + 1 /\ n # n + 1 /\ k # 0
          BY <3>1
        <4>2. g[k - 1] = f[n] /\ g[k] = step(f[n], k)
          BY <3>1, <4>1
        <4> QED  BY <4>1, <4>2
      <3>2. CASE k # n + 1
        <4>1. k \in 0 .. n /\ g[k] = f[k]
          BY <3>2
        <4>2. k # 0 => k - 1 \in 0 .. n + 1 /\ k - 1 # n + 1
          BY <4>1
        <4>3. k # 0 => g[k - 1] = f[k - 1]
          BY <4>2
        <4>4. f[k] = IF k = 0 THEN base ELSE step(f[k - 1], k)
          BY <2>1, <4>1
        <4> QED  BY <4>1, <4>3, <4>4
      <3> QED  BY <3>1, <3>2
    <2>3. g = [k \in 0 .. n + 1 |-> IF k = 0 THEN base ELSE step(g[k - 1], k)]
      BY <2>2
    <2> HIDE DEF g
    <2> QED  BY <2>3
  <1>4. Len(u) \in S
    <2> HIDE DEF S
    <2>1. 0 .. Len(u) \subseteq S
      <3>1. \A k \in 0 .. Len(u) - 1 : k \in S => k + 1 \in S
        BY <1>3
      <3>2. Len(u) \in Nat
        OBVIOUS
      <3> QED  BY <1>2, <3>1, <3>2, Induct
    <2> QED  BY <2>1
  <1>5. a = [k \in 0 .. Len(u) |-> IF k = 0 THEN base ELSE step(a[k - 1], k)]
    <2> HIDE DEF step, base
    <2> QED  BY <1>4
  <1> HIDE DEF a
  <1>6. a[0] = base /\ \A k \in 1 .. Len(u) : a[k] = step(a[k - 1], k)
    BY <1>5
  <1> QED  BY <1>1, <1>6 DEF base, step, GatherSteps

(* The next empty cell is the first, from h on, that was not given to a       *)
(* sequence: those that were are behind it.                                   *)
Ring(m, e, h) == Unclaimed(m) # {} =>
    /\ e \in Unclaimed(m)
    /\ \A i \in Unclaimed(m) : Ahead(h, e) <= Ahead(h, i)
    /\ \A i \in Ids \ Unclaimed(m) : m.cell[i].seqs = {} => Ahead(h, i) < Ahead(h, e)

PlaceInv(a, u, k, h, st, tx) ==
    /\ a = [m |-> a.m, next |-> a.next, cells |-> a.cells]
    /\ Staged(a.m, Later(u), Firsts(u, k), st, tx)
    /\ a.cells = {a.m.tail[s] : s \in Firsts(u, k)}
    /\ Frame(a.m, a.cells)
    /\ a.next \in Ids
    /\ k < Len(u) => Ring(a.m, a.next, h)

LEMMA RingStep ==
    ASSUME NEW m, NEW n, NEW s \in Ids, NEW h \in Ids, NEW e \in Unclaimed(m),
           m.tail \in [Ids -> Ids \cup {None}],
           m.tail[s] # None => m.cell[m.tail[s]].seqs # {},
           n.tail = [m.tail EXCEPT ![s] = e],
           \A i \in Ids \ {e} : n.cell[i].seqs = {} <=> m.cell[i].seqs = {},
           Ring(m, e, h)
    PROVE  Ring(n, NextEmpty(n, e + 1), h)
  <1> DEFINE f == NextEmpty(n, e + 1)
  <1>1. e \in Ids /\ \A r \in Ids : n.tail[r] = IF r = s THEN e ELSE m.tail[r]
    BY DEF Unclaimed
  <1>2. Unclaimed(n) = Unclaimed(m) \ {e}
    <2> SUFFICES ASSUME NEW i \in Ids
                 PROVE  i \in Unclaimed(n) <=> i \in Unclaimed(m) /\ i # e
      BY DEF Unclaimed
    <2>1. CASE i = e
      <3>1. i \notin Unclaimed(n)
        BY <1>1, <2>1 DEF Unclaimed
      <3> QED  BY <2>1, <3>1
    <2>2. CASE i # e
      <3>1. n.cell[i].seqs = {} <=> m.cell[i].seqs = {}
        BY <2>2
      <3>2. m.cell[i].seqs = {} => m.tail[s] # i
        BY IdsFacts
      <3>3. m.cell[i].seqs = {} => ((\E r \in Ids : n.tail[r] = i) <=> (\E r \in Ids : m.tail[r] = i))
        BY <1>1, <2>2, <3>2
      <3> QED  BY <2>2, <3>1, <3>3 DEF Unclaimed
    <2> QED  BY <2>1, <2>2
  <1> SUFFICES ASSUME NEW j \in Unclaimed(n)
               PROVE  /\ f \in Unclaimed(n)
                      /\ \A i \in Unclaimed(n) : Ahead(h, f) <= Ahead(h, i)
                      /\ \A i \in Ids \ Unclaimed(n) :
                            n.cell[i].seqs = {} => Ahead(h, i) < Ahead(h, f)
    BY DEF Ring
  <1>3. /\ \A i \in Unclaimed(m) : Ahead(h, e) <= Ahead(h, i)
        /\ \A i \in Ids \ Unclaimed(m) : m.cell[i].seqs = {} => Ahead(h, i) < Ahead(h, e)
    BY DEF Ring
  <1>4. e + 1 \in 0 .. Size /\ e \in Nat /\ Size \in Nat
    BY <1>1, IdsFacts
  <1>5. f \in Ids /\ \A i \in Ids : n.cell[i].seqs = {} =>
                        n.cell[f].seqs = {} /\ Ahead(e + 1, f) <= Ahead(e + 1, i)
    BY <1>4, NextEmptyFacts
  <1> HIDE DEF f
  <1>6. \A i \in Ids : Ahead(h, i) \in 0 .. Size - 1
    <2>1. h \in 0 .. Size
      BY IdsFacts
    <2> QED  BY <2>1, AheadFacts
  <1>7. \A i \in Unclaimed(n) : /\ i \in Ids /\ i # e /\ n.cell[i].seqs = {}
                                /\ Ahead(h, i) > Ahead(h, e)
                                /\ Ahead(e + 1, i) = (Ahead(h, i) - Ahead(h, e)) - 1
    <2> SUFFICES ASSUME NEW i \in Unclaimed(n)
                 PROVE  /\ i \in Ids /\ i # e /\ n.cell[i].seqs = {}
                        /\ Ahead(h, i) > Ahead(h, e)
                        /\ Ahead(e + 1, i) = (Ahead(h, i) - Ahead(h, e)) - 1
      OBVIOUS
    <2>1. i \in Ids /\ i # e /\ n.cell[i].seqs = {} /\ i \in Unclaimed(m)
      BY <1>2 DEF Unclaimed
    <2>2. Ahead(h, e) <= Ahead(h, i) /\ Ahead(h, e) # Ahead(h, i)
      BY <1>1, <1>3, <2>1, AheadFacts
    <2>3. Ahead(h, i) > Ahead(h, e)
      BY <1>1, <1>6, <2>1, <2>2
    <2>4. Ahead(e + 1, i) = IF Ahead(h, i) > Ahead(h, e)
                            THEN (Ahead(h, i) - Ahead(h, e)) - 1
                            ELSE ((Ahead(h, i) - Ahead(h, e)) - 1) + Size
      BY <1>1, <2>1, AheadFacts
    <2> QED  BY <2>1, <2>3, <2>4
  <1>8. \A i \in Ids \ Unclaimed(n) : n.cell[i].seqs = {} =>
            /\ Ahead(h, i) <= Ahead(h, e)
            /\ Ahead(e + 1, i) >= (Size - 1) - Ahead(h, e)
    <2> SUFFICES ASSUME NEW i \in Ids \ Unclaimed(n), n.cell[i].seqs = {}
                 PROVE  /\ Ahead(h, i) <= Ahead(h, e)
                        /\ Ahead(e + 1, i) >= (Size - 1) - Ahead(h, e)
      OBVIOUS
    <2>1. CASE i = e
      <3>1. Ahead(e + 1, e) = Size - 1
        BY <1>4 DEF Ahead
      <3> QED  BY <1>1, <1>4, <1>6, <2>1, <3>1
    <2>2. CASE i # e
      <3>1. m.cell[i].seqs = {} /\ i \notin Unclaimed(m)
        BY <1>2, <2>2
      <3>2. Ahead(h, i) < Ahead(h, e)
        BY <1>3, <3>1
      <3>3. Ahead(e + 1, i) = IF Ahead(h, i) > Ahead(h, e)
                            THEN (Ahead(h, i) - Ahead(h, e)) - 1
                            ELSE ((Ahead(h, i) - Ahead(h, e)) - 1) + Size
        BY <1>1, <2>2, AheadFacts
      <3>4. Ahead(h, i) \in 0 .. Size - 1 /\ Ahead(h, e) \in 0 .. Size - 1
        BY <1>1, <1>6
      <3> QED  BY <1>4, <3>2, <3>3, <3>4
    <2> QED  BY <2>1, <2>2
  <1>9. n.cell[f].seqs = {} /\ Ahead(e + 1, f) <= Ahead(e + 1, j)
    BY <1>5, <1>7
  <1>10. f \in Unclaimed(n)
    <2> SUFFICES ASSUME f \notin Unclaimed(n)  PROVE FALSE
      OBVIOUS
    <2>1. Ahead(e + 1, f) >= (Size - 1) - Ahead(h, e)
      BY <1>5, <1>8, <1>9
    <2>2. Ahead(e + 1, j) = (Ahead(h, j) - Ahead(h, e)) - 1 /\ Ahead(h, j) \in 0 .. Size - 1
      BY <1>6, <1>7
    <2>3. Ahead(h, e) \in 0 .. Size - 1 /\ Ahead(e + 1, f) \in 0 .. Size - 1
      BY <1>1, <1>4, <1>5, <1>6, AheadFacts
    <2> QED  BY <1>4, <1>9, <2>1, <2>2, <2>3
  <1>11. ASSUME NEW i \in Unclaimed(n)  PROVE Ahead(h, f) <= Ahead(h, i)
    <2>1. Ahead(e + 1, f) <= Ahead(e + 1, i)
      BY <1>5, <1>7
    <2>2. /\ Ahead(e + 1, f) = (Ahead(h, f) - Ahead(h, e)) - 1
          /\ Ahead(e + 1, i) = (Ahead(h, i) - Ahead(h, e)) - 1
      BY <1>7, <1>10
    <2>3. Ahead(h, e) \in Int /\ Ahead(h, f) \in Int /\ Ahead(h, i) \in Int
      BY <1>1, <1>5, <1>6, <1>7
    <2> QED  BY <2>1, <2>2, <2>3
  <1>12. ASSUME NEW i \in Ids \ Unclaimed(n), n.cell[i].seqs = {}
         PROVE  Ahead(h, i) < Ahead(h, f)
    <2>1. Ahead(h, i) <= Ahead(h, e) /\ Ahead(h, f) > Ahead(h, e)
      BY <1>7, <1>8, <1>10, <1>12
    <2> QED  BY <1>1, <1>5, <1>6, <2>1
  <1> QED  BY <1>10, <1>11, <1>12

(* A sequence that is alone in its cell stays there. *)
LEMMA OwnedStaged ==
    ASSUME NEW m, NEW D, NEW X \in SUBSET Ids, NEW st, NEW tx, Staged(m, D, X, st, tx),
           NEW s \in Ids, s \notin X, Owns(m, s)
    PROVE  Staged(m, D, X \cup {s}, st, tx)
  <1>1. m \in Stages /\ TailsStaged(m, D, X)
    BY DEF Staged
  <1>2. m.tail[s] \in Ids /\ \A r \in Ids \ {s} : m.tail[r] # m.tail[s]
    BY <1>1, OwnsFacts
  <1>3. m.tail[s] # None
    BY <1>2, IdsFacts
  <1>4. /\ \A r, i \in Ids : r \in m.cell[i].seqs => m.tail[r] = i
        /\ \A r \in Ids : m.tail[r] # None =>
            \/ r \in m.cell[m.tail[r]].seqs
            \/ r \in X /\ m.cell[m.tail[r]].seqs = {}
        /\ \A r \in D : m.tail[r] = None
        /\ \A r \in X : m.tail[r] # None /\ \A q \in Ids \ {r} : m.tail[q] # m.tail[r]
    BY <1>1 DEF TailsStaged
  <1>5. TailsStaged(m, D, X \cup {s})
    BY <1>2, <1>3, <1>4 DEF TailsStaged
  <1> QED  BY <1>5 DEF Staged

LEMMA PlaceStep ==
    ASSUME NEW u, UbatchOK(u), NEW k \in 1 .. Len(u), NEW h \in Ids, NEW st, NEW tx,
           NEW a, PlaceInv(a, u, k - 1, h, st, tx)
    PROVE  PlaceInv(PlaceSeq(a, First(u, k), k = Len(u)), u, k, h, st, tx)
  <1> DEFINE m == a.m
             e == a.next
             s == First(u, k)
             X == Firsts(u, k - 1)
             D == Later(u)
             b == PlaceSeq(a, s, k = Len(u))
  <1>1. /\ a = [m |-> m, next |-> e, cells |-> a.cells]
        /\ Staged(m, D, X, st, tx)
        /\ a.cells = {m.tail[r] : r \in X}
        /\ Frame(m, a.cells) /\ e \in Ids
    BY DEF PlaceInv
  <1>2. Ring(m, e, h)
    <2>1. k - 1 < Len(u)
      BY FirstsFacts
    <2> QED  BY <2>1 DEF PlaceInv
  <1>3. /\ s \in Ids /\ s \notin D /\ s \notin X
        /\ Firsts(u, k) = X \cup {s} /\ X \in SUBSET Ids
    BY FirstsFacts
  <1>4. m \in Stages /\ m.ok /\ TailsStaged(m, D, X) /\ m.tail \in [Ids -> Ids \cup {None}]
    BY <1>1 DEF Staged, Stages
  <1> HIDE DEF X, D, s, b
  <1>5. a.cells \in SUBSET Ids
    <2>1. \A r \in X : m.tail[r] \in Ids
      BY <1>3, <1>4 DEF TailsStaged
    <2> QED  BY <1>1, <2>1
  <1>6. CASE Owns(m, s)
    <2>1. Held(m, s)
      BY <1>3, <1>4, OwnsFacts
    <2>2. b = [a EXCEPT !.m.ok = @ /\ Held(m, s), !.cells = @ \cup {m.tail[s]}]
      BY <1>6 DEF PlaceSeq, b
    <2>3. [m EXCEPT !.ok = @ /\ Held(m, s)] = m
      BY <1>4, <2>1 DEF Stages
    <2>4. b = [m |-> m, next |-> e, cells |-> a.cells \cup {m.tail[s]}]
      <3>1. b = [m |-> [m EXCEPT !.ok = @ /\ Held(m, s)], next |-> e,
                 cells |-> a.cells \cup {m.tail[s]}]
        BY <1>1, <2>2
      <3> QED  BY <2>3, <3>1
    <2>5. b.m = m /\ b.next = e /\ b.cells = a.cells \cup {m.tail[s]}
      BY <2>4
    <2>6. Staged(m, D, X \cup {s}, st, tx)
      BY <1>1, <1>3, <1>6, OwnedStaged
    <2>7. a.cells \cup {m.tail[s]} = {m.tail[r] : r \in X \cup {s}}
      BY <1>1
    <2>8. Frame(m, a.cells \cup {m.tail[s]})
      BY <1>1 DEF Frame
    <2>9. b = [m |-> b.m, next |-> b.next, cells |-> b.cells]
      BY <2>4, <2>5
    <2> HIDE DEF m, e
    <2>10. Staged(b.m, Later(u), Firsts(u, k), st, tx)
      BY <1>3, <2>5, <2>6 DEF D
    <2>11. b.cells = {b.m.tail[r] : r \in Firsts(u, k)} /\ Frame(b.m, b.cells)
      BY <1>3, <2>5, <2>7, <2>8
    <2>12. b.next \in Ids /\ Ring(b.m, b.next, h)
      BY <1>1, <1>2, <2>5
    <2>13. PlaceInv(b, u, k, h, st, tx)
      BY <2>9, <2>10, <2>11, <2>12 DEF PlaceInv
    <2> QED  BY <2>13 DEF b, s
  <1>7. CASE ~Owns(m, s)
    <2> DEFINE n == MovedTo(m, s, e)
    <2>1. b = [m |-> n, cells |-> a.cells \cup {e},
               next |-> IF k = Len(u) THEN e ELSE NextEmpty(n, e + 1)]
      BY <1>7 DEF PlaceSeq, b
    <2>2. \E i \in Ids : \A r \in Ids : m.tail[r] # i
      <3>1. m.tail[s] = None \/ \E r \in Ids \ {s} : m.tail[r] = m.tail[s]
        BY <1>3, <1>4, <1>7, OwnsFacts
      <3> HIDE DEF m
      <3> QED  BY <1>3, <1>4, <3>1, FreeCell
    <2>3. Unclaimed(m) # {}
      <3>1. PICK i \in Ids : \A r \in Ids : m.tail[r] # i
        BY <2>2
      <3>2. m.cell[i].seqs \in SUBSET Ids
        <4>1. m.cell[i] \in Cells
          BY <1>4, <3>1 DEF Stages
        <4> QED  BY <4>1 DEF Cells
      <3>3. m.cell[i].seqs = {}
        BY <1>4, <3>1, <3>2 DEF TailsStaged
      <3> QED  BY <3>1, <3>3 DEF Unclaimed
    <2>4. e \in Unclaimed(m)
      BY <1>2, <2>3 DEF Ring
    <2>5. /\ Staged(n, D, X \cup {s}, st, tx) /\ Frame(n, a.cells \cup {e})
          /\ n.tail = [m.tail EXCEPT ![s] = e]
          /\ \A i \in Ids \ {e} : n.cell[i].seqs = {} <=> m.cell[i].seqs = {}
      <3> HIDE DEF m, e
      <3>1. Staged(m, D, X, st, tx) /\ Frame(m, a.cells) /\ a.cells \in SUBSET Ids
        BY <1>1, <1>5
      <3>2. s \in Ids /\ s \notin X /\ s \notin D /\ X \in SUBSET Ids
        BY <1>3
      <3>3. ~Owns(m, s) /\ e \in Unclaimed(m)
        BY <1>7, <2>4
      <3>4. Staged(n, D, X \cup {s}, st, tx) /\ Frame(n, a.cells \cup {e}) /\ OneMoved(m, n, s, e)
        BY <3>1, <3>2, <3>3, MovedToStaged
      <3> QED  BY <3>4 DEF OneMoved
    <2>6. m.tail[s] # None => m.cell[m.tail[s]].seqs # {}
      BY <1>3, <1>4 DEF TailsStaged
    <2>7. Ring(n, NextEmpty(n, e + 1), h)
      <3> HIDE DEF m, e, n
      <3> QED  BY <1>2, <1>3, <1>4, <2>4, <2>5, <2>6, RingStep
    <2>8. NextEmpty(n, e + 1) \in Ids
      <3>1. e + 1 \in 0 .. Size
        BY <1>1, IdsFacts
      <3> QED  BY <3>1, NextEmptyFacts
    <2>9. a.cells \cup {e} = {n.tail[r] : r \in X \cup {s}}
      <3>1. \A r \in X : n.tail[r] = m.tail[r]
        BY <1>3, <1>4, <2>5
      <3>2. n.tail[s] = e
        BY <1>3, <1>4, <2>5
      <3> HIDE DEF n, m, e
      <3>3. {n.tail[r] : r \in X} = {m.tail[r] : r \in X}
        BY <3>1
      <3> QED  BY <1>1, <3>2, <3>3
    <2> HIDE DEF n, m, e
    <2>10. b.m = n /\ b.cells = a.cells \cup {e} /\ b.next \in Ids
           /\ (k < Len(u) => b.next = NextEmpty(n, e + 1))
           /\ b = [m |-> b.m, next |-> b.next, cells |-> b.cells]
      <3>1. b.m = n /\ b.cells = a.cells \cup {e}
            /\ b.next = (IF k = Len(u) THEN e ELSE NextEmpty(n, e + 1))
        BY <2>1
      <3>2. b = [m |-> b.m, next |-> b.next, cells |-> b.cells]
        BY <2>1, <3>1
      <3>3. k \in Nat /\ Len(u) \in Nat
        BY FirstsFacts
      <3> QED  BY <1>1, <2>8, <3>1, <3>2, <3>3
    <2>11. Staged(b.m, Later(u), Firsts(u, k), st, tx)
      BY <1>3, <2>5, <2>10 DEF D
    <2>12. b.cells = {b.m.tail[r] : r \in Firsts(u, k)} /\ Frame(b.m, b.cells)
      <3>1. b.m = n /\ b.cells = a.cells \cup {e} /\ Firsts(u, k) = X \cup {s}
        BY <1>3, <2>10
      <3> QED  BY <2>5, <2>9, <3>1, ZenonT(40)
    <2>13. k < Len(u) => Ring(b.m, b.next, h)
      BY <2>7, <2>10
    <2>14. PlaceInv(b, u, k, h, st, tx)
      BY <2>10, <2>11, <2>12, <2>13 DEF PlaceInv
    <2> QED  BY <2>14 DEF b, s
  <1> QED  BY <1>6, <1>7

(* After the loop every first sequence is alone in a cell, those cells are    *)
(* the ones that were counted, and no assertion failed on the way.            *)
LEMMA PlaceAllStaged ==
    ASSUME NEW u, UbatchOK(u), NEW st, NEW tx, NEW m,
           Staged(m, Later(u), {}, st, tx), Frame(m, {})
    PROVE  LET a == PlaceAll(m, u)
           IN  /\ Staged(a.m, Later(u), Firsts(u, Len(u)), st, tx)
               /\ Frame(a.m, a.cells)
               /\ a.cells = {a.m.tail[s] : s \in Firsts(u, Len(u))}
  <1> DEFINE h == NextEmpty(m, m.head)
             base == [m |-> m, next |-> h, cells |-> {}]
  <1>1. Len(u) \in Nat /\ Len(u) >= 1 /\ Firsts(u, 0) = {}
    BY FirstsFacts
  <1>2. PICK x : /\ x[0] = base
                 /\ \A k \in 1 .. Len(u) : x[k] = PlaceSeq(x[k - 1], First(u, k), k = Len(u))
                 /\ PlaceAll(m, u) = x[Len(u)]
    BY <1>1, PlaceAllLoop
  <1>3. m.head \in 0 .. Size /\ m \in Stages /\ TailsStaged(m, Later(u), {})
    BY IdsFacts DEF Staged, Stages
  <1>4. h \in Ids /\ \A j \in Ids : m.cell[j].seqs = {} => m.cell[h].seqs = {}
    BY <1>3, NextEmptyFacts
  <1> HIDE DEF h
  <1>5. Ring(m, h, h)
    <2>1. \A j \in Ids : m.cell[j].seqs = {} => j \in Unclaimed(m)
      <3> SUFFICES ASSUME NEW j \in Ids, m.cell[j].seqs = {}, NEW r \in Ids, m.tail[r] = j
                   PROVE  FALSE
        BY DEF Unclaimed
      <3> QED  BY <1>3, IdsFacts DEF TailsStaged
    <2>2. Unclaimed(m) # {} => h \in Unclaimed(m)
      BY <1>4, <2>1 DEF Unclaimed
    <2>3. Ahead(h, h) = 0
      BY <1>4, IdsFacts DEF Ahead
    <2>4. \A i \in Ids : Ahead(h, i) >= 0
      <3>1. h \in 0 .. Size
        BY <1>4, IdsFacts
      <3> QED  BY <3>1, AheadFacts, IdsFacts
    <2>5. \A i \in Unclaimed(m) : i \in Ids
      BY DEF Unclaimed
    <2> QED  BY <2>1, <2>2, <2>3, <2>4, <2>5 DEF Ring
  <1>6. PlaceInv(x[0], u, 0, h, st, tx)
    <2>1. /\ x[0].m = m /\ x[0].next = h /\ x[0].cells = {}
          /\ x[0] = [m |-> x[0].m, next |-> x[0].next, cells |-> x[0].cells]
      BY <1>2
    <2>2. {m.tail[s] : s \in {}} = {}
      OBVIOUS
    <2> QED  BY <1>1, <1>4, <1>5, <2>1, <2>2 DEF PlaceInv
  <1> DEFINE S == {k \in 0 .. Len(u) : PlaceInv(x[k], u, k, h, st, tx)}
  <1>7. \A k \in 0 .. Len(u) - 1 : k \in S => k + 1 \in S
    <2> SUFFICES ASSUME NEW k \in 0 .. Len(u) - 1, k \in S  PROVE k + 1 \in S
      OBVIOUS
    <2> DEFINE j == k + 1
    <2>1. j \in 1 .. Len(u) /\ j - 1 = k /\ j \in 0 .. Len(u)
      BY <1>1
    <2>2. PlaceInv(x[j - 1], u, j - 1, h, st, tx)
      BY <2>1
    <2>3. x[j] = PlaceSeq(x[j - 1], First(u, j), j = Len(u))
      BY <1>2, <2>1
    <2> HIDE DEF j
    <2>4. PlaceInv(x[j], u, j, h, st, tx)
      BY <1>4, <2>1, <2>2, <2>3, PlaceStep
    <2>5. j \in S
      BY <2>1, <2>4
    <2> QED  BY <2>5 DEF j
  <1>8. 0 \in S
    BY <1>1, <1>6
  <1>9. Len(u) \in S
    <2> HIDE DEF S
    <2>1. 0 .. Len(u) \subseteq S
      BY <1>1, <1>7, <1>8, Induct
    <2> QED  BY <1>1, <2>1
  <1>10. PlaceInv(PlaceAll(m, u), u, Len(u), h, st, tx)
    BY <1>2, <1>9
  <1> QED  BY <1>10 DEF PlaceInv

-----------------------------------------------------------------------------
(***************************************************************************)
(* Gathering: the cells of the batch become neighbours.                    *)
(***************************************************************************)
LEMMA ExchangedFacts ==
    ASSUME NEW i \in Ids, NEW j \in Ids
    PROVE  /\ \A k \in Ids : Exchanged(i, j, k) \in Ids
           /\ \A k : Exchanged(i, j, Exchanged(i, j, k)) = k
           /\ \A k : Exchanged(i, j, k) = None <=> k = None
           /\ \A k : k # i /\ k # j => Exchanged(i, j, k) = k
  BY IdsFacts DEF Exchanged

LEMMA SwapFacts ==
    ASSUME NEW m \in Stages, NEW i \in Ids, NEW j \in Ids
    PROVE  /\ Swap(m, i, j) \in Stages /\ Swap(m, i, j).ok = m.ok
           /\ \A k \in Ids : Swap(m, i, j).cell[k] = m.cell[Exchanged(i, j, k)]
           /\ \A s \in Ids : Swap(m, i, j).tail[s] = Exchanged(i, j, m.tail[s])
  <1> DEFINE new  == [k \in Ids |-> m.cell[Exchanged(i, j, k)]]
             tail == [s \in Ids |-> Exchanged(i, j, m.tail[s])]
             n    == Swap(m, i, j)
  <1>1. /\ m.cell \in [Ids -> Cells] /\ m.tail \in [Ids -> Ids \cup {None}]
        /\ m.head \in Ids /\ m.used \in Int /\ m.ok \in BOOLEAN
    BY DEF Stages
  <1>2. m = [cell |-> m.cell, tail |-> m.tail, head |-> m.head, used |-> m.used, ok |-> m.ok]
    BY DEF Stages
  <1>3. n = [m EXCEPT !.cell = [m.cell EXCEPT ![i] = m.cell[j], ![j] = m.cell[i]],
                      !.tail = tail]
    <2>1. n = [m EXCEPT !.cell[i] = m.cell[j], !.cell[j] = m.cell[i], !.tail = tail]
      BY DEF Swap
    <2> HIDE DEF n, tail
    <2> QED  BY <1>1, <1>2, <2>1
  <1>4. [m.cell EXCEPT ![i] = m.cell[j], ![j] = m.cell[i]] = new
    BY <1>1 DEF Exchanged
  <1> HIDE DEF new, tail, n
  <1>5. n = [cell |-> new, tail |-> tail, head |-> m.head, used |-> m.used, ok |-> m.ok]
    BY <1>2, <1>3, <1>4
  <1>6. new \in [Ids -> Cells]
    BY <1>1, ExchangedFacts DEF new
  <1>7. tail \in [Ids -> Ids \cup {None}]
    <2>1. \A s \in Ids : m.tail[s] \in Ids \cup {None}
      BY <1>1
    <2>2. \A s \in Ids : Exchanged(i, j, m.tail[s]) \in Ids \cup {None}
      BY <2>1, ExchangedFacts
    <2> QED  BY <2>2 DEF tail
  <1>8. n \in Stages
    BY <1>1, <1>5, <1>6, <1>7 DEF Stages
  <1>9. n.cell = new /\ n.tail = tail /\ n.ok = m.ok
    BY <1>5
  <1> QED  BY <1>8, <1>9 DEF new, tail, n

(* Exchanging two cells, with the tails, changes nothing for the sequences. *)
LEMMA SwapStaged ==
    ASSUME NEW m, NEW D \in SUBSET Ids, NEW X \in SUBSET Ids, NEW st, NEW tx,
           Staged(m, D, X, st, tx), NEW i \in Ids, NEW j \in Ids
    PROVE  Staged(Swap(m, i, j), D, X, st, tx)
  <1> DEFINE n == Swap(m, i, j)
             P(k) == Exchanged(i, j, k)
  <1>1. m \in Stages /\ m.ok /\ TailsStaged(m, D, X) /\ PosExact(m)
        /\ StatesStaged(m, D, st, tx)
    BY DEF Staged
  <1>2. /\ n \in Stages /\ n.ok
        /\ \A k \in Ids : n.cell[k] = m.cell[P(k)]
        /\ \A s \in Ids : n.tail[s] = P(m.tail[s])
    BY <1>1, SwapFacts
  <1>3. /\ \A k \in Ids : P(k) \in Ids
        /\ \A k : P(P(k)) = k
        /\ \A k : P(k) = None <=> k = None
    BY ExchangedFacts
  <1> HIDE DEF n, P
  <1>4. \A s \in Ids : m.tail[s] \in Ids \cup {None}
    BY <1>1 DEF Stages
  <1>5. \A s \in Ids : n.tail[s] # None <=> m.tail[s] # None
    BY <1>2, <1>3
  <1>6. \A s \in Ids : m.tail[s] # None => n.cell[n.tail[s]] = m.cell[m.tail[s]]
    <2> SUFFICES ASSUME NEW s \in Ids, m.tail[s] # None
                 PROVE  n.cell[n.tail[s]] = m.cell[m.tail[s]]
      OBVIOUS
    <2>1. m.tail[s] \in Ids
      BY <1>4
    <2>2. P(m.tail[s]) \in Ids /\ P(P(m.tail[s])) = m.tail[s]
      BY <1>3, <2>1
    <2> QED  BY <1>2, <2>2
  <1>7. PosExact(n)
    <2> SUFFICES ASSUME NEW k \in Ids  PROVE n.cell[k].seqs # {} <=> n.cell[k].pos >= 0
      BY DEF PosExact
    <2> QED  BY <1>1, <1>2, <1>3 DEF PosExact
  <1>8. StatesStaged(n, D, st, tx)
    <2>1. ASSUME NEW s \in Ids, n.tail[s] # None
          PROVE  LET c == n.cell[n.tail[s]].src
                 IN  IF c = None THEN tx[s] = Empty ELSE Agrees(st[c], tx[s])
      BY <1>1, <1>5, <1>6, <2>1 DEF StatesStaged
    <2>2. ASSUME NEW s \in Ids \ D, n.tail[s] = None  PROVE tx[s] = Empty
      BY <1>1, <1>5, <2>2 DEF StatesStaged
    <2>3. ASSUME NEW k \in Ids
          PROVE  LET c == n.cell[k].src
                 IN  n.cell[k].seqs = {} /\ c # None => Fresh(st[c])
      BY <1>1, <1>2, <1>3 DEF StatesStaged
    <2> QED  BY <2>1, <2>2, <2>3 DEF StatesStaged
  <1>9. TailsStaged(n, D, X)
    <2>1. ASSUME NEW s \in Ids, NEW k \in Ids, s \in n.cell[k].seqs  PROVE n.tail[s] = k
      <3>1. m.tail[s] = P(k)
        BY <1>1, <1>2, <1>3, <2>1 DEF TailsStaged
      <3> QED  BY <1>2, <1>3, <3>1
    <2>2. ASSUME NEW s \in Ids, n.tail[s] # None
          PROVE  \/ s \in n.cell[n.tail[s]].seqs
                 \/ s \in X /\ n.cell[n.tail[s]].seqs = {}
      <3>1. m.tail[s] # None
        BY <1>5, <2>2
      <3>2. s \in m.cell[m.tail[s]].seqs \/ (s \in X /\ m.cell[m.tail[s]].seqs = {})
        BY <1>1, <3>1 DEF TailsStaged
      <3>3. n.cell[n.tail[s]] = m.cell[m.tail[s]]
        BY <1>6, <3>1
      <3> QED  BY <3>2, <3>3
    <2>3. ASSUME NEW s \in D  PROVE n.tail[s] = None
      <3>1. s \in Ids /\ m.tail[s] = None
        BY <1>1 DEF TailsStaged
      <3> QED  BY <1>5, <3>1
    <2>4. ASSUME NEW s \in X
          PROVE  n.tail[s] # None /\ \A r \in Ids \ {s} : n.tail[r] # n.tail[s]
      <3>1. s \in Ids /\ m.tail[s] # None /\ \A r \in Ids \ {s} : m.tail[r] # m.tail[s]
        BY <1>1 DEF TailsStaged
      <3>2. ASSUME NEW r \in Ids \ {s}  PROVE n.tail[r] # n.tail[s]
        <4>1. P(n.tail[r]) = m.tail[r] /\ P(n.tail[s]) = m.tail[s]
          BY <1>2, <1>3
        <4> QED  BY <3>1, <4>1
      <3> QED  BY <1>5, <3>1, <3>2
    <2> QED  BY <2>1, <2>2, <2>3, <2>4 DEF TailsStaged
  <1> QED  BY <1>2, <1>7, <1>8, <1>9 DEF Staged, n

LEMMA SwapFrame ==
    ASSUME NEW m \in Stages, NEW R, Frame(m, R),
           NEW i \in Ids, NEW j \in Ids, i \in R, j \in R
    PROVE  Frame(Swap(m, i, j), R)
  <1>1. \A k \in Ids : Swap(m, i, j).cell[k] = m.cell[Exchanged(i, j, k)]
    BY SwapFacts
  <1>2. \A k \in Ids \ R : k # i /\ k # j
    OBVIOUS
  <1>3. \A k \in Ids \ R : Exchanged(i, j, k) = k
    BY <1>2 DEF Exchanged
  <1>4. \A k \in Ids \ R : Swap(m, i, j).cell[k] = m.cell[k]
    BY <1>1, <1>3
  <1> QED  BY <1>4 DEF Frame

(* k sequences of the ubatch are where they belong. *)
GatherInv(x, u, k, lo, hi, st, tx) ==
    /\ Staged(x, Later(u), Firsts(u, Len(u)), st, tx) /\ Frame(x, lo .. hi)
    /\ \A j \in 1 .. k : x.tail[First(u, j)] = (lo + j) - 1
    /\ \A j \in 1 .. Len(u) : x.tail[First(u, j)] \in lo .. hi

LEMMA GatherStep ==
    ASSUME NEW u, UbatchOK(u), NEW k \in 1 .. Len(u), NEW lo \in Ids, NEW hi \in Ids,
           (lo + Len(u)) - 1 <= hi, NEW st, NEW tx, NEW x,
           GatherInv(x, u, k - 1, lo, hi, st, tx)
    PROVE  GatherInv(Swap(x, x.tail[First(u, k)], (lo + k) - 1), u, k, lo, hi, st, tx)
  <1> DEFINE s == First(u, k)
             i == x.tail[s]
             p == (lo + k) - 1
             X == Firsts(u, Len(u))
             y == Swap(x, i, p)
  <1>1. /\ Staged(x, Later(u), X, st, tx) /\ Frame(x, lo .. hi)
        /\ \A j \in 1 .. k - 1 : x.tail[First(u, j)] = (lo + j) - 1
        /\ \A j \in 1 .. Len(u) : x.tail[First(u, j)] \in lo .. hi
    BY DEF GatherInv
  <1>2. /\ Len(u) \in Nat /\ Len(u) >= 1 /\ Later(u) \in SUBSET Ids /\ X \in SUBSET Ids
        /\ \A j \in 1 .. Len(u) : First(u, j) \in Ids
        /\ \A j, l \in 1 .. Len(u) : First(u, j) = First(u, l) => j = l
    BY FirstsFacts
  <1>3. \A j \in 1 .. Len(u) : First(u, j) \in X
    BY DEF Firsts
  <1>4. lo \in Nat /\ hi \in Nat /\ lo .. hi \subseteq Ids
    BY IdsFacts
  <1>5. k \in Nat /\ k >= 1 /\ k <= Len(u)
    BY <1>2
  <1>6. i \in lo .. hi /\ p \in lo .. hi /\ s \in Ids
    <2>1. i \in lo .. hi /\ s \in Ids
      BY <1>1, <1>2
    <2>2. p \in lo .. hi
      BY <1>2, <1>4, <1>5
    <2> QED  BY <2>1, <2>2
  <1>7. i \in Ids /\ p \in Ids /\ x \in Stages
    BY <1>1, <1>4, <1>6 DEF Staged
  <1> HIDE DEF s, i, p, X
  <1>8. Staged(y, Later(u), X, st, tx)
    BY <1>1, <1>2, <1>7, SwapStaged
  <1>9. Frame(y, lo .. hi)
    BY <1>1, <1>6, <1>7, SwapFrame
  <1>10. \A r \in Ids : y.tail[r] = Exchanged(i, p, x.tail[r])
    BY <1>7, SwapFacts
  <1> HIDE DEF y
  <1>11. ASSUME NEW j \in 1 .. Len(u)  PROVE y.tail[First(u, j)] \in lo .. hi
    <2>1. x.tail[First(u, j)] \in lo .. hi /\ First(u, j) \in Ids
      BY <1>1, <1>2
    <2>2. y.tail[First(u, j)] = Exchanged(i, p, x.tail[First(u, j)])
      BY <1>10, <2>1
    <2> QED  BY <1>6, <2>1, <2>2 DEF Exchanged
  <1>12. ASSUME NEW j \in 1 .. k  PROVE y.tail[First(u, j)] = (lo + j) - 1
    <2>1. j \in 1 .. Len(u) /\ j \in Nat
      BY <1>2, <1>5
    <2>2. First(u, j) \in Ids /\ First(u, j) \in X
      BY <1>2, <1>3, <2>1
    <2>3. y.tail[First(u, j)] = Exchanged(i, p, x.tail[First(u, j)])
      BY <1>10, <2>2
    <2>4. CASE j = k
      <3>1. x.tail[First(u, j)] = i /\ p = (lo + j) - 1
        BY <2>4 DEF s, i, p
      <3> QED  BY <2>3, <3>1 DEF Exchanged
    <2>5. CASE j # k
      <3>1. j \in 1 .. k - 1 /\ k \in 1 .. Len(u)
        BY <1>5, <2>1, <2>5
      <3>2. x.tail[First(u, j)] = (lo + j) - 1
        BY <1>1, <3>1
      <3>3. First(u, j) # s
        BY <1>2, <2>1, <2>5, <3>1 DEF s
      <3>4. x.tail[s] # x.tail[First(u, j)]
        BY <1>1, <1>6, <2>2, <3>3 DEF Staged, TailsStaged
      <3>5. (lo + j) - 1 # i
        BY <3>2, <3>4 DEF i
      <3>6. (lo + j) - 1 # p
        BY <1>4, <1>5, <2>1, <2>5 DEF p
      <3> QED  BY <2>3, <3>2, <3>5, <3>6 DEF Exchanged
    <2> QED  BY <2>4, <2>5
  <1>13. GatherInv(y, u, k, lo, hi, st, tx)
    BY <1>8, <1>9, <1>11, <1>12 DEF GatherInv, X
  <1> QED  BY <1>13 DEF y, i, p, s

(* As many cells as sequences are in the range, which is of one cell for a    *)
(* ubatch of one sequence.                                                   *)
LEMMA RangeFits ==
    ASSUME NEW u, UbatchOK(u), NEW tail \in [Ids -> Ids \cup {None}],
           \A s \in Firsts(u, Len(u)) : tail[s] # None
                                        /\ \A r \in Ids \ {s} : tail[r] # tail[s]
    PROVE  LET C  == {tail[s] : s \in Firsts(u, Len(u))}
               lo == MinOf(C)
               hi == MaxOf(C)
           IN  /\ lo \in Ids /\ hi \in Ids /\ C \subseteq lo .. hi
               /\ (lo + Len(u)) - 1 <= hi
               /\ Len(u) = 1 => lo = hi
  <1> DEFINE X  == Firsts(u, Len(u))
             C  == {tail[s] : s \in X}
             lo == MinOf(C)
             hi == MaxOf(C)
             f  == [j \in 1 .. Len(u) |-> tail[First(u, j)]]
  <1>1. /\ Len(u) \in Nat /\ Len(u) >= 1 /\ X \in SUBSET Ids
        /\ \A j \in 1 .. Len(u) : First(u, j) \in Ids
        /\ \A j, l \in 1 .. Len(u) : First(u, j) = First(u, l) => j = l
    BY FirstsFacts
  <1>2. \A j \in 1 .. Len(u) : First(u, j) \in X
    BY DEF Firsts
  <1>3. C \in SUBSET Ids
    BY <1>1
  <1>4. C # {}
    <2>1. 1 \in 1 .. Len(u)
      BY <1>1
    <2>2. tail[First(u, 1)] \in C
      BY <1>2, <2>1
    <2> QED  BY <2>2
  <1>5. \A j \in 1 .. Len(u) : f[j] \in C
    BY <1>2
  <1>6. \A j, l \in 1 .. Len(u) : f[j] = f[l] => j = l
    <2> SUFFICES ASSUME NEW j \in 1 .. Len(u), NEW l \in 1 .. Len(u), f[j] = f[l]
                 PROVE  j = l
      OBVIOUS
    <2>1. First(u, j) \in X /\ First(u, l) \in Ids /\ tail[First(u, l)] = tail[First(u, j)]
      BY <1>1, <1>2
    <2>2. First(u, l) = First(u, j)
      BY <2>1
    <2> QED  BY <1>1, <2>2
  <1>7. Len(u) = 1 => \A c, d \in C : c = d
    <2>1. ASSUME Len(u) = 1, NEW c \in C, NEW d \in C  PROVE c = d
      <3>1. PICK j \in 1 .. 1 : c = tail[First(u, j)]
        BY <2>1 DEF Firsts
      <3>2. PICK l \in 1 .. 1 : d = tail[First(u, l)]
        BY <2>1 DEF Firsts
      <3>3. j = 1 /\ l = 1
        OBVIOUS
      <3> QED  BY <3>1, <3>2, <3>3
    <2> QED  BY <2>1
  <1>8. f \in [1 .. Len(u) -> C]
    BY <1>5
  <1> HIDE DEF C, f
  <1>9. lo \in C /\ \A c \in C : lo <= c
    <2>1. C \in SUBSET Nat
      BY <1>3, IdsFacts
    <2> QED  BY <1>4, <2>1, MinFacts
  <1>10. hi \in C /\ \A c \in C : hi >= c
    BY <1>3, <1>4, MaxFacts
  <1> HIDE DEF lo, hi
  <1>11. lo \in Nat /\ hi \in Nat /\ lo <= hi /\ lo \in Ids /\ hi \in Ids
    BY <1>3, <1>9, <1>10, IdsFacts
  <1>12. C \subseteq lo .. hi
    BY <1>3, <1>9, <1>10, <1>11, IdsFacts
  <1>13. (lo + Len(u)) - 1 <= hi
    <2> SUFFICES ASSUME ~((lo + Len(u)) - 1 <= hi)  PROVE FALSE
      OBVIOUS
    <2>1. IsFiniteSet(lo .. hi) /\ Cardinality(lo .. hi) = (hi - lo) + 1
      BY <1>11, FS_Interval
    <2>2. IsFiniteSet(1 .. Len(u)) /\ Cardinality(1 .. Len(u)) = Len(u)
      BY <1>1, FS_Interval
    <2>3. Cardinality(lo .. hi) < Cardinality(1 .. Len(u))
      BY <1>1, <1>11, <2>1, <2>2
    <2>4. f \in [1 .. Len(u) -> lo .. hi]
      BY <1>8, <1>12
    <2> DEFINE A == 1 .. Len(u)
               B == lo .. hi
    <2>5. IsFiniteSet(A) /\ IsFiniteSet(B) /\ Cardinality(B) < Cardinality(A) /\ f \in [A -> B]
      BY <2>1, <2>2, <2>3, <2>4
    <2>6. \A j, l \in A : f[j] = f[l] => j = l
      BY <1>6
    <2> HIDE DEF A, B
    <2>7. \E j, l \in A : j # l /\ f[j] = f[l]
      BY <2>5, FS_PigeonHole
    <2> QED  BY <2>6, <2>7
  <1>14. Len(u) = 1 => lo = hi
    BY <1>7, <1>9, <1>10
  <1> QED  BY <1>11, <1>12, <1>13, <1>14 DEF lo, hi, C

LEMMA GatheredStaged ==
    ASSUME NEW u, UbatchOK(u), NEW lo \in Ids, NEW hi \in Ids,
           (lo + Len(u)) - 1 <= hi, NEW st, NEW tx, NEW m,
           Staged(m, Later(u), Firsts(u, Len(u)), st, tx), Frame(m, lo .. hi),
           \A s \in Firsts(u, Len(u)) : m.tail[s] \in lo .. hi
    PROVE  GatherInv(Gathered(m, u, lo), u, Len(u), lo, hi, st, tx)
  <1>1. Len(u) \in Nat /\ Len(u) >= 1
    BY FirstsFacts
  <1>2. PICK x : GatherSteps(x, m, u, lo)
    BY <1>1, GatheredLoop
  <1> DEFINE S == {k \in 0 .. Len(u) : GatherInv(x[k], u, k, lo, hi, st, tx)}
  <1>3. 0 \in S
    <2>1. \A j \in 1 .. Len(u) : m.tail[First(u, j)] \in lo .. hi
      BY DEF Firsts
    <2>2. GatherInv(x[0], u, 0, lo, hi, st, tx)
      BY <1>2, <2>1 DEF GatherInv, GatherSteps
    <2> QED  BY <1>1, <2>2
  <1>4. \A k \in 0 .. Len(u) - 1 : k \in S => k + 1 \in S
    <2> SUFFICES ASSUME NEW k \in 0 .. Len(u) - 1, k \in S  PROVE k + 1 \in S
      OBVIOUS
    <2> DEFINE j == k + 1
    <2>1. j \in 1 .. Len(u) /\ j - 1 = k /\ j \in 0 .. Len(u)
      BY <1>1
    <2>2. GatherInv(x[j - 1], u, j - 1, lo, hi, st, tx)
      BY <2>1
    <2>3. x[j] = Swap(x[j - 1], (x[j - 1]).tail[First(u, j)], (lo + j) - 1)
      BY <1>2, <2>1 DEF GatherSteps
    <2> HIDE DEF j
    <2>4. GatherInv(x[j], u, j, lo, hi, st, tx)
      BY <2>1, <2>2, <2>3, GatherStep
    <2>5. j \in S
      BY <2>1, <2>4
    <2> QED  BY <2>5 DEF j
  <1>5. Len(u) \in S
    <2> HIDE DEF S
    <2>1. 0 .. Len(u) \subseteq S
      BY <1>1, <1>3, <1>4, Induct
    <2> QED  BY <1>1, <2>1
  <1> QED  BY <1>2, <1>5 DEF GatherSteps

(***************************************************************************)
(* The batch gets its cells.                                               *)
(***************************************************************************)
LEMMA PlaceOfFacts ==
    ASSUME NEW u, UbatchOK(u)
    PROVE  /\ \A s : \A k \in PlaceOf(u, s) :
                    k \in 1 .. Len(u) /\ s \in Range(u[k].ids) /\ MinOf(PlaceOf(u, s)) = k
           /\ \A k \in 1 .. Len(u) : \A s \in Range(u[k].ids) :
                    k \in PlaceOf(u, s) /\ MinOf(PlaceOf(u, s)) = k
  <1>1. Len(u) \in Nat /\ DOMAIN u = 1 .. Len(u)
    BY FirstsFacts DEF UbatchOK
  <1>2. \A j, k \in 1 .. Len(u) : j # k => Range(u[j].ids) \cap Range(u[k].ids) = {}
    BY DEF UbatchOK
  <1>3. ASSUME NEW s, NEW k \in PlaceOf(u, s)
        PROVE  k \in 1 .. Len(u) /\ s \in Range(u[k].ids) /\ MinOf(PlaceOf(u, s)) = k
    <2>1. PlaceOf(u, s) \in SUBSET Nat /\ PlaceOf(u, s) # {}
      BY <1>1 DEF PlaceOf
    <2>2. MinOf(PlaceOf(u, s)) \in PlaceOf(u, s)
      BY <2>1, MinFacts
    <2>3. \A j \in PlaceOf(u, s) : j \in 1 .. Len(u) /\ s \in Range(u[j].ids)
      BY <1>1 DEF PlaceOf
    <2>4. \A j \in PlaceOf(u, s) : j = k
      BY <1>2, <2>3
    <2> QED  BY <2>2, <2>3, <2>4
  <1>4. \A k \in 1 .. Len(u) : \A s \in Range(u[k].ids) : k \in PlaceOf(u, s)
    BY <1>1 DEF PlaceOf
  <1> QED  BY <1>3, <1>4

(* r is g with the batch in the cells from lo on. *)
Batched(r, g, u, lo) ==
    /\ \A i \in Ids : r.cell[i].src = g.cell[i].src
    /\ \A i \in Ids : (\A k \in 1 .. Len(u) : i # (lo + k) - 1) => r.cell[i] = g.cell[i]
    /\ \A k \in 1 .. Len(u) : /\ r.cell[(lo + k) - 1].seqs = Range(u[k].ids)
                              /\ r.cell[(lo + k) - 1].pos >= 0
    /\ \A k \in 1 .. Len(u) : \A s \in Range(u[k].ids) : r.tail[s] = (lo + k) - 1
    /\ \A s \in Ids : PlaceOf(u, s) = {} => r.tail[s] = g.tail[s]

LEMMA AssignedFacts ==
    ASSUME NEW u, UbatchOK(u), NEW lo \in Ids, NEW hi \in Ids,
           (lo + Len(u)) - 1 <= hi, NEW g \in Stages
    PROVE  /\ Assigned(g, u, lo) \in Stages /\ Assigned(g, u, lo).ok = g.ok
           /\ Batched(Assigned(g, u, lo), g, u, lo)
  <1> DEFINE k(i) == (i - lo) + 1
             new  == [i \in Ids |-> IF k(i) \in DOMAIN u
                        THEN [g.cell[i] EXCEPT !.pos = u[k(i)].last,
                                               !.seqs = Range(u[k(i)].ids)]
                        ELSE g.cell[i]]
             tail == [s \in Ids |-> IF PlaceOf(u, s) = {} THEN g.tail[s]
                                    ELSE (lo + MinOf(PlaceOf(u, s))) - 1]
             r    == Assigned(g, u, lo)
  <1>1. /\ Len(u) \in Nat /\ DOMAIN u = 1 .. Len(u) /\ lo \in Nat /\ hi \in Nat
        /\ \A j \in 1 .. Len(u) : (lo + j) - 1 \in Ids
    <2>1. Len(u) \in Nat /\ DOMAIN u = 1 .. Len(u) /\ lo \in Nat /\ hi \in Nat /\ hi < Size
      BY FirstsFacts, IdsFacts DEF UbatchOK
    <2>2. \A j \in 1 .. Len(u) : (lo + j) - 1 \in Nat /\ (lo + j) - 1 <= hi
      BY <2>1
    <2> QED  BY <2>1, <2>2, IdsFacts
  <1>2. g = [cell |-> g.cell, tail |-> g.tail, head |-> g.head, used |-> g.used, ok |-> g.ok]
    BY DEF Stages
  <1>3. r = [g EXCEPT !.cell = new, !.tail = tail]
    BY DEF Assigned
  <1> HIDE DEF new, tail, r
  <1>4. r = [cell |-> new, tail |-> tail, head |-> g.head, used |-> g.used, ok |-> g.ok]
    BY <1>2, <1>3
  <1>5. /\ r.cell = new /\ r.tail = tail /\ r.ok = g.ok
    BY <1>4
  <1>6. g.cell \in [Ids -> Cells] /\ g.tail \in [Ids -> Ids \cup {None}]
    BY DEF Stages
  <1>7. ASSUME NEW i \in Ids
        PROVE  /\ new[i] \in Cells /\ new[i].src = g.cell[i].src
               /\ k(i) \notin DOMAIN u => new[i] = g.cell[i]
               /\ k(i) \in DOMAIN u => /\ new[i].seqs = Range(u[k(i)].ids)
                                       /\ new[i].pos >= 0
    <2>1. g.cell[i] \in Cells
      BY <1>6
    <2>2. CASE k(i) \in DOMAIN u
      <3>1. k(i) \in 1 .. Len(u)
        BY <1>1, <2>2
      <3>2. Range(u[k(i)].ids) \in SUBSET Ids /\ u[k(i)].last \in 0 .. MaxPos
        BY <3>1 DEF UbatchOK
      <3>3. new[i] = [g.cell[i] EXCEPT !.pos = u[k(i)].last, !.seqs = Range(u[k(i)].ids)]
        BY <2>2 DEF new
      <3> DEFINE q == u[k(i)].last
                 S == Range(u[k(i)].ids)
      <3>4. q \in 0 .. MaxPos /\ S \in SUBSET Ids /\ MaxPos \in Nat
        BY <3>2, RecurrentAssumption
      <3>5. new[i] = [g.cell[i] EXCEPT !.pos = q, !.seqs = S]
        BY <3>3
      <3> HIDE DEF k, q, S
      <3>6. g.cell[i] = [pos |-> g.cell[i].pos, src |-> g.cell[i].src, seqs |-> g.cell[i].seqs]
            /\ g.cell[i].src \in Ids \cup {None}
        BY <2>1 DEF Cells
      <3>7. new[i] = [pos |-> q, src |-> g.cell[i].src, seqs |-> S]
        BY <3>5, <3>6
      <3>8. q \in -1 .. MaxPos /\ q >= 0
        BY <3>4
      <3>9. new[i] \in Cells /\ new[i].src = g.cell[i].src /\ new[i].seqs = S /\ new[i].pos = q
        BY <3>4, <3>6, <3>7, <3>8 DEF Cells
      <3> QED  BY <2>2, <3>8, <3>9 DEF S
    <2>3. CASE k(i) \notin DOMAIN u
      <3>1. new[i] = g.cell[i]
        BY <2>3 DEF new
      <3> QED  BY <2>1, <2>3, <3>1
    <2> QED  BY <2>2, <2>3
  <1>8. ASSUME NEW j \in 1 .. Len(u)
        PROVE  /\ (lo + j) - 1 \in Ids /\ k((lo + j) - 1) = j /\ j \in DOMAIN u
    BY <1>1
  <1>9. ASSUME NEW s \in Ids
        PROVE  /\ tail[s] \in Ids \cup {None}
               /\ PlaceOf(u, s) = {} => tail[s] = g.tail[s]
               /\ \A j \in PlaceOf(u, s) : tail[s] = (lo + j) - 1
    <2>1. \A j \in PlaceOf(u, s) : j \in 1 .. Len(u) /\ MinOf(PlaceOf(u, s)) = j
      BY PlaceOfFacts
    <2>2. tail[s] = IF PlaceOf(u, s) = {} THEN g.tail[s]
                    ELSE (lo + MinOf(PlaceOf(u, s))) - 1
      BY DEF tail
    <2>3. g.tail[s] \in Ids \cup {None}
      BY <1>6
    <2>4. \A j \in PlaceOf(u, s) : tail[s] = (lo + j) - 1 /\ (lo + j) - 1 \in Ids
      BY <1>1, <2>1, <2>2
    <2> QED  BY <2>2, <2>3, <2>4
  <1>10. new \in [Ids -> Cells] /\ tail \in [Ids -> Ids \cup {None}]
    BY <1>7, <1>9 DEF new, tail
  <1>11. r \in Stages
    BY <1>4, <1>10 DEF Stages
  <1>12. \A i \in Ids : (\A j \in 1 .. Len(u) : i # (lo + j) - 1) => k(i) \notin DOMAIN u
    <2> SUFFICES ASSUME NEW i \in Ids, \A j \in 1 .. Len(u) : i # (lo + j) - 1,
                        k(i) \in DOMAIN u
                 PROVE  FALSE
      OBVIOUS
    <2>1. k(i) \in 1 .. Len(u) /\ i \in Nat
      BY <1>1, IdsFacts
    <2>2. (lo + k(i)) - 1 = i
      BY <1>1, <2>1
    <2> QED  BY <2>1, <2>2
  <1> HIDE DEF k
  <1>13. \A i \in Ids : new[i].src = g.cell[i].src
    BY <1>7
  <1>14. \A i \in Ids : (\A j \in 1 .. Len(u) : i # (lo + j) - 1) => new[i] = g.cell[i]
    BY <1>7, <1>12
  <1>15. ASSUME NEW j \in 1 .. Len(u)
         PROVE  new[(lo + j) - 1].seqs = Range(u[j].ids) /\ new[(lo + j) - 1].pos >= 0
    <2> DEFINE i == (lo + j) - 1
    <2>1. i \in Ids /\ k(i) = j /\ j \in DOMAIN u
      BY <1>8
    <2> HIDE DEF i
    <2>2. new[i].seqs = Range(u[j].ids) /\ new[i].pos >= 0
      BY <1>7, <2>1
    <2> QED  BY <2>2 DEF i
  <1>16. ASSUME NEW j \in 1 .. Len(u), NEW s \in Range(u[j].ids)
         PROVE  tail[s] = (lo + j) - 1
    <2>1. j \in PlaceOf(u, s)
      BY PlaceOfFacts
    <2>2. s \in Ids
      BY DEF UbatchOK
    <2> QED  BY <1>9, <2>1, <2>2
  <1>17. Batched(r, g, u, lo)
    BY <1>5, <1>9, <1>13, <1>14, <1>15, <1>16 DEF Batched
  <1> QED  BY <1>5, <1>11, <1>17 DEF r

LEMMA BatchedExact ==
    ASSUME NEW u, UbatchOK(u), NEW lo \in Ids, NEW hi \in Ids, NEW st, NEW tx,
           NEW g, GatherInv(g, u, Len(u), lo, hi, st, tx),
           NEW r, Batched(r, g, u, lo)
    PROVE  TailsExact(r) /\ PosExact(r)
  <1>1. /\ g \in Stages /\ TailsStaged(g, Later(u), Firsts(u, Len(u))) /\ PosExact(g)
        /\ \A j \in 1 .. Len(u) : g.tail[First(u, j)] = (lo + j) - 1
    BY DEF GatherInv, Staged
  <1>2. /\ \A j \in 1 .. Len(u) : First(u, j) \in Ids /\ First(u, j) \in Range(u[j].ids)
        /\ Len(u) \in Nat /\ DOMAIN u = 1 .. Len(u) /\ Later(u) \subseteq Ids
    BY FirstsFacts DEF UbatchOK
  <1>3. lo \in Nat /\ \A j, k \in 1 .. Len(u) : (lo + j) - 1 = (lo + k) - 1 => j = k
    BY <1>2, IdsFacts
  <1>4. \A j \in 1 .. Len(u) : (lo + j) - 1 # None
    BY <1>2, <1>3 DEF None
  <1>5. /\ \A i \in Ids : (\A k \in 1 .. Len(u) : i # (lo + k) - 1) => r.cell[i] = g.cell[i]
        /\ \A k \in 1 .. Len(u) : /\ r.cell[(lo + k) - 1].seqs = Range(u[k].ids)
                                  /\ r.cell[(lo + k) - 1].pos >= 0
        /\ \A k \in 1 .. Len(u) : \A s \in Range(u[k].ids) : r.tail[s] = (lo + k) - 1
        /\ \A s \in Ids : PlaceOf(u, s) = {} => r.tail[s] = g.tail[s]
    BY DEF Batched
  <1>6. PosExact(r)
    <2> SUFFICES ASSUME NEW i \in Ids  PROVE r.cell[i].seqs # {} <=> r.cell[i].pos >= 0
      BY DEF PosExact
    <2>1. CASE \E k \in 1 .. Len(u) : i = (lo + k) - 1
      <3>1. PICK k \in 1 .. Len(u) : i = (lo + k) - 1
        BY <2>1
      <3>2. r.cell[i].seqs = Range(u[k].ids) /\ r.cell[i].pos >= 0
        BY <1>5, <3>1
      <3>3. Range(u[k].ids) # {}
        BY <1>2
      <3> QED  BY <3>2, <3>3
    <2>2. CASE \A k \in 1 .. Len(u) : i # (lo + k) - 1
      <3>1. r.cell[i] = g.cell[i]
        BY <1>5, <2>2
      <3> QED  BY <1>1, <3>1 DEF PosExact
    <2> QED  BY <2>1, <2>2
  <1>7. \A s \in Ids : PlaceOf(u, s) = {} => s \notin Firsts(u, Len(u))
    <2> SUFFICES ASSUME NEW s \in Ids, PlaceOf(u, s) = {}, s \in Firsts(u, Len(u))
                 PROVE  FALSE
      OBVIOUS
    <2>1. PICK j \in 1 .. Len(u) : s = First(u, j)
      BY DEF Firsts
    <2> QED  BY <1>2, <2>1 DEF PlaceOf
  <1>8. \A j \in 1 .. Len(u) : \A s \in Range(u[j].ids) :
            s \in Ids /\ (g.tail[s] = None \/ g.tail[s] = (lo + j) - 1)
    <2> SUFFICES ASSUME NEW j \in 1 .. Len(u), NEW s \in Range(u[j].ids)
                 PROVE  s \in Ids /\ (g.tail[s] = None \/ g.tail[s] = (lo + j) - 1)
      OBVIOUS
    <2>1. s \in Ids
      BY DEF UbatchOK
    <2>2. CASE s = First(u, j)
      BY <1>1, <2>1, <2>2
    <2>3. CASE s # First(u, j)
      <3>1. s \in Later(u)
        BY <1>2, <2>3 DEF Later
      <3>2. g.tail[s] = None
        BY <1>1, <3>1 DEF TailsStaged
      <3> QED  BY <2>1, <3>2
    <2> QED  BY <2>2, <2>3
  <1>9. \A s \in Ids : PlaceOf(u, s) = {} =>
            /\ \A i \in Ids : s \in g.cell[i].seqs <=> g.tail[s] = i
            /\ \A j \in 1 .. Len(u) : g.tail[s] # (lo + j) - 1
    <2> SUFFICES ASSUME NEW s \in Ids, PlaceOf(u, s) = {}
                 PROVE  /\ \A i \in Ids : s \in g.cell[i].seqs <=> g.tail[s] = i
                        /\ \A j \in 1 .. Len(u) : g.tail[s] # (lo + j) - 1
      OBVIOUS
    <2>1. s \notin Firsts(u, Len(u))
      BY <1>7
    <2>2. ASSUME NEW i \in Ids  PROVE s \in g.cell[i].seqs <=> g.tail[s] = i
      <3>1. i # None
        BY IdsFacts
      <3> QED  BY <1>1, <2>1, <3>1 DEF TailsStaged
    <2>3. ASSUME NEW j \in 1 .. Len(u)  PROVE g.tail[s] # (lo + j) - 1
      <3>1. First(u, j) \in Firsts(u, Len(u)) /\ First(u, j) \in Ids
        BY <1>2 DEF Firsts
      <3>2. s # First(u, j)
        BY <2>1, <3>1
      <3>3. g.tail[s] # g.tail[First(u, j)]
        BY <1>1, <3>1, <3>2 DEF TailsStaged
      <3> QED  BY <1>1, <3>3
    <2> QED  BY <2>2, <2>3
  <1>10. ASSUME NEW s \in Ids, NEW i \in Ids  PROVE s \in r.cell[i].seqs <=> r.tail[s] = i
    <2>1. CASE \E k \in 1 .. Len(u) : i = (lo + k) - 1
      <3>1. PICK k \in 1 .. Len(u) : i = (lo + k) - 1
        BY <2>1
      <3>2. r.cell[i].seqs = Range(u[k].ids)
        BY <1>5, <3>1
      <3>3. s \in Range(u[k].ids) => r.tail[s] = i
        BY <1>5, <3>1
      <3>4. ASSUME r.tail[s] = i  PROVE s \in Range(u[k].ids)
        <4>1. PlaceOf(u, s) # {}
          <5> SUFFICES ASSUME PlaceOf(u, s) = {}  PROVE FALSE
            OBVIOUS
          <5>1. r.tail[s] = g.tail[s]
            BY <1>5
          <5>2. g.tail[s] # (lo + k) - 1
            BY <1>9
          <5> QED  BY <3>1, <3>4, <5>1, <5>2
        <4>2. PICK j : j \in PlaceOf(u, s)
          BY <4>1
        <4>3. j \in 1 .. Len(u) /\ s \in Range(u[j].ids)
          BY <1>2, <4>2 DEF PlaceOf
        <4>4. j = k
          BY <1>3, <1>5, <3>1, <3>4, <4>3
        <4> QED  BY <4>3, <4>4
      <3> QED  BY <3>2, <3>3, <3>4
    <2>2. CASE \A k \in 1 .. Len(u) : i # (lo + k) - 1
      <3>1. r.cell[i] = g.cell[i]
        BY <1>5, <2>2
      <3>2. CASE PlaceOf(u, s) = {}
        BY <1>5, <1>9, <3>1, <3>2
      <3>3. CASE PlaceOf(u, s) # {}
        <4>1. PICK j : j \in PlaceOf(u, s)
          BY <3>3
        <4>2. j \in 1 .. Len(u) /\ s \in Range(u[j].ids)
          BY <1>2, <4>1 DEF PlaceOf
        <4>3. r.tail[s] # i
          BY <1>5, <2>2, <4>2
        <4>4. g.tail[s] # i
          BY <1>8, <2>2, <4>2, IdsFacts
        <4>5. s \notin g.cell[i].seqs
          BY <1>1, <4>4 DEF TailsStaged
        <4> QED  BY <3>1, <4>3, <4>5
      <3> QED  BY <3>2, <3>3
    <2> QED  BY <2>1, <2>2
  <1> QED  BY <1>6, <1>10 DEF TailsExact

-----------------------------------------------------------------------------
(***************************************************************************)
(* find_slot() as a whole.                                                 *)
(***************************************************************************)

(* Its result, from the memory r in which the batch has its cells.           *)
SlotOf(r, u, lo, hi) ==
    LET range == lo .. hi
        z     == RsZ(r, range)
        src0  == [i \in range |-> IF r.cell[i].src = None THEN z ELSE r.cell[i].src]
    IN  [mem  |-> [cell |-> [i \in Ids |-> IF i \in range
                                THEN [r.cell[i] EXCEPT !.src = i] ELSE r.cell[i]],
                   tail |-> r.tail,
                   head |-> lo,
                   used |-> Cardinality(Used(r)),
                   ok   |-> r.ok /\ (\A i \in range : src0[i] # None)
                                 /\ Cardinality(range) >= Len(u)],
         rs_z |-> z, src0 |-> src0]

SlotGathered(f, u, lo, hi, g, st, tx) ==
    /\ lo \in Ids /\ hi \in Ids /\ (lo + Len(u)) - 1 <= hi /\ (Len(u) = 1 => lo = hi)
    /\ GatherInv(g, u, Len(u), lo, hi, st, tx)
    /\ f = SlotOf(Assigned(g, u, lo), u, lo, hi)

LEMMA FindSlotGathered ==
    ASSUME NEW m, Consistent(m), NEW st, NEW tx, Exact(m, st, tx),
           NEW u, UbatchOK(u)
    PROVE  \E lo, hi, g : SlotGathered(find_slot(m, u), u, lo, hi, g, st, tx)
  <1> DEFINE h  == IF m.head > m.used + 2 * Len(u) THEN 0 ELSE m.head
             d  == Detached([m EXCEPT !.head = h], Later(u))
             a  == PlaceAll(d, u)
             X  == Firsts(u, Len(u))
             C  == {a.m.tail[s] : s \in X}
             lo == MinOf(a.cells)
             hi == MaxOf(a.cells)
             g  == Gathered(a.m, u, lo)
  <1>1. m \in Memories /\ m.head \in Ids
    BY DEF Consistent, Memories
  <1>2. h \in Ids /\ Later(u) \in SUBSET Ids
    BY <1>1, IdsFacts, FirstsFacts
  <1>3. find_slot(m, u) = SlotOf(Assigned(g, u, lo), u, lo, hi)
    <2>1. [m EXCEPT !.head = IF @ > m.used + 2 * Len(u) THEN 0 ELSE @] = [m EXCEPT !.head = h]
      BY <1>1 DEF Memories
    <2> QED  BY <2>1 DEF find_slot, SlotOf
  <1> HIDE DEF h
  <1>4. Staged(d, Later(u), {}, st, tx) /\ Frame(d, {})
    BY <1>2, DetachedStaged
  <1> HIDE DEF d
  <1>5. /\ Staged(a.m, Later(u), X, st, tx) /\ Frame(a.m, a.cells) /\ a.cells = C
    BY <1>4, PlaceAllStaged
  <1> HIDE DEF a
  <1>6. /\ a.m.tail \in [Ids -> Ids \cup {None}] /\ X \in SUBSET Ids
        /\ \A s \in X : a.m.tail[s] # None /\ \A r \in Ids \ {s} : a.m.tail[r] # a.m.tail[s]
    <2>1. X \in SUBSET Ids
      <3>1. Len(u) \in 1 .. Len(u)
        BY FirstsFacts
      <3> QED  BY <3>1, FirstsFacts
    <2> QED  BY <1>5, <2>1 DEF Staged, Stages, TailsStaged
  <1>7. /\ lo \in Ids /\ hi \in Ids /\ C \subseteq lo .. hi
        /\ (lo + Len(u)) - 1 <= hi
        /\ Len(u) = 1 => lo = hi
    <2> DEFINE tail == a.m.tail
    <2>1. /\ tail \in [Ids -> Ids \cup {None}]
          /\ \A s \in Firsts(u, Len(u)) : tail[s] # None
                                        /\ \A r \in Ids \ {s} : tail[r] # tail[s]
      BY <1>6
    <2>2. a.cells = {tail[s] : s \in Firsts(u, Len(u))}
      BY <1>5
    <2> HIDE DEF tail
    <2>3. /\ lo \in Ids /\ hi \in Ids /\ a.cells \subseteq lo .. hi
          /\ (lo + Len(u)) - 1 <= hi
          /\ Len(u) = 1 => lo = hi
      BY <2>1, <2>2, RangeFits
    <2> QED  BY <1>5, <2>3
  <1>8. Frame(a.m, lo .. hi)
    BY <1>5, <1>7 DEF Frame
  <1>9. \A s \in X : a.m.tail[s] \in lo .. hi
    BY <1>7
  <1> HIDE DEF lo, hi
  <1>10. GatherInv(g, u, Len(u), lo, hi, st, tx)
    BY <1>5, <1>7, <1>8, <1>9, GatheredStaged
  <1> HIDE DEF g
  <1>11. SlotGathered(find_slot(m, u), u, lo, hi, g, st, tx)
    BY <1>3, <1>7, <1>10 DEF SlotGathered
  <1> QED  BY <1>11

(* A cell that no state comes from is found when one is needed: the cells of  *)
(* the range take their states from the range, and one of them from none.   *)
LEMMA RsZFacts ==
    ASSUME NEW lo \in Ids, NEW hi \in Ids, NEW r, r.cell \in [Ids -> Cells],
           Frame(r, lo .. hi)
    PROVE  LET z == RsZ(r, lo .. hi)
           IN  /\ z = None \/ (z \in lo .. hi /\ \A j \in Ids : r.cell[j].src # z)
               /\ \A i \in lo .. hi : r.cell[i].src = None => z # None
  <1> DEFINE R == lo .. hi
             U == Unreferenced(r, R)
             z == RsZ(r, R)
  <1>1. R \in SUBSET Ids /\ lo \in Nat /\ hi \in Nat
    BY IdsFacts
  <1>2. R \in SUBSET Nat
    BY <1>1, IdsFacts
  <1> HIDE DEF R
  <1>3. U \in SUBSET Nat /\ U \in SUBSET R
    BY <1>2 DEF Unreferenced
  <1>4. U # {} => z \in U
    <2> SUFFICES ASSUME U # {}  PROVE z \in U
      OBVIOUS
    <2>1. z = MinOf(U)
      BY DEF RsZ
    <2> HIDE DEF U
    <2> QED  BY <1>3, <2>1, MinFacts
  <1>5. U = {} => z = None
    BY DEF RsZ
  <1>6. z \in U => z \in R /\ \A j \in Ids : r.cell[j].src # z
    BY DEF Unreferenced
  <1>7. ASSUME NEW i \in R, r.cell[i].src = None, U = {}  PROVE FALSE
    <2> DEFINE T == R \ {i}
               f == [q \in R |-> CHOOSE j \in T : r.cell[j].src = q]
    <2>1. ASSUME NEW q \in R  PROVE \E j \in T : r.cell[j].src = q
      <3>1. PICK j \in Ids : r.cell[j].src = q
        BY <1>7 DEF Unreferenced
      <3>2. q # None
        BY <1>1, IdsFacts
      <3>3. j \in R
        BY <3>1, <3>2 DEF Frame, R
      <3> QED  BY <1>7, <3>1, <3>2, <3>3
    <2>2. \A q \in R : f[q] \in T /\ r.cell[f[q]].src = q
      BY <2>1
    <2>3. f \in [R -> T]
      BY <2>2
    <2>4. IsFiniteSet(R) /\ IsFiniteSet(T) /\ Cardinality(T) < Cardinality(R)
      <3>1. IsFiniteSet(R) /\ Cardinality(R) \in Nat
        BY <1>1, IdsFacts
      <3>2. IsFiniteSet(T) /\ Cardinality(T) = Cardinality(R) - 1
        BY <1>7, <3>1, FS_RemoveElement
      <3> QED  BY <3>1, <3>2
    <2> HIDE DEF f, T
    <2>5. PICK p, q \in R : p # q /\ f[p] = f[q]
      BY <2>3, <2>4, FS_PigeonHole
    <2> QED  BY <2>2, <2>5
  <1>8. \A i \in R : r.cell[i].src = None => z # None
    <2>1. \A i \in R : r.cell[i].src = None => U # {}
      BY <1>7
    <2>2. z \in U => z # None
      BY <1>1, <1>3, IdsFacts
    <2> QED  BY <1>4, <2>1, <2>2
  <1> QED  BY <1>4, <1>5, <1>6, <1>8 DEF R

(* The state that cell i has, or that the graph takes for it. *)
From(f, st, i) ==
    LET z == IF f.rs_z = None THEN st ELSE [st EXCEPT ![f.rs_z] = Empty]
    IN  IF i \in DOMAIN f.src0 THEN z[f.src0[i]] ELSE z[i]

SlotPlaced(f, u) ==
    /\ Consistent(f.mem) /\ InPlace(f.mem)
    /\ DOMAIN f.src0 \subseteq Ids /\ f.rs_z \in DOMAIN f.src0 \cup {None}
    /\ \A i \in DOMAIN f.src0 : f.src0[i] \in Ids
    /\ Len(u) = 1 => DOMAIN f.src0 = {f.mem.head}
    /\ \A k \in 1 .. Len(u) :
            /\ (f.mem.head + k) - 1 \in DOMAIN f.src0
            /\ f.mem.cell[(f.mem.head + k) - 1].seqs = Range(u[k].ids)
            /\ \A s \in Range(u[k].ids) : f.mem.tail[s] = (f.mem.head + k) - 1

SlotStates(f, u, st, tx) ==
    /\ \A k \in 1 .. Len(u) :
            Agrees(From(f, st, (f.mem.head + k) - 1), tx[First(u, k)])
    /\ \A s \in Ids : PlaceOf(u, s) = {} =>
            IF f.mem.tail[s] = None THEN tx[s] = Empty
            ELSE Agrees(From(f, st, f.mem.tail[s]), tx[s])
    /\ \A i \in Ids : f.mem.cell[i].seqs = {} /\ f.mem.cell[i].src = i =>
            Fresh(From(f, st, i))

LEMMA GatheredFacts ==
    ASSUME NEW u, UbatchOK(u), NEW lo \in Ids, NEW hi \in Ids,
           (lo + Len(u)) - 1 <= hi, NEW st, NEW tx,
           NEW g, GatherInv(g, u, Len(u), lo, hi, st, tx)
    PROVE  LET r == Assigned(g, u, lo)
           IN  /\ r \in Stages /\ r.ok /\ Batched(r, g, u, lo)
               /\ TailsExact(r) /\ PosExact(r) /\ Frame(r, lo .. hi)
               /\ \A k \in 1 .. Len(u) : (lo + k) - 1 \in lo .. hi
  <1> DEFINE r == Assigned(g, u, lo)
  <1>1. g \in Stages /\ g.ok /\ Frame(g, lo .. hi)
    BY DEF GatherInv, Staged
  <1>2. r \in Stages /\ r.ok /\ Batched(r, g, u, lo)
    BY <1>1, AssignedFacts
  <1> HIDE DEF r
  <1>3. TailsExact(r) /\ PosExact(r)
    BY <1>2, BatchedExact
  <1>4. \A k \in 1 .. Len(u) : (lo + k) - 1 \in lo .. hi
    BY FirstsFacts, IdsFacts
  <1>5. \A i \in Ids \ (lo .. hi) : r.cell[i] = g.cell[i]
    BY <1>2, <1>4 DEF Batched
  <1>6. Frame(r, lo .. hi)
    BY <1>1, <1>5 DEF Frame
  <1> QED  BY <1>2, <1>3, <1>4, <1>6 DEF r

(* The parts of the result. *)
SlotParts(f, r, u, lo, hi) ==
    LET z == RsZ(r, lo .. hi)
    IN  /\ f.rs_z = z /\ DOMAIN f.src0 = lo .. hi
        /\ \A i \in lo .. hi :
                f.src0[i] = IF r.cell[i].src = None THEN z ELSE r.cell[i].src
        /\ f.mem = [cell |-> f.mem.cell, tail |-> r.tail, head |-> lo,
                    used |-> Cardinality(Used(r)), ok |-> f.mem.ok]
        /\ f.mem.tail = r.tail /\ f.mem.head = lo
        /\ f.mem.used = Cardinality(Used(r))
        /\ f.mem.ok = (r.ok /\ (\A i \in lo .. hi : f.src0[i] # None)
                            /\ Cardinality(lo .. hi) >= Len(u))
        /\ f.mem.cell = [i \in Ids |-> IF i \in lo .. hi
                         THEN [r.cell[i] EXCEPT !.src = i] ELSE r.cell[i]]

LEMMA SlotOfParts ==
    ASSUME NEW r, NEW u, NEW lo, NEW hi
    PROVE  SlotParts(SlotOf(r, u, lo, hi), r, u, lo, hi)
  BY DEF SlotOf, SlotParts

LEMMA SlotOfPlaced ==
    ASSUME NEW u, UbatchOK(u), NEW lo \in Ids, NEW hi \in Ids,
           (lo + Len(u)) - 1 <= hi, Len(u) = 1 => lo = hi,
           NEW g, NEW r, r \in Stages, r.ok, Batched(r, g, u, lo),
           TailsExact(r), PosExact(r), Frame(r, lo .. hi)
    PROVE  SlotPlaced(SlotOf(r, u, lo, hi), u)
  <1> DEFINE f == SlotOf(r, u, lo, hi)
             n == f.mem
             z == RsZ(r, lo .. hi)
             R == lo .. hi
  <1>1. /\ r.cell \in [Ids -> Cells] /\ r.tail \in [Ids -> Ids \cup {None}] /\ r.ok = TRUE
        /\ \A i \in Ids : r.cell[i] \in Cells
    BY DEF Stages
  <1>0. SlotParts(f, r, u, lo, hi)
    BY SlotOfParts
  <1> HIDE DEF f
  <1>2. /\ f.rs_z = z /\ DOMAIN f.src0 = R
        /\ \A i \in R : f.src0[i] = IF r.cell[i].src = None THEN z ELSE r.cell[i].src
    BY <1>0 DEF SlotParts
  <1>3. /\ n = [cell |-> n.cell, tail |-> r.tail, head |-> lo,
                used |-> Cardinality(Used(r)), ok |-> n.ok]
        /\ n.tail = r.tail /\ n.head = lo /\ n.used = Cardinality(Used(r))
        /\ n.ok = (r.ok /\ (\A i \in R : f.src0[i] # None) /\ Cardinality(R) >= Len(u))
        /\ n.cell = [i \in Ids |-> IF i \in R
                            THEN [r.cell[i] EXCEPT !.src = i] ELSE r.cell[i]]
    BY <1>0 DEF SlotParts
  <1>4. /\ z = None \/ (z \in R /\ \A j \in Ids : r.cell[j].src # z)
        /\ \A i \in R : r.cell[i].src = None => z # None
    BY <1>1, RsZFacts
  <1>5. /\ lo \in Nat /\ hi \in Nat /\ R \in SUBSET Ids /\ Len(u) \in Nat /\ Len(u) >= 1
        /\ \A i \in R : i \in Ids
    <2>1. lo \in Nat /\ hi \in Nat /\ Len(u) \in Nat /\ Len(u) >= 1 /\ hi < Size
      BY IdsFacts, FirstsFacts
    <2>2. \A i \in R : i \in Ids
      BY <2>1, IdsFacts
    <2> QED  BY <2>1, <2>2
  <1>6. Cardinality(R) >= Len(u)
    <2>1. lo <= hi
      BY <1>5
    <2>2. Cardinality(R) = (hi - lo) + 1
      BY <1>5, <2>1, FS_Interval
    <2> QED  BY <1>5, <2>2
  <1>7. \A k \in 1 .. Len(u) : (lo + k) - 1 \in R /\ (lo + k) - 1 \in Ids
    <2>1. \A k \in 1 .. Len(u) : (lo + k) - 1 \in R
      BY <1>5
    <2> QED  BY <1>5, <2>1
  <1>8. Len(u) = 1 => R = {lo}
    BY <1>5
  <1> HIDE DEF f, z, R
  <1>9. \A i \in R : f.src0[i] \in Ids
    <2> SUFFICES ASSUME NEW i \in R  PROVE f.src0[i] \in Ids
      OBVIOUS
    <2>1. r.cell[i].src \in Ids \cup {None}
      BY <1>1, <1>5 DEF Cells
    <2> QED  BY <1>2, <1>4, <1>5, <2>1
  <1>10. n.ok = TRUE
    <2>1. \A i \in R : f.src0[i] # None
      BY <1>9, IdsFacts
    <2> QED  BY <1>1, <1>3, <1>6, <2>1
  <1>11. ASSUME NEW i \in Ids
         PROVE  /\ n.cell[i] \in Cells
                /\ n.cell[i].seqs = r.cell[i].seqs /\ n.cell[i].pos = r.cell[i].pos
                /\ n.cell[i].src = IF i \in R THEN i ELSE r.cell[i].src
    <2>1. r.cell[i] \in Cells
      BY <1>1
    <2>2. r.cell[i] = [pos |-> r.cell[i].pos, src |-> r.cell[i].src, seqs |-> r.cell[i].seqs]
      BY <2>1 DEF Cells
    <2>3. n.cell[i] = IF i \in R THEN [r.cell[i] EXCEPT !.src = i] ELSE r.cell[i]
      BY <1>3
    <2> HIDE DEF n
    <2>4. CASE i \in R
      <3>1. n.cell[i] = [pos |-> r.cell[i].pos, src |-> i, seqs |-> r.cell[i].seqs]
        BY <2>2, <2>3, <2>4
      <3> QED  BY <2>1, <2>4, <3>1 DEF Cells
    <2>5. CASE i \notin R
      BY <2>1, <2>3, <2>5
    <2> QED  BY <2>4, <2>5
  <1>12. Used(n) = Used(r)
    BY <1>11 DEF Used, is_empty
  <1>13. Cardinality(Used(r)) \in 0 .. Size
    BY IdsFacts DEF Used
  <1>14. n \in Memories
    <2>1. n.cell \in [Ids -> Cells]
      BY <1>3, <1>11
    <2> QED  BY <1>1, <1>3, <1>10, <1>13, <2>1 DEF Memories
  <1>15. TailsExact(n) /\ PosExact(n)
    BY <1>3, <1>11 DEF TailsExact, PosExact
  <1>16. Consistent(n)
    BY <1>3, <1>10, <1>12, <1>14, <1>15 DEF Consistent
  <1>17. InPlace(n)
    BY <1>11 DEF InPlace, Frame, R
  <1>18. \A k \in 1 .. Len(u) :
            /\ (lo + k) - 1 \in R
            /\ n.cell[(lo + k) - 1].seqs = Range(u[k].ids)
            /\ \A s \in Range(u[k].ids) : n.tail[s] = (lo + k) - 1
    <2> SUFFICES ASSUME NEW k \in 1 .. Len(u)
                 PROVE  /\ (lo + k) - 1 \in R
                        /\ n.cell[(lo + k) - 1].seqs = Range(u[k].ids)
                        /\ \A s \in Range(u[k].ids) : n.tail[s] = (lo + k) - 1
      OBVIOUS
    <2>1. (lo + k) - 1 \in R /\ (lo + k) - 1 \in Ids
      BY <1>7
    <2>2. r.cell[(lo + k) - 1].seqs = Range(u[k].ids)
          /\ \A s \in Range(u[k].ids) : r.tail[s] = (lo + k) - 1
      BY DEF Batched
    <2>3. n.cell[(lo + k) - 1].seqs = r.cell[(lo + k) - 1].seqs
      BY <1>11, <2>1
    <2> QED  BY <1>3, <2>1, <2>2, <2>3
  <1>19. f.rs_z \in R \cup {None}
    BY <1>2, <1>4
  <1>20. SlotPlaced(f, u)
    <2>1. f.mem.head = lo /\ DOMAIN f.src0 = R
      BY <1>2, <1>3
    <2>2. \A k \in 1 .. Len(u) :
            /\ (f.mem.head + k) - 1 \in DOMAIN f.src0
            /\ f.mem.cell[(f.mem.head + k) - 1].seqs = Range(u[k].ids)
            /\ \A s \in Range(u[k].ids) : f.mem.tail[s] = (f.mem.head + k) - 1
      BY <1>18, <2>1
    <2>3. /\ DOMAIN f.src0 \subseteq Ids /\ f.rs_z \in DOMAIN f.src0 \cup {None}
          /\ \A i \in DOMAIN f.src0 : f.src0[i] \in Ids
          /\ Len(u) = 1 => DOMAIN f.src0 = {f.mem.head}
      BY <1>5, <1>8, <1>9, <1>19, <2>1
    <2> QED  BY <1>16, <1>17, <2>2, <2>3 DEF SlotPlaced
  <1> QED  BY <1>20 DEF f

LEMMA SlotOfStates ==
    ASSUME NEW u, UbatchOK(u), NEW lo \in Ids, NEW hi \in Ids,
           (lo + Len(u)) - 1 <= hi, NEW st \in [Ids -> States], NEW tx,
           NEW g, GatherInv(g, u, Len(u), lo, hi, st, tx),
           NEW r, r \in Stages, Batched(r, g, u, lo),
           Frame(r, lo .. hi), TailsExact(r)
    PROVE  SlotStates(SlotOf(r, u, lo, hi), u, st, tx)
  <1> DEFINE f == SlotOf(r, u, lo, hi)
             n == f.mem
             z == RsZ(r, lo .. hi)
             R == lo .. hi
             y == IF f.rs_z = None THEN st ELSE [st EXCEPT ![f.rs_z] = Empty]
  <1>1. /\ r.cell \in [Ids -> Cells] /\ r.tail \in [Ids -> Ids \cup {None}]
        /\ \A i \in Ids : r.cell[i].src \in Ids \cup {None}
    BY DEF Stages, Cells
  <1>0. SlotParts(f, r, u, lo, hi)
    BY SlotOfParts
  <1> HIDE DEF f
  <1>2. /\ f.rs_z = z /\ DOMAIN f.src0 = R
        /\ \A i \in R : f.src0[i] = IF r.cell[i].src = None THEN z ELSE r.cell[i].src
    BY <1>0 DEF SlotParts
  <1>3. /\ n.tail = r.tail /\ n.head = lo
        /\ n.cell = [i \in Ids |-> IF i \in R
                            THEN [r.cell[i] EXCEPT !.src = i] ELSE r.cell[i]]
    BY <1>0 DEF SlotParts
  <1>4. /\ z = None \/ (z \in R /\ \A j \in Ids : r.cell[j].src # z)
        /\ \A i \in R : r.cell[i].src = None => z # None
    BY <1>1, RsZFacts
  <1>5. R \in SUBSET Ids
    BY IdsFacts
  <1>6. \A k \in 1 .. Len(u) : (lo + k) - 1 \in R /\ (lo + k) - 1 \in Ids
    <2>1. \A k \in 1 .. Len(u) : (lo + k) - 1 \in R
      BY FirstsFacts, IdsFacts
    <2> QED  BY <1>5, <2>1
  <1>7. \A i \in Ids : From(f, st, i) = IF i \in R THEN y[f.src0[i]] ELSE y[i]
    BY <1>2 DEF From
  <1> HIDE DEF f, z, R
  <1>8. /\ z # None => y[z] = Empty
        /\ \A i \in Ids : i # z => y[i] = st[i]
    <2>1. z # None => z \in Ids
      BY <1>4, <1>5
    <2> QED  BY <1>2, <2>1
  <1> HIDE DEF y
  \* What the graph takes for a cell is the state that src names.
  <1>9. ASSUME NEW i \in Ids
        PROVE  /\ r.cell[i].src = None /\ i \in R => From(f, st, i) = Empty
               /\ r.cell[i].src # None => From(f, st, i) = st[r.cell[i].src]
    <2>1. CASE i \in R /\ r.cell[i].src = None
      <3>1. f.src0[i] = z /\ z # None
        BY <1>2, <1>4, <2>1
      <3> QED  BY <1>7, <1>8, <2>1, <3>1
    <2>2. CASE i \in R /\ r.cell[i].src # None
      <3>1. f.src0[i] = r.cell[i].src /\ r.cell[i].src \in Ids
        BY <1>1, <1>2, <2>2
      <3>2. r.cell[i].src # z
        BY <1>4, <2>2
      <3>3. y[r.cell[i].src] = st[r.cell[i].src]
        BY <1>8, <3>1, <3>2
      <3>4. From(f, st, i) = y[f.src0[i]]
        BY <1>7, <2>2
      <3> QED  BY <2>2, <3>1, <3>3, <3>4
    <2>3. CASE i \notin R
      <3>1. r.cell[i].src \in {None, i}
        BY <2>3 DEF Frame, R
      <3>2. i # z
        BY <1>4, <2>3, IdsFacts
      <3>3. From(f, st, i) = st[i]
        BY <1>7, <1>8, <2>3, <3>2
      <3> QED  BY <2>3, <3>1, <3>3
    <2> QED  BY <2>1, <2>2, <2>3
  <1>10. /\ StatesStaged(g, Later(u), st, tx) /\ TailsStaged(g, Later(u), Firsts(u, Len(u)))
         /\ \A j \in 1 .. Len(u) : g.tail[First(u, j)] = (lo + j) - 1
         /\ g \in Stages
    BY DEF GatherInv, Staged
  <1>11. /\ \A i \in Ids : r.cell[i].src = g.cell[i].src
         /\ \A i \in Ids : (\A k \in 1 .. Len(u) : i # (lo + k) - 1) => r.cell[i] = g.cell[i]
         /\ \A s \in Ids : PlaceOf(u, s) = {} => r.tail[s] = g.tail[s]
         /\ \A k \in 1 .. Len(u) : r.cell[(lo + k) - 1].seqs = Range(u[k].ids)
    BY DEF Batched
  <1>12. \A s \in Ids : g.tail[s] # None =>
            IF g.cell[g.tail[s]].src = None THEN tx[s] = Empty
            ELSE Agrees(st[g.cell[g.tail[s]].src], tx[s])
    BY <1>10 DEF StatesStaged
  <1>13. ASSUME NEW k \in 1 .. Len(u)
         PROVE  Agrees(From(f, st, (lo + k) - 1), tx[First(u, k)])
    <2> DEFINE i == (lo + k) - 1
               s == First(u, k)
    <2>1. i \in Ids /\ i \in R /\ s \in Ids /\ g.tail[s] = i
      BY <1>6, <1>10, FirstsFacts
    <2> HIDE DEF i, s
    <2>2. i # None
      BY <2>1, IdsFacts
    <2>3. IF g.cell[i].src = None THEN tx[s] = Empty
          ELSE Agrees(st[g.cell[i].src], tx[s])
      BY <1>12, <2>1, <2>2
    <2>4. Agrees(From(f, st, i), tx[s])
      <3>1. r.cell[i].src = g.cell[i].src
        BY <1>11, <2>1
      <3>2. CASE g.cell[i].src = None
        <4>1. From(f, st, i) = Empty /\ tx[s] = Empty
          BY <1>9, <2>1, <2>3, <3>1, <3>2
        <4> QED  BY <4>1, StatesFacts
      <3>3. CASE g.cell[i].src # None
        BY <1>9, <2>1, <2>3, <3>1, <3>3
      <3> QED  BY <3>2, <3>3
    <2> QED  BY <2>4 DEF i, s
  <1>14. ASSUME NEW s \in Ids, PlaceOf(u, s) = {}
         PROVE  IF n.tail[s] = None THEN tx[s] = Empty
                ELSE Agrees(From(f, st, n.tail[s]), tx[s])
    <2>1. n.tail[s] = r.tail[s] /\ r.tail[s] = g.tail[s] /\ r.tail[s] \in Ids \cup {None}
      BY <1>1, <1>3, <1>11, <1>14
    <2>2. CASE g.tail[s] = None
      <3>1. s \notin Later(u)
        <4> SUFFICES ASSUME s \in Later(u)  PROVE FALSE
          OBVIOUS
        <4>1. PICK k \in DOMAIN u : s \in Range(u[k].ids)
          BY DEF Later
        <4> QED  BY <1>14, <4>1 DEF PlaceOf
      <3> QED  BY <1>10, <2>1, <2>2, <3>1 DEF StatesStaged
    <2>3. CASE g.tail[s] # None
      <3> DEFINE t == g.tail[s]
      <3>1. t \in Ids /\ n.tail[s] = t /\ r.tail[s] = t /\ t # None
        BY <2>1, <2>3
      <3>2. IF g.cell[t].src = None THEN tx[s] = Empty
            ELSE Agrees(st[g.cell[t].src], tx[s])
        BY <1>12, <2>3
      <3> HIDE DEF t
      <3>3. r.cell[t].src = g.cell[t].src
        BY <1>11, <3>1
      <3>4. s \in r.cell[t].seqs
        BY <3>1 DEF TailsExact
      <3>5. t \notin R => r.cell[t].src = t
        BY <3>1, <3>4 DEF Frame, R
      <3>6. Agrees(From(f, st, t), tx[s])
        BY <1>9, <3>1, <3>2, <3>3, <3>5, StatesFacts
      <3> QED  BY <3>1, <3>6
    <2> QED  BY <2>2, <2>3
  <1>15. ASSUME NEW i \in Ids, n.cell[i].seqs = {}, n.cell[i].src = i
         PROVE  Fresh(From(f, st, i))
    <2>1. r.cell[i] \in Cells
      BY <1>1
    <2>2. n.cell[i].seqs = r.cell[i].seqs /\ (i \notin R => n.cell[i].src = r.cell[i].src)
      BY <1>3, <2>1 DEF Cells
    <2>3. \A k \in 1 .. Len(u) : i # (lo + k) - 1
      <3> SUFFICES ASSUME NEW k \in 1 .. Len(u), i = (lo + k) - 1  PROVE FALSE
        OBVIOUS
      <3>1. r.cell[i].seqs = Range(u[k].ids)
        BY <1>11
      <3>2. Range(u[k].ids) # {}
        BY DEF UbatchOK
      <3> QED  BY <1>15, <2>2, <3>1, <3>2
    <2>4. r.cell[i] = g.cell[i]
      BY <1>11, <2>3
    <2>5. g.cell[i].src # None => Fresh(st[g.cell[i].src])
      BY <1>10, <1>15, <2>2, <2>4 DEF StatesStaged
    <2>6. i # None
      BY IdsFacts
    <2>7. i \in R \/ r.cell[i].src # None
      BY <1>15, <2>2, <2>6
    <2> QED  BY <1>9, <2>4, <2>5, <2>7, StatesFacts
  <1>16. SlotStates(f, u, st, tx)
    BY <1>3, <1>13, <1>14, <1>15 DEF SlotStates
  <1> QED  BY <1>16 DEF f

(* What find_slot() does for a consistent memory. *)
LEMMA FindSlot ==
    ASSUME NEW m, Consistent(m), NEW st \in [Ids -> States], NEW tx, Exact(m, st, tx),
           NEW u, UbatchOK(u)
    PROVE  SlotPlaced(find_slot(m, u), u) /\ SlotStates(find_slot(m, u), u, st, tx)
  <1> DEFINE f == find_slot(m, u)
  <1>1. PICK lo, hi, g : SlotGathered(f, u, lo, hi, g, st, tx)
    BY FindSlotGathered
  <1> HIDE DEF f
  <1>2. /\ lo \in Ids /\ hi \in Ids /\ (lo + Len(u)) - 1 <= hi /\ (Len(u) = 1 => lo = hi)
        /\ GatherInv(g, u, Len(u), lo, hi, st, tx)
        /\ f = SlotOf(Assigned(g, u, lo), u, lo, hi)
    BY <1>1 DEF SlotGathered
  <1> DEFINE r == Assigned(g, u, lo)
  <1>3. /\ r \in Stages /\ r.ok /\ Batched(r, g, u, lo)
        /\ TailsExact(r) /\ PosExact(r) /\ Frame(r, lo .. hi)
    BY <1>2, GatheredFacts
  <1>4. f = SlotOf(r, u, lo, hi)
    BY <1>2
  <1> HIDE DEF r
  <1>5. SlotPlaced(SlotOf(r, u, lo, hi), u)
    BY <1>2, <1>3, SlotOfPlaced
  <1>6. SlotStates(SlotOf(r, u, lo, hi), u, st, tx)
    BY <1>2, <1>3, SlotOfStates
  <1> QED  BY <1>4, <1>5, <1>6 DEF f

-----------------------------------------------------------------------------
(***************************************************************************)
(* What decode() does when the graph fails.                                *)
(***************************************************************************)
TakenSteps(x, m0, firsts) ==
    /\ x[0] = m0
    /\ \A k \in 1 .. Size :
            x[k] = IF k - 1 \notin firsts THEN x[k - 1]
                   ELSE SeqRm(x[k - 1], k - 1, LastPos(k - 1) + 1, End)
    /\ TakenOut(m0, firsts) = x[Size]

LEMMA TakenOutLoop ==
    ASSUME NEW m0, NEW firsts
    PROVE  \E x : TakenSteps(x, m0, firsts)
  <1> DEFINE base == m0
             step(x, k) == (IF k - 1 \notin firsts THEN x ELSE SeqRm(x, k - 1, LastPos(k - 1) + 1, End))
             S == {n \in Nat : \E f : f = [k \in 0 .. n |->
                        IF k = 0 THEN base ELSE step(f[k - 1], k)]}
             a == CHOOSE f : f = [k \in 0 .. Size |->
                        IF k = 0 THEN base ELSE step(f[k - 1], k)]
  <1>1. TakenOut(m0, firsts) = a[Size]
    BY DEF TakenOut
  <1> HIDE DEF base, step
  <1>2. 0 \in S
    <2> DEFINE f == [k \in 0 .. 0 |-> base]
    <2>1. f = [k \in 0 .. 0 |-> IF k = 0 THEN base ELSE step(f[k - 1], k)]
      OBVIOUS
    <2> HIDE DEF f
    <2> QED  BY <2>1
  <1>3. ASSUME NEW n \in Nat, n \in S  PROVE n + 1 \in S
    <2>1. PICK f : f = [k \in 0 .. n |-> IF k = 0 THEN base ELSE step(f[k - 1], k)]
      BY <1>3
    <2> DEFINE g == [k \in 0 .. n + 1 |-> IF k = n + 1 THEN step(f[n], n + 1) ELSE f[k]]
    <2>2. ASSUME NEW k \in 0 .. n + 1
          PROVE  g[k] = IF k = 0 THEN base ELSE step(g[k - 1], k)
      <3>1. CASE k = n + 1
        <4>1. (n + 1) - 1 = n /\ n \in 0 .. n + 1 /\ n # n + 1 /\ k # 0
          BY <3>1
        <4>2. g[k - 1] = f[n] /\ g[k] = step(f[n], k)
          BY <3>1, <4>1
        <4> QED  BY <4>1, <4>2
      <3>2. CASE k # n + 1
        <4>1. k \in 0 .. n /\ g[k] = f[k]
          BY <3>2
        <4>2. k # 0 => k - 1 \in 0 .. n + 1 /\ k - 1 # n + 1
          BY <4>1
        <4>3. k # 0 => g[k - 1] = f[k - 1]
          BY <4>2
        <4>4. f[k] = IF k = 0 THEN base ELSE step(f[k - 1], k)
          BY <2>1, <4>1
        <4> QED  BY <4>1, <4>3, <4>4
      <3> QED  BY <3>1, <3>2
    <2>3. g = [k \in 0 .. n + 1 |-> IF k = 0 THEN base ELSE step(g[k - 1], k)]
      BY <2>2
    <2> HIDE DEF g
    <2> QED  BY <2>3
  <1>4. Size \in S
    <2> HIDE DEF S
    <2>1. 0 .. Size \subseteq S
      <3>1. \A k \in 0 .. Size - 1 : k \in S => k + 1 \in S
        BY <1>3, IdsFacts
      <3>2. Size \in Nat
        BY IdsFacts
      <3> QED  BY <1>2, <3>1, <3>2, Induct
    <2> QED  BY <2>1, IdsFacts
  <1>5. a = [k \in 0 .. Size |-> IF k = 0 THEN base ELSE step(a[k - 1], k)]
    <2> HIDE DEF step, base
    <2> QED  BY <1>4
  <1> HIDE DEF a
  <1>6. a[0] = base /\ \A k \in 1 .. Size : a[k] = step(a[k - 1], k)
    BY <1>5, IdsFacts
  <1> QED  BY <1>1, <1>6 DEF base, step, TakenSteps

LEMMA LastPosFacts ==
    ASSUME TypeOK, Consistent(mem), NEW s \in Ids
    PROVE  /\ LastPos(s) \in -1 .. MaxPos
           /\ mem.tail[s] # None => mem.tail[s] \in Ids /\ LastPos(s) \in 0 .. MaxPos
  <1>1. mem \in Memories /\ mem.tail[s] \in Ids \cup {None}
    BY DEF TypeOK, Memories
  <1>2. CASE mem.tail[s] = None
    BY <1>2, RecurrentAssumption DEF LastPos
  <1>3. CASE mem.tail[s] # None
    <2> DEFINE t == mem.tail[s]
    <2>1. t \in Ids
      BY <1>1, <1>3
    <2>2. LastPos(s) = mem.cell[t].pos
      BY <1>3 DEF LastPos
    <2> HIDE DEF t
    <2>3. mem.cell[t].pos \in -1 .. MaxPos
      BY <1>1, <2>1 DEF Memories, Cells
    <2>4. s \in mem.cell[t].seqs
      BY <2>1 DEF Consistent, TailsExact, t
    <2>5. mem.cell[t].pos >= 0
      BY <2>1, <2>4 DEF Consistent, PosExact
    <2> QED  BY <1>3, <2>1, <2>2, <2>3, <2>5, RecurrentAssumption DEF t
  <1> QED  BY <1>2, <1>3

LEMMA TakenOutConsistent ==
    ASSUME TypeOK, Consistent(mem), NEW m0, Consistent(m0), NEW firsts
    PROVE  Consistent(TakenOut(m0, firsts)) /\ Fewer(m0, TakenOut(m0, firsts))
  <1>1. PICK x : TakenSteps(x, m0, firsts)
    BY TakenOutLoop
  <1>2. /\ x[0] = m0 /\ TakenOut(m0, firsts) = x[Size]
        /\ \A k \in 1 .. Size :
            x[k] = IF k - 1 \notin firsts THEN x[k - 1]
                   ELSE SeqRm(x[k - 1], k - 1, LastPos(k - 1) + 1, End)
    BY <1>1 DEF TakenSteps
  <1> DEFINE S == {k \in 0 .. Size : Consistent(x[k]) /\ Fewer(m0, x[k])}
  <1>3. 0 \in S
    <2>1. m0.tail \in [Ids -> Ids \cup {None}]
      BY DEF Consistent, Memories
    <2>2. Fewer(m0, m0)
      BY <2>1, FewerTrans
    <2> QED  BY <1>2, <2>2, IdsFacts
  <1>4. \A k \in 0 .. Size - 1 : k \in S => k + 1 \in S
    <2> SUFFICES ASSUME NEW k \in 0 .. Size - 1, k \in S  PROVE k + 1 \in S
      OBVIOUS
    <2> DEFINE j == k + 1
               y == x[k]
               p == LastPos(k) + 1
    <2>1. k \in Ids /\ j \in 1 .. Size /\ j \in 0 .. Size /\ j - 1 = k
      BY IdsFacts
    <2>2. x[j] = y \/ x[j] = SeqRm(y, k, p, End)
      BY <1>2, <2>1
    <2>3. Consistent(y) /\ Fewer(m0, y)
      OBVIOUS
    <2>4. p \in Int /\ End \in Int
      <3>1. LastPos(k) \in -1 .. MaxPos
        BY <2>1, LastPosFacts
      <3> QED  BY <3>1, RecurrentAssumption DEF End
    <2> HIDE DEF j, y, p
    <2>5. Consistent(SeqRm(y, k, p, End)) /\ Fewer(y, SeqRm(y, k, p, End))
      BY <2>1, <2>3, <2>4, SeqRmConsistent
    <2>6. Fewer(m0, SeqRm(y, k, p, End))
      BY <2>3, <2>5, FewerTrans
    <2>7. Consistent(x[j]) /\ Fewer(m0, x[j])
      BY <2>2, <2>3, <2>5, <2>6
    <2>8. j \in S
      BY <2>1, <2>7
    <2> QED  BY <2>8 DEF j
  <1>5. Size \in S
    <2> HIDE DEF S
    <2>1. 0 .. Size \subseteq S
      BY <1>3, <1>4, IdsFacts, Induct
    <2> QED  BY <2>1, IdsFacts
  <1> QED  BY <1>2, <1>5

-----------------------------------------------------------------------------
(***************************************************************************)
(* The steps: decodes.                                                     *)
(***************************************************************************)

(* The ubatch that find_slot() gets. *)
Ubatch(u) == [k \in DOMAIN u |-> [ids |-> u[k], last |-> LastPos(u[k][1]) + 1]]

LEMMA ListFacts ==
    ASSUME NEW S, NEW l \in Lists(S)
    PROVE  \E n \in 1 .. Size : /\ l \in [1 .. n -> S] /\ DOMAIN l = 1 .. n /\ n \in Nat
                                /\ \A k \in 1 .. n : l[k] \in S
                                /\ l[1] \in Range(l) /\ Range(l) \subseteq S
  <1>1. PICK n \in 1 .. Size : l \in [1 .. n -> S]
    BY DEF Lists
  <1>2. n \in Nat /\ 1 \in 1 .. n
    BY IdsFacts
  <1>3. l[1] \in Range(l) /\ Range(l) \subseteq S
    BY <1>1, <1>2 DEF Range
  <1> QED  BY <1>1, <1>2, <1>3

LEMMA UbatchFacts ==
    ASSUME RInv, NEW u \in Ubatches
    PROVE  /\ UbatchOK(Ubatch(u)) /\ DOMAIN u = 1 .. Len(Ubatch(u))
           /\ \A k \in DOMAIN u : /\ Ubatch(u)[k].ids = u[k]
                                  /\ First(Ubatch(u), k) = u[k][1] /\ u[k][1] \in Ids
           /\ Placed(u) = find_slot(mem, Ubatch(u))
  <1> DEFINE v == Ubatch(u)
  <1>1. /\ u \in Lists(SeqSets)
        /\ \A j, k \in DOMAIN u : j # k => Range(u[j]) \cap Range(u[k]) = {}
        /\ \A k \in DOMAIN u : \A s \in Range(u[k]) : LastPos(s) < MaxPos
    BY DEF Ubatches, SeqSetLists
  <1>2. PICK n \in 1 .. Size : DOMAIN u = 1 .. n /\ n \in Nat /\ \A k \in 1 .. n : u[k] \in SeqSets
    BY <1>1, ListFacts
  <1>3. ASSUME NEW k \in DOMAIN u
        PROVE  u[k][1] \in Range(u[k]) /\ Range(u[k]) \subseteq Ids
    <2>1. u[k] \in Lists(Ids)
      BY <1>2, RecurrentAssumption
    <2> QED  BY <2>1, ListFacts
  <1>4. v = [k \in 1 .. n |-> [ids |-> u[k], last |-> LastPos(u[k][1]) + 1]]
    BY <1>2 DEF Ubatch
  <1>5. Len(v) = n /\ DOMAIN v = 1 .. n
    <2>1. DOMAIN v = 1 .. n
      BY <1>4
    <2>2. \E l \in Nat : DOMAIN v = 1 .. l
      BY <1>2, <2>1
    <2> QED  BY <1>2, <1>4, <2>1
  <1>6. \A k \in 1 .. n : v[k].ids = u[k] /\ v[k].last = LastPos(u[k][1]) + 1
    BY <1>4
  <1> HIDE DEF v
  <1>7. \A k \in DOMAIN u : LastPos(u[k][1]) + 1 \in 0 .. MaxPos
    <2> SUFFICES ASSUME NEW k \in DOMAIN u  PROVE LastPos(u[k][1]) + 1 \in 0 .. MaxPos
      OBVIOUS
    <2>1. u[k][1] \in Range(u[k]) /\ u[k][1] \in Ids
      BY <1>3
    <2>2. LastPos(u[k][1]) < MaxPos
      BY <1>1, <2>1
    <2>3. LastPos(u[k][1]) \in -1 .. MaxPos
      BY <2>1, LastPosFacts DEF RInv
    <2> QED  BY <2>2, <2>3, RecurrentAssumption
  <1>8. \A k \in 1 .. n : First(v, k) = u[k][1]
    BY <1>6 DEF First
  <1>9. UbatchOK(v)
    BY <1>1, <1>2, <1>3, <1>5, <1>6, <1>7, <1>8 DEF UbatchOK
  <1>10. Placed(u) = find_slot(mem, v)
    BY DEF Placed, v, Ubatch
  <1> QED  BY <1>2, <1>3, <1>5, <1>6, <1>8, <1>9, <1>10 DEF v

LEMMA FromFacts ==
    ASSUME NEW st \in [Ids -> States], NEW f, NEW v, SlotPlaced(f, v)
    PROVE  /\ \A i \in Ids : From(f, st, i) \in States
           /\ \A i \in Ids \ DOMAIN f.src0 : From(f, st, i) = st[i]
  <1> DEFINE z == IF f.rs_z = None THEN st ELSE [st EXCEPT ![f.rs_z] = Empty]
  <1>1. /\ DOMAIN f.src0 \subseteq Ids /\ f.rs_z \in DOMAIN f.src0 \cup {None}
        /\ \A i \in DOMAIN f.src0 : f.src0[i] \in Ids
    BY DEF SlotPlaced
  <1>2. z \in [Ids -> States] /\ \A i \in Ids \ DOMAIN f.src0 : z[i] = st[i]
    BY <1>1, StatesFacts
  <1>3. \A i \in Ids : From(f, st, i) = IF i \in DOMAIN f.src0 THEN z[f.src0[i]] ELSE z[i]
    BY DEF From
  <1> HIDE DEF z
  <1> QED  BY <1>1, <1>2, <1>3

(* A decode: the states of the batch go on, and the others are where they    *)
(* belong.                                                                   *)
LEMMA DecodeStep ==
    ASSUME RInv, NEW u \in Ubatches, Decode(u)
    PROVE  RInv'
  <1> DEFINE v == Ubatch(u)
             f == find_slot(mem, v)
             lo == f.mem.head
             of(s) == {k \in DOMAIN u : s \in Range(u[k])}
             first(s) == u[MinOf(of(s))][1]
  <1>1. /\ UbatchOK(v) /\ DOMAIN u = 1 .. Len(v) /\ Placed(u) = f
        /\ \A k \in DOMAIN u : v[k].ids = u[k] /\ First(v, k) = u[k][1] /\ u[k][1] \in Ids
    BY UbatchFacts
  <1>2. /\ TypeOK /\ Consistent(mem) /\ Exact(mem, state, text)
        /\ state \in [Ids -> States] /\ text \in [Ids -> States]
        /\ saved \in [pos : -1 .. MaxPos, state : States] /\ ops \in 0 .. MaxOps
        /\ saved = NothingSaved \/ saved.pos >= 0
    BY DEF RInv, TypeOK
  <1>3. /\ mem' = f.mem
        /\ state' = IF f.mem.ok THEN Computed(f, u) ELSE state
        /\ text' = [s \in Ids |-> IF of(s) = {} THEN text[s]
                                  ELSE Shared(text, s, first(s))]
        /\ saved' = saved /\ ops' = ops
    BY <1>1 DEF Decode
  <1>4. DOMAIN v = DOMAIN u /\ \A s : of(s) = PlaceOf(v, s)
    <2>1. DOMAIN v = DOMAIN u
      BY DEF Ubatch
    <2> QED  BY <1>1, <2>1 DEF PlaceOf
  <1> HIDE DEF v
  <1>5. SlotPlaced(f, v) /\ SlotStates(f, v, state, text)
    BY <1>1, <1>2, FindSlot
  <1> HIDE DEF f, of
  <1>6. /\ Consistent(f.mem) /\ InPlace(f.mem) /\ f.mem.ok /\ f.mem \in Memories
        /\ TailsExact(f.mem) /\ DOMAIN f.src0 \subseteq Ids /\ lo \in Nat
    <2>1. Consistent(f.mem) /\ InPlace(f.mem) /\ DOMAIN f.src0 \subseteq Ids
      BY <1>5 DEF SlotPlaced
    <2> QED  BY <2>1, IdsFacts DEF Consistent, Memories
  <1>7. state' = Computed(f, u)
    BY <1>3, <1>6
  <1>8. \A k \in 1 .. Len(v) :
            /\ (lo + k) - 1 \in DOMAIN f.src0
            /\ f.mem.cell[(lo + k) - 1].seqs = Range(v[k].ids)
            /\ \A s \in Range(v[k].ids) : f.mem.tail[s] = (lo + k) - 1
    BY <1>5 DEF SlotPlaced
  <1>9. Len(v) \in Nat
    BY <1>1, FirstsFacts
  <1> DEFINE k(i) == i - lo + 1
  <1>10. ASSUME NEW i \in Ids
         PROVE  state'[i] = IF i \in DOMAIN f.src0 /\ k(i) \in DOMAIN u
                            THEN After(From(f, state, i), u[k(i)][1])
                            ELSE From(f, state, i)
    BY <1>7 DEF Computed, From
  <1>11. ASSUME NEW i \in Ids, k(i) \in DOMAIN u  PROVE i = (lo + k(i)) - 1 /\ k(i) \in 1 .. Len(v)
    BY <1>1, <1>6, <1>11, IdsFacts, SMTT(30)
  <1>12. ASSUME NEW j \in 1 .. Len(v)  PROVE k((lo + j) - 1) = j
    BY <1>6, <1>9
  <1>13. DOMAIN state' = Ids
    BY <1>7 DEF Computed
  <1> HIDE DEF lo, k
  <1>14. state' \in [Ids -> States]
    <2>1. \A i \in Ids : From(f, state, i) \in States
      BY <1>2, <1>5, FromFacts
    <2>2. \A i \in Ids : state'[i] \in States
      <3> SUFFICES ASSUME NEW i \in Ids  PROVE state'[i] \in States
        OBVIOUS
      <3>1. CASE i \in DOMAIN f.src0 /\ k(i) \in DOMAIN u
        <4>1. u[k(i)][1] \in Ids
          BY <1>1, <3>1
        <4>2. state'[i] = After(From(f, state, i), u[k(i)][1])
          BY <1>10, <3>1
        <4> QED  BY <2>1, <4>1, <4>2, StatesFacts
      <3>2. CASE ~(i \in DOMAIN f.src0 /\ k(i) \in DOMAIN u)
        BY <1>10, <2>1, <3>2
      <3> QED  BY <3>1, <3>2
    <2>3. state' = [i \in Ids |-> state'[i]]
      BY <1>7 DEF Computed
    <2> QED  BY <2>2, <2>3
  <1>15. ASSUME NEW s \in Ids, NEW j \in of(s)
         PROVE  j \in 1 .. Len(v) /\ s \in Range(v[j].ids) /\ first(s) = u[j][1]
    <2>1. j \in PlaceOf(v, s)
      BY <1>4, <1>15
    <2>2. j \in 1 .. Len(v) /\ s \in Range(v[j].ids) /\ MinOf(PlaceOf(v, s)) = j
      BY <1>1, <2>1, PlaceOfFacts
    <2> QED  BY <1>4, <2>2
  <1>16. text' \in [Ids -> States]
    <2> SUFFICES ASSUME NEW s \in Ids, of(s) # {}
                 PROVE  Shared(text, s, first(s)) \in States
      BY <1>2, <1>3
    <2>1. PICK j : j \in of(s)
      OBVIOUS
    <2>2. j \in DOMAIN u /\ first(s) = u[j][1]
      BY <1>1, <1>15, <2>1
    <2>3. first(s) \in Ids
      BY <1>1, <2>2
    <2> HIDE DEF first
    <2> QED  BY <1>2, <2>3, SharedFacts
  <1>17. FreeCleared(f.mem, state')
    <2> SUFFICES ASSUME NEW i \in Ids, f.mem.cell[i].seqs = {}, f.mem.cell[i].src = i
                 PROVE  Fresh(state'[i])
      BY DEF FreeCleared
    <2>1. Fresh(From(f, state, i))
      BY <1>5 DEF SlotStates
    <2>2. k(i) \notin DOMAIN u
      <3> SUFFICES ASSUME k(i) \in DOMAIN u  PROVE FALSE
        OBVIOUS
      <3>1. f.mem.cell[i].seqs = Range(v[k(i)].ids)
        BY <1>8, <1>11
      <3>2. Range(v[k(i)].ids) # {}
        BY <1>1, <1>11 DEF UbatchOK
      <3> QED  BY <3>1, <3>2
    <2> QED  BY <1>10, <2>1, <2>2
  <1>18. StatesExact(f.mem, state', text')
    <2> SUFFICES ASSUME NEW s \in Ids
                 PROVE  IF f.mem.tail[s] = None THEN text'[s] = Empty
                        ELSE Agrees(state'[f.mem.tail[s]], text'[s])
      BY DEF StatesExact
    <2>1. CASE of(s) = {}
      <3>1. text'[s] = text[s]
        BY <1>3, <2>1
      <3>2. IF f.mem.tail[s] = None THEN text[s] = Empty
            ELSE Agrees(From(f, state, f.mem.tail[s]), text[s])
        BY <1>4, <1>5, <2>1 DEF SlotStates
      <3>3. CASE f.mem.tail[s] = None
        BY <3>1, <3>2, <3>3
      <3>4. CASE f.mem.tail[s] # None
        <4> DEFINE t == f.mem.tail[s]
        <4>1. t \in Ids /\ s \in f.mem.cell[t].seqs
          BY <1>6, <3>4 DEF Memories, TailsExact
        <4>2. Agrees(From(f, state, t), text[s])
          BY <3>2, <3>4
        <4> HIDE DEF t
        <4>3. k(t) \notin DOMAIN u
          <5> SUFFICES ASSUME k(t) \in DOMAIN u  PROVE FALSE
            OBVIOUS
          <5>1. t = (lo + k(t)) - 1 /\ k(t) \in 1 .. Len(v)
            BY <1>11, <4>1
          <5>2. f.mem.cell[t].seqs = Range(v[k(t)].ids)
            BY <1>8, <5>1
          <5>3. k(t) \in PlaceOf(v, s)
            BY <1>1, <4>1, <5>1, <5>2, PlaceOfFacts
          <5> QED  BY <1>4, <2>1, <5>3
        <4>4. state'[t] = From(f, state, t)
          BY <1>10, <4>1, <4>3
        <4>5. Agrees(state'[t], text'[s])
          BY <3>1, <4>2, <4>4
        <4> QED  BY <3>4, <4>5 DEF t
      <3> QED  BY <3>3, <3>4
    <2>2. CASE of(s) # {}
      <3>1. PICK j : j \in of(s)
        BY <2>2
      <3> DEFINE t == (lo + j) - 1
                 q == u[j][1]
      <3>2. j \in 1 .. Len(v) /\ s \in Range(v[j].ids) /\ first(s) = q
        BY <1>15, <3>1
      <3>3. j \in DOMAIN u /\ q = First(v, j) /\ q \in Ids
        BY <1>1, <3>2
      <3>4. f.mem.tail[s] = t /\ t \in DOMAIN f.src0 /\ k(t) = j
        BY <1>8, <1>12, <3>2
      <3>5. t \in Ids /\ t # None
        BY <1>6, <3>4, IdsFacts
      <3>6. Agrees(From(f, state, t), text[q])
        BY <1>5, <3>2, <3>3 DEF SlotStates, lo
      <3>7. state'[t] = After(From(f, state, t), q)
        <4> HIDE DEF t
        <4> QED  BY <1>10, <3>3, <3>4, <3>5
      <3>8. text'[s] = Shared(text, s, q)
        BY <1>3, <2>2, <3>2
      <3> HIDE DEF t, q
      <3>9. Agrees(state'[t], text'[s])
        <4>1. From(f, state, t) \in States /\ text[q] \in States
          BY <1>2, <1>5, <3>3, <3>5, FromFacts
        <4>2. Agrees(After(From(f, state, t), q), After(text[q], q))
          BY <3>3, <3>6, <4>1, StatesFacts
        <4> QED  BY <1>2, <3>3, <3>7, <3>8, <4>2, SharedFacts
      <3> QED  BY <3>4, <3>5, <3>9
    <2> QED  BY <2>1, <2>2
  <1>19. Exact(f.mem, state', text')
    BY <1>6, <1>17, <1>18 DEF Exact
  <1>20. TypeOK'
    BY <1>2, <1>3, <1>6, <1>14, <1>16 DEF TypeOK
  <1>21. Consistent(mem)' /\ Exact(mem, state, text)'
    BY <1>3, <1>6, <1>19
  <1> QED  BY <1>2, <1>3, <1>20, <1>21 DEF RInv

(* A decode whose graph fails: the states of the range are lost, and the      *)
(* sequences outside it have theirs.                                         *)
LEMMA DecodeFailsStep ==
    ASSUME RInv, NEW u \in Ubatches, DecodeFails(u), ops' \in 0 .. MaxOps
    PROVE  RInv'
  <1> DEFINE v == Ubatch(u)
             f == find_slot(mem, v)
             F == {u[k][1] : k \in DOMAIN u}
             n == TakenOut(f.mem, F)
             st == [i \in Ids |-> IF i \in DOMAIN f.src0 THEN Unknown ELSE state[i]]
             Lost(m) == [s \in Ids |-> IF m.tail[s] \in DOMAIN f.src0 THEN Unknown ELSE text[s]]
             tx == Remaining(f.mem, Lost(f.mem))
  <1>1. UbatchOK(v) /\ Placed(u) = f
    BY UbatchFacts
  <1>2. /\ TypeOK /\ Consistent(mem) /\ Exact(mem, state, text)
        /\ state \in [Ids -> States] /\ text \in [Ids -> States]
        /\ saved \in [pos : -1 .. MaxPos, state : States]
        /\ saved = NothingSaved \/ saved.pos >= 0
    BY DEF RInv, TypeOK
  <1>3. mem' = n /\ state' = st /\ text' = Remaining(n, Lost(n)) /\ saved' = saved
    BY <1>1 DEF DecodeFails
  <1> HIDE DEF v
  <1>4. SlotPlaced(f, v) /\ SlotStates(f, v, state, text)
    BY <1>1, <1>2, FindSlot
  <1> HIDE DEF f, F
  <1>5. /\ Consistent(f.mem) /\ InPlace(f.mem) /\ DOMAIN f.src0 \subseteq Ids
        /\ \A k \in 1 .. Len(v) :
            /\ (f.mem.head + k) - 1 \in DOMAIN f.src0
            /\ \A s \in Range(v[k].ids) : f.mem.tail[s] = (f.mem.head + k) - 1
    BY <1>4 DEF SlotPlaced
  <1>6. Consistent(n) /\ Fewer(f.mem, n)
    BY <1>2, <1>5, TakenOutConsistent
  <1> HIDE DEF n
  <1>7. \A i \in Ids \ DOMAIN f.src0 : From(f, state, i) = state[i]
    BY <1>2, <1>4, FromFacts
  <1>8. \A i \in Ids : st[i] = IF i \in DOMAIN f.src0 THEN Unknown ELSE From(f, state, i)
    BY <1>7
  <1> HIDE DEF st
  <1>9. FreeCleared(f.mem, st)
    BY <1>4, <1>8, StatesFacts DEF FreeCleared, SlotStates
  <1>10. StatesExact(f.mem, st, tx)
    <2> SUFFICES ASSUME NEW s \in Ids
                 PROVE  IF f.mem.tail[s] = None THEN tx[s] = Empty
                        ELSE Agrees(st[f.mem.tail[s]], tx[s])
      BY DEF StatesExact
    <2>1. tx[s] = IF f.mem.tail[s] = None THEN Empty ELSE Lost(f.mem)[s]
      BY DEF Remaining
    <2>2. CASE f.mem.tail[s] = None
      BY <2>1, <2>2
    <2>3. CASE f.mem.tail[s] # None
      <3> DEFINE t == f.mem.tail[s]
      <3>1. t \in Ids
        BY <1>5, <2>3 DEF Consistent, Memories
      <3>2. CASE t \in DOMAIN f.src0
        <4>1. tx[s] = Unknown
          BY <2>1, <2>3, <3>2
        <4> QED  BY <2>3, <4>1, StatesFacts
      <3>3. CASE t \notin DOMAIN f.src0
        <4>1. PlaceOf(v, s) = {}
          <5> SUFFICES ASSUME NEW k \in PlaceOf(v, s)  PROVE FALSE
            OBVIOUS
          <5>1. k \in 1 .. Len(v) /\ s \in Range(v[k].ids)
            BY <1>1, PlaceOfFacts
          <5> QED  BY <1>5, <3>3, <5>1
        <4>2. Agrees(From(f, state, t), text[s])
          BY <1>4, <2>3, <4>1 DEF SlotStates
        <4>3. st[t] = From(f, state, t)
          BY <1>8, <3>1, <3>3
        <4>4. tx[s] = text[s]
          BY <2>1, <2>3, <3>3
        <4> QED  BY <2>3, <4>2, <4>3, <4>4
      <3> QED  BY <3>2, <3>3
    <2> QED  BY <2>2, <2>3
  <1>11. Exact(f.mem, st, tx)
    BY <1>5, <1>9, <1>10 DEF Exact
  <1>12. n \in Memories /\ n.tail \in [Ids -> Ids \cup {None}]
    BY <1>6 DEF Consistent, Memories
  <1>13. Remaining(n, tx) = Remaining(n, Lost(n))
    <2>1. \A s \in Ids : n.tail[s] # None => f.mem.tail[s] = n.tail[s]
      BY <1>6 DEF Fewer
    <2>2. \A s \in Ids : n.tail[s] # None => tx[s] = Lost(n)[s]
      BY <2>1 DEF Remaining
    <2> HIDE DEF tx, Lost
    <2> QED  BY <2>2 DEF Remaining
  <1> HIDE DEF tx
  <1>14. Exact(n, st, Remaining(n, Lost(n)))
    <2>1. Exact(n, st, Remaining(n, tx))
      BY <1>6, <1>11, <1>12, FewerExact
    <2> QED  BY <1>13, <2>1
  <1>15. st \in [Ids -> States]
    BY <1>2, StatesFacts DEF st
  <1>16. Remaining(n, Lost(n)) \in [Ids -> States]
    BY <1>2, StatesFacts DEF Remaining
  <1>17. TypeOK'
    BY <1>2, <1>3, <1>12, <1>15, <1>16 DEF TypeOK
  <1>18. Consistent(mem)' /\ Exact(mem, state, text)'
    BY <1>3, <1>6, <1>14
  <1> QED  BY <1>2, <1>3, <1>17, <1>18 DEF RInv

-----------------------------------------------------------------------------
(***************************************************************************)
(* The steps: operations on sequences, and those that clear.                *)
(***************************************************************************)

(* A step that leaves the states and what was saved. *)
LEMMA MemoryStep ==
    ASSUME RInv, ops' \in 0 .. MaxOps, Consistent(mem'), Exact(mem', state, text'),
           text' \in [Ids -> States], state' = state, saved' = saved
    PROVE  RInv'
  <1>1. mem' \in Memories
    BY DEF Consistent
  <1>2. TypeOK'
    BY <1>1 DEF RInv, TypeOK
  <1>3. Consistent(mem)' /\ Exact(mem, state, text)'
    OBVIOUS
  <1> QED  BY <1>2, <1>3 DEF RInv

LEMMA RemovedStep ==
    ASSUME RInv, ops' \in 0 .. MaxOps, Consistent(mem'), Fewer(mem, mem'),
           text' = Remaining(mem', text), state' = state, saved' = saved
    PROVE  RInv'
  <1>1. Exact(mem, state, text) /\ text \in [Ids -> States]
    BY DEF RInv, TypeOK
  <1>2. mem'.tail \in [Ids -> Ids \cup {None}]
    BY DEF Consistent, Memories
  <1> DEFINE n == mem'
  <1>3. Exact(n, state, Remaining(n, text))
    <2>1. Fewer(mem, n) /\ n.tail \in [Ids -> Ids \cup {None}]
      BY <1>2
    <2> HIDE DEF n
    <2> QED  BY <1>1, <2>1, FewerExact
  <1>4. Remaining(n, text) \in [Ids -> States]
    BY <1>1, StatesFacts DEF Remaining
  <1> QED  BY <1>3, <1>4, MemoryStep

LEMMA SeqOpsStep ==
    ASSUME RInv, SeqOps, ops' \in 0 .. MaxOps
    PROVE  RInv'
  <1>1. /\ Consistent(mem) /\ Exact(mem, state, text) /\ mem \in Memories
        /\ text \in [Ids -> States]
    BY DEF RInv, TypeOK
  <1>2. PICK s \in Ids :
            \/ \E p0 \in 0 .. MaxPos, p1 \in {1, End} : seq_rm(s, p0, p1)
            \/ \E t \in Ids : seq_cp(s, t)
            \/ seq_keep(s)
            \/ \E d \in {-1, 1} : seq_add(s, 0, End, d)
            \/ seq_div(s, 0, End, 2)
    BY DEF SeqOps
  <1>3. ASSUME NEW p0 \in 0 .. MaxPos, NEW p1 \in {1, End}, seq_rm(s, p0, p1)  PROVE RInv'
    <2>1. /\ mem' = SeqRm(mem, s, p0, p1) /\ text' = Remaining(mem', text)
          /\ state' = state /\ saved' = saved
      BY <1>3 DEF seq_rm
    <2>2. p0 \in Int /\ p1 \in Int
      BY RecurrentAssumption DEF End
    <2>3. Consistent(SeqRm(mem, s, p0, p1)) /\ Fewer(mem, SeqRm(mem, s, p0, p1))
      BY <1>1, <2>2, SeqRmConsistent
    <2> QED  BY <2>1, <2>3, RemovedStep
  <1>4. ASSUME NEW t \in Ids, seq_cp(s, t)  PROVE RInv'
    <2>1. /\ mem' = SeqCopied(mem, s, t) /\ text' = [text EXCEPT ![t] = text[s]]
          /\ state' = state /\ saved' = saved /\ s # t
      BY <1>4 DEF seq_cp
    <2>2. /\ Consistent(SeqCopied(mem, s, t))
          /\ Exact(SeqCopied(mem, s, t), state, [text EXCEPT ![t] = text[s]])
      BY <1>1, <2>1, SeqCopiedConsistent
    <2>3. text' \in [Ids -> States]
      BY <1>1, <2>1
    <2> QED  BY <2>1, <2>2, <2>3, MemoryStep
  <1>5. ASSUME seq_keep(s)  PROVE RInv'
    <2>1. /\ mem' = SeqKept(mem, s) /\ text' = Remaining(mem', text)
          /\ state' = state /\ saved' = saved
      BY <1>5 DEF seq_keep
    <2>2. Consistent(SeqKept(mem, s)) /\ Fewer(mem, SeqKept(mem, s))
      BY <1>1, SeqKeptConsistent
    <2> QED  BY <2>1, <2>2, RemovedStep
  <1>6. ASSUME NEW q \in 0 .. MaxPos, NEW t, t = mem.tail[s], t # None, s \in mem.cell[t].seqs,
               mem' = [mem EXCEPT !.cell[t].pos = q],
               state' = state, saved' = saved, text' = text
        PROVE  RInv'
    <2>1. t \in Ids /\ mem.cell[t].seqs # {}
      BY <1>1, <1>6 DEF Memories
    <2>2. LET n == [mem EXCEPT !.cell[t].pos = q] IN Consistent(n) /\ Exact(n, state, text)
      BY <1>1, <2>1, MovedConsistent
    <2> QED  BY <1>1, <1>6, <2>2, MemoryStep
  <1>7. ASSUME NEW d \in {-1, 1}, seq_add(s, 0, End, d)  PROVE RInv'
    <2> DEFINE t == mem.tail[s]
               q == mem.cell[t].pos + d
    <2>1. /\ t # None /\ s \in mem.cell[t].seqs /\ q \in 0 .. MaxPos
          /\ mem' = [mem EXCEPT !.cell[t].pos = @ + d]
          /\ state' = state /\ saved' = saved /\ text' = text
      BY <1>7 DEF seq_add, Moved
    <2>2. t \in Ids
      BY <1>1, <2>1 DEF Memories
    <2>3. mem' = [mem EXCEPT !.cell[t].pos = q]
      BY <2>1
    <2> HIDE DEF q
    <2> QED  BY <1>6, <2>1, <2>3
  <1>8. ASSUME seq_div(s, 0, End, 2)  PROVE RInv'
    <2> DEFINE t == mem.tail[s]
               q == mem.cell[t].pos \div 2
    <2>1. /\ t # None /\ s \in mem.cell[t].seqs /\ q \in 0 .. MaxPos
          /\ mem' = [mem EXCEPT !.cell[t].pos = @ \div 2]
          /\ state' = state /\ saved' = saved /\ text' = text
      BY <1>8 DEF seq_div, Moved
    <2>3. mem' = [mem EXCEPT !.cell[t].pos = q]
      BY <2>1
    <2> HIDE DEF q
    <2> QED  BY <1>6, <2>1, <2>3
  <1> QED  BY <1>2, <1>3, <1>4, <1>5, <1>7, <1>8

LEMMA ClearStep ==
    ASSUME RInv, NEW data \in BOOLEAN, Clear(data), ops' \in 0 .. MaxOps
    PROVE  RInv'
  <1>1. mem' = Cleared /\ state' = (IF data THEN NoTexts ELSE state) /\ text' = NoTexts
        /\ saved' = saved
    BY DEF Clear
  <1>2. NoTexts \in [Ids -> States]
    BY StatesFacts DEF NoTexts
  <1>3. state' \in [Ids -> States] /\ text' \in [Ids -> States]
    BY <1>1, <1>2 DEF RInv, TypeOK
  <1>4. Consistent(mem') /\ Exact(mem', state', text')
    BY <1>1, ClearedConsistent
  <1>5. TypeOK'
    BY <1>1, <1>3, <1>4 DEF RInv, TypeOK, Consistent
  <1> QED  BY <1>1, <1>4, <1>5 DEF RInv

-----------------------------------------------------------------------------
(***************************************************************************)
(* The steps: saving and restoring.                                        *)
(***************************************************************************)
LEMMA StateWriteStep ==
    ASSUME RInv, NEW s \in Ids, StateWriteSeq(s), ops' \in 0 .. MaxOps
    PROVE  RInv'
  <1>1. /\ TypeOK /\ Consistent(mem) /\ Exact(mem, state, text) /\ state \in [Ids -> States]
        /\ mem \in Memories /\ text \in [Ids -> States]
    BY DEF RInv, TypeOK
  <1>2. /\ mem.tail[s] # None
        /\ saved' = [pos |-> LastPos(s), state |-> state[mem.tail[s]]]
        /\ mem' = mem /\ state' = state /\ text' = text
    BY DEF StateWriteSeq
  <1>3. LastPos(s) \in 0 .. MaxPos /\ mem.tail[s] \in Ids
    BY <1>1, <1>2, LastPosFacts
  <1>4. LastPos(s) \in -1 .. MaxPos /\ LastPos(s) >= 0
    BY <1>3, RecurrentAssumption
  <1>5. saved' \in [pos : -1 .. MaxPos, state : States] /\ saved'.pos >= 0
    BY <1>1, <1>2, <1>3, <1>4
  <1>6. TypeOK'
    BY <1>1, <1>2, <1>5 DEF TypeOK
  <1>7. Consistent(mem)' /\ Exact(mem, state, text)'
    BY <1>1, <1>2
  <1> QED  BY <1>5, <1>6, <1>7 DEF RInv

LEMMA SeqRmTail ==
    ASSUME NEW m \in Memories, NEW s \in Ids, NEW p0, NEW p1
    PROVE  \A r \in Ids \ {s} : SeqRm(m, s, p0, p1).tail[r] = m.tail[r]
  <1>1. CASE Partial(m, s, p0, p1)
    BY <1>1 DEF SeqRm
  <1>2. CASE ~Partial(m, s, p0, p1)
    <2>1. SeqRm(m, s, p0, p1) = SeqRemoved(m, s, p0, p1)
      BY <1>2 DEF SeqRm
    <2>2. m.tail \in [Ids -> Ids \cup {None}]
      BY DEF Memories
    <2>3. \E q : SeqRemoved(m, s, p0, p1).tail = [m.tail EXCEPT ![s] = q]
      <3>1. m = [cell |-> m.cell, tail |-> m.tail, head |-> m.head, used |-> m.used, ok |-> m.ok]
        BY DEF Memories
      <3> DEFINE hit(i) == InRange(m.cell[i], p0, p1) /\ s \in m.cell[i].seqs
                 freed  == {i \in Ids : hit(i) /\ m.cell[i].seqs = {s}}
                 t      == m.tail[s]
                 q      == IF t # None /\ InRange(m.cell[t], p0, p1) THEN None ELSE t
                 c      == [i \in Ids |-> IF hit(i) THEN Without(m.cell[i], s) ELSE m.cell[i]]
                 w      == m.used - Cardinality(freed)
                 h      == HeadAt(m, freed)
                 n      == SeqRemoved(m, s, p0, p1)
      <3>2. n = [m EXCEPT !.cell = c, !.tail[s] = q, !.used = w, !.head = h]
        BY DEF SeqRemoved
      <3> HIDE DEF c, q, w, h, n
      <3>3. n.tail = [m.tail EXCEPT ![s] = q]
        BY <3>1, <3>2
      <3> QED  BY <3>3 DEF n
    <2> QED  BY <2>1, <2>2, <2>3
  <1> QED  BY <1>1, <1>2

(* The slot for one sequence, that the memory has no more. *)
LEMMA ReadSlot ==
    ASSUME RInv, NEW s \in Ids, saved # NothingSaved
    PROVE  LET m1 == SeqRm(mem, s, 0, End)
               v  == <<[ids |-> <<s>>, last |-> saved.pos]>>
               f  == find_slot(m1, v)
               lo == f.mem.head
           IN  /\ Consistent(f.mem) /\ InPlace(f.mem) /\ lo \in Ids
               /\ f.mem.cell[lo].seqs = {s} /\ f.mem.tail[s] = lo
               /\ \A r \in Ids \ {s} :
                    IF f.mem.tail[r] = None THEN text[r] = Empty
                    ELSE /\ f.mem.tail[r] \in Ids \ {lo}
                         /\ Agrees(state[f.mem.tail[r]], text[r])
               /\ \A i \in Ids \ {lo} : f.mem.cell[i].seqs = {} /\ f.mem.cell[i].src = i =>
                    Fresh(state[i])
  <1> DEFINE m1 == SeqRm(mem, s, 0, End)
             v  == <<[ids |-> <<s>>, last |-> saved.pos]>>
             f  == find_slot(m1, v)
             lo == f.mem.head
             tx == Remaining(m1, text)
  <1>1. /\ Consistent(mem) /\ Exact(mem, state, text) /\ state \in [Ids -> States]
        /\ mem \in Memories /\ saved.pos \in 0 .. MaxPos
    BY RecurrentAssumption DEF RInv, TypeOK
  <1>2. Consistent(m1) /\ Fewer(mem, m1) /\ m1.tail[s] = None
    <2>1. 0 \in Int /\ End \in Int
      BY RecurrentAssumption DEF End
    <2> QED  BY <1>1, <2>1, SeqRmConsistent
  <1>3. \A r \in Ids \ {s} : m1.tail[r] = mem.tail[r]
    BY <1>1, SeqRmTail
  <1> HIDE DEF m1
  <1>4. Exact(m1, state, tx)
    <2>1. m1.tail \in [Ids -> Ids \cup {None}]
      BY <1>2 DEF Consistent, Memories
    <2> QED  BY <1>1, <1>2, <2>1, FewerExact
  <1>5. \A r \in Ids \ {s} : tx[r] = text[r]
    BY <1>1, <1>3 DEF Remaining, Exact, StatesExact
  <1>6. Len(v) = 1 /\ DOMAIN v = 1 .. 1 /\ v[1].ids = <<s>> /\ v[1].last = saved.pos
        /\ Range(v[1].ids) = {s} /\ First(v, 1) = s
    <2>1. Len(v) = 1 /\ DOMAIN v = 1 .. 1 /\ v[1].ids = <<s>> /\ v[1].last = saved.pos
      OBVIOUS
    <2>2. Range(<<s>>) = {s}
      BY DEF Range
    <2> HIDE DEF v
    <2> QED  BY <2>1, <2>2 DEF First
  <1> HIDE DEF v
  <1>7. UbatchOK(v)
    <2>1. \A k : k \in 1 .. 1 <=> k = 1
      OBVIOUS
    <2>2. 1 \in 1 .. Size
      BY IdsFacts
    <2> QED  BY <1>1, <1>6, <2>1, <2>2 DEF UbatchOK
  <1> HIDE DEF tx
  <1>8. SlotPlaced(f, v) /\ SlotStates(f, v, state, tx)
    BY <1>1, <1>2, <1>4, <1>7, FindSlot
  <1> HIDE DEF f
  <1>9. Consistent(f.mem) /\ InPlace(f.mem) /\ DOMAIN f.src0 = {lo}
    BY <1>6, <1>8 DEF SlotPlaced
  <1>10. f.mem \in Memories /\ lo \in Ids /\ TailsExact(f.mem)
         /\ f.mem.tail \in [Ids -> Ids \cup {None}]
    BY <1>9 DEF Consistent, Memories
  <1>11. f.mem.cell[lo].seqs = {s} /\ f.mem.tail[s] = lo
    <2>1. 1 \in 1 .. Len(v)
      BY <1>6
    <2>2. (lo + 1) - 1 = lo
      BY <1>10, IdsFacts
    <2>3. f.mem.cell[(lo + 1) - 1].seqs = Range(v[1].ids)
          /\ \A r \in Range(v[1].ids) : f.mem.tail[r] = (lo + 1) - 1
      BY <1>8, <2>1 DEF SlotPlaced
    <2> HIDE DEF lo
    <2> QED  BY <1>6, <2>2, <2>3
  <1>12. \A i \in Ids \ {lo} : From(f, state, i) = state[i]
    BY <1>1, <1>8, <1>9, FromFacts
  <1> HIDE DEF lo
  <1>13. ASSUME NEW r \in Ids \ {s}
         PROVE  IF f.mem.tail[r] = None THEN text[r] = Empty
                ELSE /\ f.mem.tail[r] \in Ids \ {lo}
                     /\ Agrees(state[f.mem.tail[r]], text[r])
    <2>1. PlaceOf(v, r) = {}
      <3> SUFFICES ASSUME NEW k \in PlaceOf(v, r)  PROVE FALSE
        OBVIOUS
      <3>1. k \in 1 .. 1 /\ r \in Range(v[k].ids)
        BY <1>6 DEF PlaceOf
      <3> QED  BY <1>6, <3>1
    <2>2. IF f.mem.tail[r] = None THEN tx[r] = Empty
          ELSE Agrees(From(f, state, f.mem.tail[r]), tx[r])
      BY <1>8, <2>1 DEF SlotStates
    <2>3. f.mem.tail[r] # lo
      BY <1>10, <1>11 DEF TailsExact
    <2>4. f.mem.tail[r] # None => f.mem.tail[r] \in Ids \ {lo}
      BY <1>10, <2>3
    <2> QED  BY <1>5, <1>12, <2>2, <2>4
  <1>14. ASSUME NEW i \in Ids \ {lo}, f.mem.cell[i].seqs = {}, f.mem.cell[i].src = i
         PROVE  Fresh(state[i])
    BY <1>8, <1>12, <1>14 DEF SlotStates
  <1> QED  BY <1>9, <1>10, <1>11, <1>13, <1>14 DEF lo, f, v, m1

LEMMA StateReadSeqStep ==
    ASSUME RInv, NEW s \in Ids, NEW good \in BOOLEAN, StateReadSeq(s, good),
           ops' \in 0 .. MaxOps
    PROVE  RInv'
  <1> DEFINE m  == find_slot(SeqRm(mem, s, 0, End),
                             <<[ids |-> <<s>>, last |-> saved.pos]>>).mem
             lo == m.head
  <1>1. /\ saved # NothingSaved /\ saved' = saved
        /\ mem' = (IF good THEN m ELSE SeqRm(m, s, 0, End))
        /\ state' = (IF good THEN [state EXCEPT ![lo] = saved.state] ELSE state)
        /\ text' = [text EXCEPT ![s] = IF good THEN saved.state ELSE Empty]
    BY DEF StateReadSeq
  <1>2. /\ state \in [Ids -> States] /\ text \in [Ids -> States]
        /\ saved \in [pos : -1 .. MaxPos, state : States] /\ saved.state \in States
        /\ saved = NothingSaved \/ saved.pos >= 0
    BY DEF RInv, TypeOK
  <1>3. /\ Consistent(m) /\ InPlace(m) /\ lo \in Ids
        /\ m.cell[lo].seqs = {s} /\ m.tail[s] = lo
        /\ \A r \in Ids \ {s} :
                    IF m.tail[r] = None THEN text[r] = Empty
                    ELSE /\ m.tail[r] \in Ids \ {lo}
                         /\ Agrees(state[m.tail[r]], text[r])
        /\ \A i \in Ids \ {lo} : m.cell[i].seqs = {} /\ m.cell[i].src = i =>
                    Fresh(state[i])
    BY <1>1, ReadSlot
  <1> HIDE DEF m
  <1>4. lo # None
    BY <1>3, IdsFacts
  <1>5. CASE good
    <2>1. mem' = m /\ state' = [state EXCEPT ![lo] = saved.state]
          /\ text' = [text EXCEPT ![s] = saved.state]
      BY <1>1, <1>5
    <2>2. state' \in [Ids -> States] /\ text' \in [Ids -> States] /\ m \in Memories
      BY <1>2, <1>3, <2>1 DEF Consistent
    <2>3. FreeCleared(m, state')
      BY <1>2, <1>3, <2>1 DEF FreeCleared
    <2>4. StatesExact(m, state', text')
      <3> SUFFICES ASSUME NEW r \in Ids
                   PROVE  IF m.tail[r] = None THEN text'[r] = Empty
                          ELSE Agrees(state'[m.tail[r]], text'[r])
        BY DEF StatesExact
      <3>1. CASE r = s
        BY <1>2, <1>3, <1>4, <2>1, <3>1, StatesFacts
      <3>2. CASE r # s
        BY <1>2, <1>3, <2>1, <3>2
      <3> QED  BY <3>1, <3>2
    <2>5. Consistent(mem)' /\ Exact(mem, state, text)'
      BY <1>3, <2>1, <2>3, <2>4 DEF Exact
    <2>6. TypeOK'
      BY <1>1, <1>2, <2>1, <2>2 DEF TypeOK
    <2> QED  BY <1>1, <1>2, <2>5, <2>6 DEF RInv
  <1>6. CASE ~good
    <2> DEFINE n == SeqRm(m, s, 0, End)
    <2>1. mem' = n /\ state' = state /\ text' = [text EXCEPT ![s] = Empty]
      BY <1>1, <1>6
    <2>2. Consistent(n) /\ Fewer(m, n) /\ n.tail[s] = None
      <3>1. 0 \in Int /\ End \in Int
        BY RecurrentAssumption DEF End
      <3> QED  BY <1>3, <3>1, SeqRmConsistent
    <2>3. \A r \in Ids \ {s} : n.tail[r] = m.tail[r]
      BY <1>3, SeqRmTail DEF Consistent
    <2> HIDE DEF n
    <2>4. n \in Memories /\ TailsExact(n)
      BY <2>2 DEF Consistent
    <2>5. n.cell[lo].seqs = {}
      <3>1. \A r \in Ids : n.tail[r] # lo
        BY <1>3, <1>4, <2>2, <2>3
      <3>2. n.cell[lo].seqs \in SUBSET Ids
        BY <1>3, <2>4 DEF Memories, Cells
      <3> QED  BY <1>3, <2>4, <3>1, <3>2 DEF TailsExact
    <2>6. n.cell[lo].src = None
      BY <1>3, <2>2, <2>5 DEF Fewer
    <2>7. InPlace(n)
      BY <1>3, <2>2 DEF Fewer, InPlace
    <2>8. FreeCleared(n, state)
      <3> SUFFICES ASSUME NEW i \in Ids, n.cell[i].seqs = {}, n.cell[i].src = i
                   PROVE  Fresh(state[i])
        BY DEF FreeCleared
      <3>1. i # None /\ i # lo
        BY <1>4, <2>6, IdsFacts
      <3>2. m.cell[i].seqs = {} /\ m.cell[i].src = i
        BY <2>2, <3>1 DEF Fewer
      <3> QED  BY <1>3, <3>1, <3>2
    <2>9. StatesExact(n, state, text')
      <3> SUFFICES ASSUME NEW r \in Ids
                   PROVE  IF n.tail[r] = None THEN text'[r] = Empty
                          ELSE Agrees(state[n.tail[r]], text'[r])
        BY DEF StatesExact
      <3>1. CASE r = s
        BY <1>2, <2>1, <2>2, <3>1
      <3>2. CASE r # s
        BY <1>2, <1>3, <2>1, <2>3, <3>2
      <3> QED  BY <3>1, <3>2
    <2>10. text' \in [Ids -> States]
      BY <1>2, <2>1, StatesFacts
    <2>11. Exact(mem', state, text') /\ Consistent(mem')
      BY <2>1, <2>2, <2>7, <2>8, <2>9 DEF Exact
    <2> QED  BY <1>1, <2>1, <2>10, <2>11, MemoryStep
  <1> QED  BY <1>5, <1>6

LEMMA StateReadAllStep ==
    ASSUME RInv, NEW good \in BOOLEAN, StateReadAll(good), ops' \in 0 .. MaxOps
    PROVE  RInv'
  <1> DEFINE n == Cardinality(Used(mem))
  <1>1. /\ Consistent(mem) /\ Exact(mem, state, text) /\ mem \in Memories
        /\ TailsExact(mem) /\ PosExact(mem)
        /\ state \in [Ids -> States] /\ text \in [Ids -> States]
        /\ saved \in [pos : -1 .. MaxPos, state : States]
        /\ saved = NothingSaved \/ saved.pos >= 0
    BY DEF RInv, TypeOK, Consistent
  <1>2. Used(mem) \in SUBSET Ids /\ n \in 0 .. Size /\ n \in Nat
    BY IdsFacts DEF Used
  <1>3. PICK old \in [0 .. n - 1 -> Used(mem)] :
        /\ Range(old) = Used(mem)
        /\ \A i, j \in 0 .. n - 1 : i < j => old[i] < old[j]
        /\ mem' = IF ~good THEN Cleared
                  ELSE [Cleared EXCEPT
                    !.cell = [i \in Ids |->
                        IF i < n THEN [mem.cell[old[i]] EXCEPT !.src = i] ELSE NoCell],
                    !.used = n,
                    !.tail = [s \in Ids |->
                        LET holds == {i \in 0 .. n - 1 : s \in mem.cell[old[i]].seqs}
                        IN  IF holds = {} THEN None ELSE MinOf(holds)]]
        /\ state' = [i \in Ids |-> IF good /\ i < n THEN state[old[i]] ELSE Empty]
        /\ text' = IF good THEN text ELSE NoTexts
        /\ UNCHANGED saved
    BY DEF StateReadAll
  <1>4. ASSUME NEW i \in Ids, i < n  PROVE i \in 0 .. n - 1
    BY <1>2, <1>4, IdsFacts
  <1>5. \A i \in 0 .. n - 1 : /\ i \in Ids /\ i < n /\ i \in Nat /\ old[i] \in Ids
                              /\ mem.cell[old[i]].seqs # {} /\ mem.cell[old[i]] \in Cells
    <2> SUFFICES ASSUME NEW i \in 0 .. n - 1
                 PROVE  /\ i \in Ids /\ i < n /\ i \in Nat /\ old[i] \in Ids
                        /\ mem.cell[old[i]].seqs # {} /\ mem.cell[old[i]] \in Cells
      OBVIOUS
    <2>1. i \in Ids /\ i < n /\ i \in Nat
      BY <1>2, IdsFacts
    <2>2. old[i] \in Used(mem) /\ old[i] \in Ids
      BY <1>2, <1>3
    <2>3. mem.cell[old[i]].seqs # {} /\ mem.cell[old[i]] \in Cells
      BY <1>1, <2>2 DEF Used, is_empty, Memories
    <2> QED  BY <2>1, <2>2, <2>3
  <1>6. \A i, j \in 0 .. n - 1 : old[i] = old[j] => i = j
    <2> SUFFICES ASSUME NEW i \in 0 .. n - 1, NEW j \in 0 .. n - 1, old[i] = old[j], i # j
                 PROVE  FALSE
      OBVIOUS
    <2>1. i < j \/ j < i
      BY <1>5
    <2>2. old[i] < old[j] \/ old[j] < old[i]
      BY <1>3, <2>1
    <2>3. old[i] \in Nat
      BY <1>5, IdsFacts
    <2> QED  BY <2>2, <2>3
  <1>7. state' \in [Ids -> States]
    <2> SUFFICES ASSUME NEW i \in Ids, good, i < n  PROVE state[old[i]] \in States
      BY <1>3, StatesFacts
    <2> QED  BY <1>1, <1>4, <1>5
  <1>8. text' \in [Ids -> States]
    BY <1>1, <1>3, StatesFacts DEF NoTexts
  <1>9. Consistent(mem') /\ Exact(mem', state', text')
    <2>1. CASE ~good
      BY <1>3, <2>1, ClearedConsistent
    <2>2. CASE good
      <3> DEFINE new  == [i \in Ids |->
                        IF i < n THEN [mem.cell[old[i]] EXCEPT !.src = i] ELSE NoCell]
                 holds(s) == {i \in 0 .. n - 1 : s \in mem.cell[old[i]].seqs}
                 tail == [s \in Ids |-> IF holds(s) = {} THEN None ELSE MinOf(holds(s))]
                 m == [cell |-> new, tail |-> tail, head |-> 0, used |-> n, ok |-> TRUE]
      <3>1. mem' = [Cleared EXCEPT !.cell = new, !.used = n, !.tail = tail]
        BY <1>3, <2>2
      <3>2. text' = text /\ \A i \in 0 .. n - 1 : state'[i] = state[old[i]]
        BY <1>3, <1>5, <2>2
      <3> HIDE DEF new, tail, holds
      <3>3. mem' = m
        BY <3>1 DEF Cleared
      <3>4. m.cell = new /\ m.tail = tail /\ m.head = 0 /\ m.used = n /\ m.ok = TRUE
        OBVIOUS
      <3>5. ASSUME NEW i \in Ids
            PROVE  /\ i \in 0 .. n - 1 =>
                        /\ new[i] \in Cells /\ new[i].src = i
                        /\ new[i].pos = mem.cell[old[i]].pos
                        /\ new[i].seqs = mem.cell[old[i]].seqs
                   /\ i \notin 0 .. n - 1 => new[i] = NoCell
        <4>1. CASE i \in 0 .. n - 1
          <5> DEFINE c == mem.cell[old[i]]
          <5>1. c \in Cells /\ new[i] = [c EXCEPT !.src = i]
            BY <1>5, <4>1 DEF new
          <5> HIDE DEF c
          <5>2. c = [pos |-> c.pos, src |-> c.src, seqs |-> c.seqs]
            BY <5>1 DEF Cells
          <5>3. new[i] = [pos |-> c.pos, src |-> i, seqs |-> c.seqs]
            BY <5>1, <5>2
          <5> QED  BY <4>1, <5>1, <5>3 DEF Cells, c
        <4>2. CASE i \notin 0 .. n - 1
          <5>1. ~(i < n)
            BY <1>4, <4>2
          <5> QED  BY <4>2, <5>1 DEF new
        <4> QED  BY <4>1, <4>2
      <3>6. ASSUME NEW s \in Ids, NEW i \in 0 .. n - 1, s \in mem.cell[old[i]].seqs
            PROVE  tail[s] = i /\ mem.tail[s] = old[i]
        <4>1. \A j \in holds(s) : j = i
          <5> SUFFICES ASSUME NEW j \in 0 .. n - 1, s \in mem.cell[old[j]].seqs  PROVE j = i
            BY DEF holds
          <5>1. mem.tail[s] = old[j] /\ mem.tail[s] = old[i]
            BY <1>1, <1>5, <3>6 DEF TailsExact
          <5> QED  BY <1>6, <5>1
        <4>2. i \in holds(s) /\ holds(s) \in SUBSET Nat
          BY <1>5, <3>6 DEF holds
        <4>3. MinOf(holds(s)) \in holds(s)
          BY <4>2, MinFacts
        <4>4. tail[s] = i
          BY <4>1, <4>2, <4>3 DEF tail
        <4> QED  BY <1>1, <1>5, <3>6, <4>4 DEF TailsExact
      <3>7. ASSUME NEW s \in Ids
            PROVE  \/ tail[s] = None /\ mem.tail[s] = None
                   \/ \E i \in 0 .. n - 1 : tail[s] = i /\ s \in mem.cell[old[i]].seqs
                                            /\ mem.tail[s] = old[i]
        <4>1. CASE mem.tail[s] = None
          <5>1. holds(s) = {}
            <6> SUFFICES ASSUME NEW i \in holds(s)  PROVE FALSE
              OBVIOUS
            <6>1. i \in 0 .. n - 1 /\ s \in mem.cell[old[i]].seqs
              BY DEF holds
            <6>2. mem.tail[s] \in Ids
              BY <1>5, <3>6, <6>1
            <6> QED  BY <4>1, <6>2, IdsFacts
          <5> QED  BY <4>1, <5>1 DEF tail
        <4>2. CASE mem.tail[s] # None
          <5> DEFINE t == mem.tail[s]
          <5>1. t \in Ids
            BY <1>1, <4>2 DEF Memories
          <5>2. s \in mem.cell[t].seqs
            BY <1>1, <5>1 DEF TailsExact
          <5>3. t \in Used(mem)
            BY <5>1, <5>2 DEF Used, is_empty
          <5>4. PICK i \in 0 .. n - 1 : old[i] = t
            BY <1>3, <5>3 DEF Range
          <5> HIDE DEF t
          <5>5. s \in mem.cell[old[i]].seqs
            BY <5>2, <5>4
          <5>6. tail[s] = i /\ mem.tail[s] = old[i]
            BY <3>6, <5>5
          <5> QED  BY <5>5, <5>6
        <4> QED  BY <4>1, <4>2
      <3>8. m \in Memories
        <4>1. new \in [Ids -> Cells]
          BY <3>5, NoCellFacts DEF new
        <4>2. tail \in [Ids -> Ids \cup {None}]
          BY <1>5, <3>7 DEF tail
        <4> QED  BY <1>2, <4>1, <4>2, IdsFacts DEF Memories
      <3>9. TailsExact(m)
        <4> SUFFICES ASSUME NEW s \in Ids, NEW i \in Ids
                     PROVE  s \in new[i].seqs <=> tail[s] = i
          BY <3>4 DEF TailsExact
        <4>1. CASE i \in 0 .. n - 1
          <5>1. s \in new[i].seqs => tail[s] = i
            BY <3>5, <3>6, <4>1
          <5>2. tail[s] = i => s \in mem.cell[old[i]].seqs
            BY <3>7, IdsFacts
          <5> QED  BY <3>5, <4>1, <5>1, <5>2
        <4>2. CASE i \notin 0 .. n - 1
          <5>1. new[i].seqs = {}
            BY <3>5, <4>2, NoCellFacts
          <5>2. tail[s] # i
            BY <3>7, <4>2, IdsFacts
          <5> QED  BY <5>1, <5>2
        <4> QED  BY <4>1, <4>2
      <3>10. PosExact(m)
        <4> SUFFICES ASSUME NEW i \in Ids  PROVE new[i].seqs # {} <=> new[i].pos >= 0
          BY <3>4 DEF PosExact
        <4>1. CASE i \in 0 .. n - 1
          BY <1>1, <1>5, <3>5, <4>1 DEF PosExact
        <4>2. CASE i \notin 0 .. n - 1
          BY <3>5, <4>2, NoCellFacts
        <4> QED  BY <4>1, <4>2
      <3>11. Used(m) = 0 .. n - 1
        <4>1. \A i \in Ids : new[i].seqs # {} <=> i \in 0 .. n - 1
          BY <1>5, <3>5, NoCellFacts
        <4>2. \A i : i \in Used(m) <=> i \in Ids /\ new[i].seqs # {}
          BY <3>4 DEF Used, is_empty
        <4> QED  BY <1>5, <4>1, <4>2
      <3>12. Cardinality(Used(m)) = n
        <4>1. Cardinality(0 .. n - 1) = n
          <5>1. CASE n = 0
            <6>1. 0 .. n - 1 = {}
              BY <5>1
            <6> QED  BY <5>1, <6>1, FS_EmptySet
          <5>2. CASE n # 0
            <6>1. 0 \in Int /\ n - 1 \in Int /\ 0 <= n - 1 /\ ((n - 1) - 0) + 1 = n
              BY <1>2, <5>2
            <6>2. Cardinality(0 .. n - 1) = ((n - 1) - 0) + 1
              BY <6>1, FS_Interval
            <6> QED  BY <6>1, <6>2
          <5> QED  BY <5>1, <5>2
        <4> QED  BY <3>11, <4>1
      <3>13. Consistent(m)
        BY <3>4, <3>8, <3>9, <3>10, <3>12 DEF Consistent
      <3>14. InPlace(m)
        BY <3>4, <3>5, NoCellFacts DEF InPlace
      <3>15. FreeCleared(m, state')
        <4> SUFFICES ASSUME NEW i \in Ids, new[i].seqs = {}, new[i].src = i  PROVE FALSE
          BY <3>4 DEF FreeCleared
        <4>1. i \notin 0 .. n - 1
          BY <1>5, <3>5
        <4> QED  BY <3>5, <4>1, NoCellFacts, IdsFacts
      <3>16. StatesExact(m, state', text)
        <4> SUFFICES ASSUME NEW s \in Ids
                     PROVE  IF tail[s] = None THEN text[s] = Empty
                            ELSE Agrees(state'[tail[s]], text[s])
          BY <3>4 DEF StatesExact
        <4>1. IF mem.tail[s] = None THEN text[s] = Empty
              ELSE Agrees(state[mem.tail[s]], text[s])
          BY <1>1 DEF Exact, StatesExact
        <4>2. CASE tail[s] = None /\ mem.tail[s] = None
          BY <4>1, <4>2
        <4>3. ASSUME NEW i \in 0 .. n - 1, tail[s] = i, mem.tail[s] = old[i]
              PROVE  tail[s] # None /\ Agrees(state'[tail[s]], text[s])
          <5>1. i # None /\ old[i] # None
            BY <1>5, IdsFacts
          <5> QED  BY <3>2, <4>1, <4>3, <5>1
        <4> QED  BY <3>7, <4>2, <4>3
      <3> HIDE DEF m
      <3> QED  BY <3>2, <3>3, <3>13, <3>14, <3>15, <3>16 DEF Exact
    <2> QED  BY <2>1, <2>2
  <1>10. TypeOK'
    BY <1>1, <1>3, <1>7, <1>8, <1>9 DEF TypeOK, Consistent
  <1> QED  BY <1>1, <1>3, <1>9, <1>10 DEF RInv

-----------------------------------------------------------------------------
(***************************************************************************)
(* The theorems.                                                           *)
(***************************************************************************)
LEMMA Initially == Init => RInv
  <1> SUFFICES ASSUME Init  PROVE RInv
    OBVIOUS
  <1>1. mem = Cleared /\ state = NoTexts /\ text = NoTexts /\ saved = NothingSaved /\ ops = 0
    BY DEF Init
  <1>2. Consistent(mem) /\ Exact(mem, state, text)
    BY <1>1, ClearedConsistent
  <1>3. NoTexts \in [Ids -> States] /\ NothingSaved \in [pos : -1 .. MaxPos, state : States]
    BY StatesFacts, RecurrentAssumption DEF NoTexts, NothingSaved
  <1>4. TypeOK
    BY <1>1, <1>2, <1>3, RecurrentAssumption DEF TypeOK, Consistent
  <1> QED  BY <1>1, <1>2, <1>4 DEF RInv

LEMMA Inductive == RInv /\ [Next]_vars => RInv'
  <1> SUFFICES ASSUME RInv, [Next]_vars  PROVE RInv'
    OBVIOUS
  <1>1. ASSUME NEW u \in Ubatches, Decode(u)  PROVE RInv'
    BY <1>1, DecodeStep
  <1>2. ASSUME ops < MaxOps, ops' = ops + 1, Other  PROVE RInv'
    <2>1. ops' \in 0 .. MaxOps
      BY <1>2, RecurrentAssumption DEF RInv, TypeOK
    <2>2. CASE SeqOps
      BY <2>1, <2>2, SeqOpsStep
    <2>3. CASE StateOps
      <3>1. ASSUME NEW s \in Ids, StateWriteSeq(s)  PROVE RInv'
        BY <2>1, <3>1, StateWriteStep
      <3>2. ASSUME NEW good \in BOOLEAN, StateReadAll(good)  PROVE RInv'
        BY <2>1, <3>2, StateReadAllStep
      <3>3. ASSUME NEW good \in BOOLEAN, NEW s \in Ids, StateReadSeq(s, good)  PROVE RInv'
        BY <2>1, <3>3, StateReadSeqStep
      <3> QED  BY <2>3, <3>1, <3>2, <3>3 DEF StateOps
    <2>4. ASSUME NEW u \in Ubatches, DecodeFails(u)  PROVE RInv'
      BY <2>1, <2>4, DecodeFailsStep
    <2>5. ASSUME NEW data \in BOOLEAN, Clear(data)  PROVE RInv'
      BY <2>1, <2>5, ClearStep
    <2> QED  BY <1>2, <2>2, <2>3, <2>4, <2>5 DEF Other
  <1>3. CASE UNCHANGED vars
    BY <1>3 DEF vars, RInv, TypeOK, Consistent, Exact, TailsExact, PosExact, Used, is_empty,
        InPlace, FreeCleared, StatesExact
  <1> QED  BY <1>1, <1>2, <1>3 DEF Next

(* What holds between any two calls of llama_memory_recurrent, for every      *)
(* number of cells and every list of sequences a token may have.            *)
THEOREM Invariant == Spec => []RInv
  BY Initially, Inductive, PTL DEF Spec

(* The types of the cells, counters and states hold for every instance.      *)
THEOREM TypeCorrect == Spec => []TypeOK
  <1>1. RInv => TypeOK
    BY DEF RInv
  <1> QED  BY <1>1, Invariant, PTL

(* find_slot(), seq_rm(), seq_cp(), seq_keep() and state_read() keep the tails *)
(* in step with the cells, and the counter of cells in use exact: the check  *)
(* that find_slot() makes in debug builds cannot fail.                        *)
THEOREM IndexesStayExact == Spec => []IndexesExact
  <1>1. RInv => IndexesExact
    <2> SUFFICES ASSUME RInv  PROVE IndexesExact
      OBVIOUS
    <2>1. TypeOK /\ TailsExact(mem) /\ PosExact(mem) /\ mem.used = Cardinality(Used(mem))
      BY DEF RInv, Consistent
    <2>2. Used(mem) = {i \in Ids : mem.cell[i].pos >= 0}
      BY <2>1 DEF PosExact, Used, is_empty
    <2> QED  BY <2>1, <2>2 DEF IndexesExact, TailsExact
  <1> QED  BY <1>1, Invariant, PTL

(* The assertions of find_slot() never fail: while a sequence has to be       *)
(* placed there is an empty cell, the range is as long as the ubatch, and a   *)
(* cell that no state comes from is found whenever one is needed.            *)
THEOREM SlotsAlwaysFound == Spec => []SlotsFound
  <1>1. RInv => SlotsFound
    BY DEF RInv, Consistent, SlotsFound
  <1> QED  BY <1>1, Invariant, PTL

(* Between two ubatches every sequence has the state that its tokens gave it,  *)
(* through the exchanges of find_slot(), copies, failed graphs, and saving    *)
(* and restoring; or one that a failed graph was to write.                   *)
THEOREM StatesStayExact == Spec => []StateExact
  <1>1. RInv => StateExact
    BY DEF RInv, Exact, StatesExact, StateExact
  <1> QED  BY <1>1, Invariant, PTL
=============================================================================
