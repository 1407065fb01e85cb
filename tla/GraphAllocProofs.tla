-------------------------- MODULE GraphAllocProofs --------------------------
(***************************************************************************)
(* Proofs about GraphAlloc: whatever graph is planned, the free blocks of   *)
(* ggml_dyn_tallocr and the tensors that are allocated are, at every call,  *)
(* exactly the buffer; and what a computed graph overwrites is needed no    *)
(* more.                                                                    *)
(***************************************************************************)
EXTENDS GraphAlloc, FiniteSetTheorems, SequenceTheorems, WellFoundedInduction, TLAPS

(***************************************************************************)
(* Free blocks: in the order of their offsets, and no two touch.  The code  *)
(* compares neighbours only; of any two blocks it can be kept without an    *)
(* induction over the list.                                                 *)
(***************************************************************************)
Block == [offset : Nat, size : Nat \ {0}]
Sorted(bs) == \A k, l \in 1 .. Len(bs) : k < l => End(bs[k]) < bs[l].offset
In(b, x) == b.offset <= x /\ x < End(b)
Free(bs, x) == \E k \in 1 .. Len(bs) : In(bs[k], x)
Tallocr == [blocks : Seq(Block), max_size : Nat]

-----------------------------------------------------------------------------
LEMMA LeastNatural ==
    ASSUME NEW P \in SUBSET Nat, P # {}
    PROVE  \E m \in P : \A k \in P : m <= k
  <1> DEFINE R == OpToRel(<, Nat)
  <1>1. IsWellFoundedOn(R, Nat)
    BY NatLessThanWellFounded, Zenon
  <1>2. \A k, m \in Nat : k < m => <<k, m>> \in R
    BY DEF OpToRel
  <1> HIDE DEF R
  <1>3. PICK m \in P : \A k \in P : ~(<<k, m>> \in R)
    BY <1>1, WFMin
  <1>4. \A k \in P : ~(k < m)
    BY <1>2, <1>3
  <1> QED  BY <1>4

LEMMA FirstFacts ==
    ASSUME NEW S \in SUBSET Nat, S # {}
    PROVE  First(S) \in S /\ \A k \in S : First(S) <= k
  BY LeastNatural DEF First

LEMMA AlignedFacts ==
    ASSUME NEW n \in Nat \ {0}
    PROVE  aligned(n) \in Nat \ {0}
  <1> DEFINE q == (n + Alignment - 1) \div Alignment
  <1>1. Alignment \in Nat /\ Alignment >= 1
    BY TallocrAssumption
  <1>2. q \in Nat /\ q >= 1
    BY <1>1
  <1> HIDE DEF q
  <1>3. q * Alignment \in Nat /\ q * Alignment >= 1
    BY <1>1, <1>2
  <1> QED  BY <1>3 DEF aligned, q

(* Removing and inserting an element. *)
LEMMA RemoveFacts ==
    ASSUME NEW X, NEW q \in Seq(X), NEW f \in 1 .. Len(q)
    PROVE  /\ RemoveAt(q, f) \in Seq(X)
           /\ Len(RemoveAt(q, f)) = Len(q) - 1
           /\ \A k \in 1 .. (Len(q) - 1) :
                 RemoveAt(q, f)[k] = IF k < f THEN q[k] ELSE q[k + 1]
  <1>1. Len(q) \in Nat /\ f \in Nat /\ 1 <= f /\ f <= Len(q)
    OBVIOUS
  <1> DEFINE a == SubSeq(q, 1, f - 1)
             b == SubSeq(q, f + 1, Len(q))
  <1>2. /\ a \in Seq(X) /\ Len(a) = f - 1
        /\ \A k \in 1 .. (f - 1) : a[k] = q[k]
    BY <1>1
  <1>3. /\ b \in Seq(X) /\ Len(b) = Len(q) - f
        /\ \A k \in 1 .. (Len(q) - f) : b[k] = q[f + k]
    BY <1>1
  <1>4. RemoveAt(q, f) = a \o b
    BY DEF RemoveAt
  <1> HIDE DEF a, b
  <1>5. /\ a \o b \in Seq(X) /\ Len(a \o b) = Len(a) + Len(b)
        /\ \A k \in 1 .. (Len(a) + Len(b)) :
              (a \o b)[k] = IF k <= Len(a) THEN a[k] ELSE b[k - Len(a)]
    BY <1>2, <1>3, ConcatProperties
  <1>6. Len(a) + Len(b) = Len(q) - 1
    BY <1>1, <1>2, <1>3
  <1>7. ASSUME NEW k \in 1 .. (Len(q) - 1)  PROVE (a \o b)[k] = IF k < f THEN q[k] ELSE q[k + 1]
    <2>1. CASE k < f
      BY <1>1, <1>2, <1>5, <1>6, <2>1
    <2>2. CASE ~(k < f)
      <3>1. /\ (k - (f - 1)) \in 1 .. (Len(q) - f) /\ f + (k - (f - 1)) = k + 1
            /\ ~(k <= Len(a)) /\ k - Len(a) = k - (f - 1)
        BY <1>1, <1>2, <2>2
      <3>2. (a \o b)[k] = b[k - (f - 1)]
        BY <1>5, <1>6, <3>1
      <3> QED  BY <1>3, <2>2, <3>1, <3>2
    <2> QED  BY <2>1, <2>2
  <1> QED  BY <1>4, <1>5, <1>6, <1>7

LEMMA InsertFacts ==
    ASSUME NEW q \in Seq(Block), NEW e \in Block, NEW f \in 1 .. (Len(q) + 1)
    PROVE  /\ InsertAt(q, f, e) \in Seq(Block)
           /\ Len(InsertAt(q, f, e)) = Len(q) + 1
           /\ \A k \in 1 .. (Len(q) + 1) :
                 InsertAt(q, f, e)[k] = IF k < f THEN q[k] ELSE IF k = f THEN e ELSE q[k - 1]
  <1>1. Len(q) \in Nat /\ f \in Nat /\ 1 <= f /\ f <= Len(q) + 1
    OBVIOUS
  <1> DEFINE a == SubSeq(q, 1, f - 1)
             b == SubSeq(q, f, Len(q))
             c == a \o <<e>>
  <1>2. /\ a \in Seq(Block) /\ Len(a) = f - 1
        /\ \A k \in 1 .. (f - 1) : a[k] = q[k]
    BY <1>1
  <1>3. /\ b \in Seq(Block) /\ Len(b) = Len(q) - f + 1
        /\ \A k \in 1 .. (Len(q) - f + 1) : b[k] = q[f + k - 1]
    BY <1>1
  <1>4. InsertAt(q, f, e) = c \o b
    BY DEF InsertAt
  <1> HIDE DEF a, b
  <1>5. <<e>> \in Seq(Block) /\ Len(<<e>>) = 1 /\ <<e>>[1] = e
    OBVIOUS
  <1>6. /\ c \in Seq(Block) /\ Len(c) = f
        /\ \A k \in 1 .. f : c[k] = IF k < f THEN q[k] ELSE e
    <2>1. /\ a \o <<e>> \in Seq(Block) /\ Len(a \o <<e>>) = Len(a) + Len(<<e>>)
          /\ \A k \in 1 .. (Len(a) + Len(<<e>>)) :
                (a \o <<e>>)[k] = IF k <= Len(a) THEN a[k] ELSE <<e>>[k - Len(a)]
      BY <1>2, <1>5, ConcatProperties
    <2>2. Len(a) + Len(<<e>>) = f
      BY <1>1, <1>2, <1>5
    <2>3. ASSUME NEW k \in 1 .. f  PROVE c[k] = IF k < f THEN q[k] ELSE e
      <3>1. CASE k < f
        BY <1>1, <1>2, <2>1, <2>2, <3>1
      <3>2. CASE ~(k < f)
        <4>1. k = f /\ k - Len(a) = 1 /\ ~(k <= Len(a))
          BY <1>1, <1>2, <3>2
        <4> QED  BY <1>5, <2>1, <2>2, <3>2, <4>1
      <3> QED  BY <3>1, <3>2
    <2> QED  BY <2>1, <2>2, <2>3
  <1> HIDE DEF c
  <1>7. /\ c \o b \in Seq(Block) /\ Len(c \o b) = Len(c) + Len(b)
        /\ \A k \in 1 .. (Len(c) + Len(b)) :
              (c \o b)[k] = IF k <= Len(c) THEN c[k] ELSE b[k - Len(c)]
    BY <1>3, <1>6, ConcatProperties
  <1>8. Len(c) + Len(b) = Len(q) + 1
    BY <1>1, <1>3, <1>6
  <1>9. ASSUME NEW k \in 1 .. (Len(q) + 1)
        PROVE  (c \o b)[k] = IF k < f THEN q[k] ELSE IF k = f THEN e ELSE q[k - 1]
    <2>1. CASE k <= f
      BY <1>1, <1>6, <1>7, <1>8, <2>1
    <2>2. CASE ~(k <= f)
      <3>1. /\ (k - f) \in 1 .. (Len(q) - f + 1) /\ f + (k - f) - 1 = k - 1
            /\ ~(k <= Len(c)) /\ k - Len(c) = k - f /\ ~(k < f) /\ k # f
        BY <1>1, <1>6, <2>2
      <3>2. (c \o b)[k] = b[k - f]
        BY <1>7, <1>8, <3>1
      <3> QED  BY <1>3, <3>1, <3>2
    <2> QED  BY <2>1, <2>2
  <1> QED  BY <1>4, <1>7, <1>8, <1>9

LEMMA BlockFacts ==
    ASSUME NEW bs \in Seq(Block)
    PROVE  \A k \in 1 .. Len(bs) :
              /\ bs[k] \in Block
              /\ bs[k].size \in Nat \ {0} /\ bs[k].offset \in Nat
              /\ End(bs[k]) = bs[k].offset + bs[k].size /\ End(bs[k]) \in Nat
  <1>1. \A b \in Block : /\ b.size \in Nat \ {0} /\ b.offset \in Nat
                         /\ End(b) = b.offset + b.size /\ End(b) \in Nat
    BY DEF Block, End
  <1>2. \A k \in 1 .. Len(bs) : bs[k] \in Block
    OBVIOUS
  <1> QED  BY <1>1, <1>2

(***************************************************************************)
(* ggml_dyn_tallocr_alloc.                                                  *)
(***************************************************************************)
LEMMA BestFitFacts ==
    ASSUME NEW a \in Tallocr, NEW size \in Nat \ {0}, ~OutOfSpace(a, size)
    PROVE  /\ BestFit(a, aligned(size)) \in 1 .. Len(a.blocks)
           /\ a.blocks[BestFit(a, aligned(size))].size >= aligned(size)
  <1> DEFINE bs == a.blocks
             n == aligned(size)
             F == Fitting(a, n)
  <1>1. bs \in Seq(Block) /\ Len(bs) \in Nat
    BY DEF Tallocr
  <1>2. n \in Nat
    BY AlignedFacts
  <1>3. \A k \in 1 .. Len(bs) : bs[k].size \in Nat
    BY <1>1, BlockFacts
  <1>4. \A k : k \in F <=> k \in 1 .. (Len(bs) - 1) /\ bs[k].size >= n
    BY DEF Fitting
  <1>5. CASE F = {}
    <2>1. bs # <<>> /\ ~(bs[Len(bs)].size < n)
      BY <1>5 DEF OutOfSpace
    <2>2. Len(bs) \in 1 .. Len(bs)
      BY <1>1, <2>1
    <2>3. BestFit(a, n) = Len(bs)
      BY <1>5 DEF BestFit
    <2> QED  BY <1>2, <1>3, <2>1, <2>2, <2>3
  <1>6. CASE F # {}
    <2> DEFINE P == {bs[k].size : k \in F}
               Best(k) == \A m \in F : \/ bs[k].size < bs[m].size
                                       \/ bs[k].size = bs[m].size /\ k >= m
    <2> HIDE DEF F
    <2>1. P \in SUBSET Nat /\ P # {}
      BY <1>1, <1>3, <1>4, <1>6
    <2> HIDE DEF P
    <2>2. PICK s \in P : \A v \in P : s <= v
      BY <2>1, LeastNatural
    <2> DEFINE Q == {Len(bs) - k : k \in {m \in F : bs[m].size = s}}
    <2>3. Q \in SUBSET Nat /\ Q # {}
      <3>1. PICK k \in F : bs[k].size = s
        BY <2>2 DEF P
      <3>2. \A m \in F : Len(bs) - m \in Nat
        BY <1>1, <1>4
      <3>3. Len(bs) - k \in Q
        BY <3>1
      <3> QED  BY <3>2, <3>3
    <2> HIDE DEF Q
    <2>4. PICK w \in Q : \A v \in Q : w <= v
      BY <2>3, LeastNatural
    <2>5. PICK k \in F : bs[k].size = s /\ w = Len(bs) - k
      BY <2>4 DEF Q
    <2>6. ASSUME NEW m \in F  PROVE \/ bs[k].size < bs[m].size
                                    \/ bs[k].size = bs[m].size /\ k >= m
      <3>1. bs[m].size \in P /\ s <= bs[m].size /\ bs[m].size \in Nat /\ s \in Nat
        BY <1>3, <1>4, <2>1, <2>2 DEF P
      <3>2. CASE bs[m].size = s
        <4>1. Len(bs) - m \in Q
          BY <3>2 DEF Q
        <4>2. Len(bs) - k <= Len(bs) - m /\ k \in Nat /\ m \in Nat
          BY <1>4, <2>4, <2>5, <4>1
        <4> QED  BY <1>1, <2>5, <3>2, <4>2
      <3>3. CASE bs[m].size # s
        BY <2>5, <3>1, <3>3
      <3> QED  BY <3>2, <3>3
    <2>7. \E b \in F : Best(b)
      BY <2>6
    <2>8. BestFit(a, n) = CHOOSE b \in F : Best(b)
      BY <1>6 DEF BestFit, F
    <2> HIDE DEF Best
    <2>9. BestFit(a, n) \in F
      BY <2>7, <2>8
    <2> QED  BY <1>1, <1>4, <2>9
  <1> QED  BY <1>5, <1>6

(* What is given away was free, and no longer is; nothing else changes. *)
LEMMA AllocFacts ==
    ASSUME NEW a \in Tallocr, Sorted(a.blocks), NEW size \in Nat \ {0}, ~OutOfSpace(a, size)
    PROVE  /\ tallocr_alloc(a, size) \in Tallocr
           /\ Sorted(tallocr_alloc(a, size).blocks)
           /\ alloc_offset(a, size) \in Nat
           /\ \A x \in Nat :
                 LET given == /\ alloc_offset(a, size) <= x
                              /\ x < alloc_offset(a, size) + aligned(size)
                 IN  /\ given => Free(a.blocks, x)
                     /\ Free(tallocr_alloc(a, size).blocks, x) <=> Free(a.blocks, x) /\ ~given
  <1> DEFINE bs == a.blocks
             n == aligned(size)
             f == BestFit(a, n)
             off == bs[f].offset
             left == [offset |-> off + n, size |-> bs[f].size - n]
             new == tallocr_alloc(a, size)
             nb == new.blocks
             given(x) == off <= x /\ x < off + n
  <1>1. bs \in Seq(Block) /\ Len(bs) \in Nat
    BY DEF Tallocr
  <1>2. n \in Nat \ {0}
    BY AlignedFacts
  <1>3. f \in 1 .. Len(bs) /\ bs[f].size >= n
    BY BestFitFacts
  <1>4. \A k \in 1 .. Len(bs) : /\ bs[k] \in Block
                                /\ bs[k].size \in Nat \ {0} /\ bs[k].offset \in Nat
                                /\ End(bs[k]) = bs[k].offset + bs[k].size /\ End(bs[k]) \in Nat
    BY <1>1, BlockFacts
  <1>5. /\ nb = IF bs[f].size = n THEN RemoveAt(bs, f) ELSE [bs EXCEPT ![f] = left]
        /\ new.max_size = IF off + n > a.max_size THEN off + n ELSE a.max_size
        /\ new = [blocks |-> nb, max_size |-> new.max_size]
    BY DEF tallocr_alloc
  <1>6. off = alloc_offset(a, size) /\ off \in Nat /\ off + n \in Nat /\ a.max_size \in Nat
    BY <1>2, <1>3, <1>4 DEF alloc_offset, Tallocr
  <1>7. new.max_size \in Nat
    BY <1>5, <1>6
  <1> HIDE DEF f, n, new
  <1>8. \A k \in 1 .. Len(bs) : k # f => \A x \in Nat : ~(In(bs[k], x) /\ given(x))
    <2>1. \A k \in 1 .. Len(bs) : k < f => End(bs[k]) < off
      BY <1>3 DEF Sorted
    <2>2. \A k \in 1 .. Len(bs) : f < k => End(bs[f]) < bs[k].offset
      BY <1>3 DEF Sorted
    <2>3. off + n <= End(bs[f])
      BY <1>2, <1>3, <1>4
    <2> TAKE k \in 1 .. Len(bs)
    <2> HAVE k # f
    <2> TAKE x \in Nat
    <2>4. CASE k < f
      <3>1. End(bs[k]) < off
        BY <2>1, <2>4
      <3> QED  BY <1>4, <1>6, <3>1 DEF In
    <2>5. CASE f < k
      <3>1. End(bs[f]) < bs[k].offset
        BY <2>2, <2>5
      <3> QED  BY <1>3, <1>4, <1>6, <2>3, <3>1 DEF In
    <2> QED  BY <1>3, <2>4, <2>5
  <1>9. \A x \in Nat : given(x) => In(bs[f], x)
    BY <1>2, <1>3, <1>4, <1>6, SMTT(30) DEF In
  <1>10. CASE bs[f].size = n
    <2>1. /\ nb \in Seq(Block) /\ Len(nb) = Len(bs) - 1
          /\ \A k \in 1 .. (Len(bs) - 1) : nb[k] = IF k < f THEN bs[k] ELSE bs[k + 1]
      BY <1>1, <1>3, <1>5, <1>10, RemoveFacts
    <2> HIDE DEF nb
    <2>2. \A k \in 1 .. Len(nb) : \E m \in 1 .. Len(bs) :
                /\ m # f /\ nb[k] = bs[m] /\ (m = k \/ m = k + 1)
                /\ m = k => k < f
                /\ m = k + 1 => k >= f
      <3> TAKE k \in 1 .. Len(nb)
      <3>1. k \in 1 .. (Len(bs) - 1) /\ k \in Nat /\ f \in Nat
        BY <1>1, <1>3, <2>1
      <3>2. CASE k < f
        <4>1. k \in 1 .. Len(bs) /\ k # f /\ nb[k] = bs[k] /\ k # k + 1
          BY <1>1, <2>1, <3>1, <3>2, SMTT(30)
        <4> QED  BY <3>2, <4>1
      <3>3. CASE ~(k < f)
        <4>1. k + 1 \in 1 .. Len(bs) /\ k + 1 # f /\ nb[k] = bs[k + 1] /\ k # k + 1 /\ k >= f
          BY <1>1, <2>1, <3>1, <3>3
        <4> QED  BY <4>1
      <3> QED  BY <3>2, <3>3
    <2>3. \A m \in 1 .. Len(bs) : m # f => \E k \in 1 .. Len(nb) : nb[k] = bs[m]
      <3> TAKE m \in 1 .. Len(bs)
      <3> HAVE m # f
      <3>1. CASE m < f
        <4>1. m \in 1 .. (Len(bs) - 1) /\ m \in 1 .. Len(nb)
          BY <1>1, <1>3, <2>1, <3>1
        <4> QED  BY <2>1, <3>1, <4>1
      <3>2. CASE ~(m < f)
        <4>1. m - 1 \in 1 .. (Len(bs) - 1) /\ m - 1 \in 1 .. Len(nb) /\ ~(m - 1 < f) /\ (m - 1) + 1 = m
          BY <1>1, <1>3, <2>1, <3>2
        <4>2. nb[m - 1] = bs[m]
          BY <2>1, <4>1
        <4> QED  BY <4>1, <4>2
      <3> QED  BY <3>1, <3>2
    <2>4. Sorted(nb)
      <3> SUFFICES ASSUME NEW k \in 1 .. Len(nb), NEW l \in 1 .. Len(nb), k < l
                   PROVE  End(nb[k]) < nb[l].offset
        BY DEF Sorted
      <3>1. PICK m \in 1 .. Len(bs) : /\ nb[k] = bs[m] /\ (m = k \/ m = k + 1)
                                      /\ m = k => k < f
                                      /\ m = k + 1 => k >= f
        BY <2>2
      <3>2. PICK o \in 1 .. Len(bs) : /\ nb[l] = bs[o] /\ (o = l \/ o = l + 1)
                                      /\ o = l => l < f
                                      /\ o = l + 1 => l >= f
        BY <2>2
      <3>3. m < o
        BY <1>1, <1>3, <2>1, <3>1, <3>2
      <3> QED  BY <3>1, <3>2, <3>3 DEF Sorted
    <2>5. \A x \in Nat : given(x) <=> In(bs[f], x)
      BY <1>2, <1>3, <1>4, <1>6, <1>10 DEF In
    <2>6. ASSUME NEW x \in Nat  PROVE Free(nb, x) <=> Free(bs, x) /\ ~given(x)
      <3>1. ASSUME NEW k \in 1 .. Len(nb), In(nb[k], x)  PROVE Free(bs, x) /\ ~given(x)
        <4>1. PICK m \in 1 .. Len(bs) : m # f /\ nb[k] = bs[m]
          BY <2>2
        <4> QED  BY <1>8, <3>1, <4>1 DEF Free
      <3>2. ASSUME NEW m \in 1 .. Len(bs), In(bs[m], x), ~given(x)  PROVE Free(nb, x)
        <4>1. m # f
          BY <2>5, <3>2
        <4>2. PICK k \in 1 .. Len(nb) : nb[k] = bs[m]
          BY <2>3, <4>1
        <4> QED  BY <3>2, <4>2 DEF Free
      <3> QED  BY <3>1, <3>2 DEF Free
    <2>7. new \in Tallocr
      BY <1>5, <1>7, <2>1 DEF Tallocr, nb
    <2> QED  BY <1>3, <1>6, <1>9, <2>4, <2>6, <2>7 DEF Free, nb, new, n
  <1>11. CASE bs[f].size # n
    <2>1. /\ left \in Block /\ left.offset = off + n /\ End(left) = End(bs[f])
      BY <1>2, <1>3, <1>4, <1>6, <1>11, SMTT(30) DEF Block, End
    <2>2. nb = [bs EXCEPT ![f] = left]
      BY <1>5, <1>11
    <2> HIDE DEF nb, left
    <2>3. /\ nb \in Seq(Block) /\ Len(nb) = Len(bs) /\ nb[f] = left
          /\ \A k \in 1 .. Len(bs) : k # f => nb[k] = bs[k]
      BY <1>1, <1>3, <2>1, <2>2
    <2>4. Sorted(nb)
      <3> SUFFICES ASSUME NEW k \in 1 .. Len(bs), NEW l \in 1 .. Len(bs), k < l
                   PROVE  End(nb[k]) < nb[l].offset
        BY <2>3 DEF Sorted
      <3>1. End(bs[k]) < bs[l].offset
        BY DEF Sorted
      <3>2. End(nb[k]) = End(bs[k])
        BY <2>1, <2>3
      <3>3. bs[l].offset <= nb[l].offset
        <4>1. off <= off + n
          BY <1>2, <1>6
        <4>2. CASE l = f
          BY <2>1, <2>3, <4>1, <4>2
        <4>3. CASE l # f
          <5>1. nb[l] = bs[l] /\ bs[l].offset \in Nat
            BY <1>4, <2>3, <4>3
          <5> QED  BY <5>1
        <4> QED  BY <4>2, <4>3
      <3>4. nb[l].offset \in Nat
        BY <1>4, <1>6, <2>1, <2>3
      <3> QED  BY <1>4, <3>1, <3>2, <3>3, <3>4
    <2>5. \A x \in Nat : In(left, x) <=> In(bs[f], x) /\ ~given(x)
      BY <1>2, <1>3, <1>4, <1>6, <2>1 DEF In
    <2>6. ASSUME NEW x \in Nat  PROVE Free(nb, x) <=> Free(bs, x) /\ ~given(x)
      <3>1. ASSUME NEW k \in 1 .. Len(nb), In(nb[k], x)  PROVE Free(bs, x) /\ ~given(x)
        <4>1. CASE k = f
          BY <1>3, <2>3, <2>5, <3>1, <4>1 DEF Free
        <4>2. CASE k # f
          BY <1>8, <2>3, <3>1, <4>2 DEF Free
        <4> QED  BY <4>1, <4>2
      <3>2. ASSUME NEW m \in 1 .. Len(bs), In(bs[m], x), ~given(x)  PROVE Free(nb, x)
        <4>1. CASE m = f
          BY <2>3, <2>5, <3>2, <4>1 DEF Free
        <4>2. CASE m # f
          BY <2>3, <3>2, <4>2 DEF Free
        <4> QED  BY <4>1, <4>2
      <3> QED  BY <3>1, <3>2 DEF Free
    <2>7. new \in Tallocr
      BY <1>5, <1>7, <2>3 DEF Tallocr, nb
    <2> QED  BY <1>3, <1>6, <1>9, <2>4, <2>6, <2>7 DEF Free, nb, new, n
  <1> QED  BY <1>10, <1>11

(***************************************************************************)
(* ggml_dyn_tallocr_free_tensor.                                            *)
(***************************************************************************)

(* Memory that is in use lies before or behind a free block. *)
LEMMA Apart ==
    ASSUME NEW b \in Block, NEW off \in Nat, NEW n \in Nat \ {0},
           \A x \in Nat : ~(off <= x /\ x < off + n /\ In(b, x))
    PROVE  End(b) <= off \/ off + n <= b.offset
  <1>1. b.size \in Nat \ {0} /\ b.offset \in Nat /\ End(b) = b.offset + b.size
    BY DEF Block, End
  <1> SUFFICES ASSUME off < End(b), b.offset < off + n  PROVE FALSE
    BY <1>1
  <1>2. CASE off <= b.offset
    <2>1. b.offset \in Nat /\ off <= b.offset /\ b.offset < off + n /\ In(b, b.offset)
      BY <1>1, <1>2 DEF In
    <2> QED  BY <2>1
  <1>3. CASE b.offset < off
    <2>1. off < off + n /\ In(b, off)
      BY <1>1, <1>3 DEF In
    <2> QED  BY <2>1
  <1> QED  BY <1>1, <1>2, <1>3

(* The blocks that result from a free tensor at off: sorted, and with it.   *)
LEMMA FreeFacts ==
    ASSUME NEW a \in Tallocr, Sorted(a.blocks), NEW off \in Nat, NEW size \in Nat \ {0},
           \A x \in Nat : ~(off <= x /\ x < off + aligned(size) /\ Free(a.blocks, x))
    PROVE  /\ tallocr_free(a, off, size) \in Tallocr
           /\ Sorted(tallocr_free(a, off, size).blocks)
           /\ \A x \in Nat : Free(tallocr_free(a, off, size).blocks, x) <=>
                 Free(a.blocks, x) \/ (off <= x /\ x < off + aligned(size))
  <1> DEFINE bs == a.blocks
             n == aligned(size)
             T == Touching(a, off, n)
             f == First(T)
             new == tallocr_free(a, off, size)
             nb == new.blocks
             given(x) == off <= x /\ x < off + n
             Grow == Grown(bs, f, off, n)
             at == IF End(bs[f]) = off THEN f ELSE f - 1
  <1>1. bs \in Seq(Block) /\ Len(bs) \in Nat /\ DOMAIN bs = 1 .. Len(bs)
    BY DEF Tallocr
  <1>2. n \in Nat \ {0} /\ off + n \in Nat
    BY AlignedFacts
  <1>3. \A k \in 1 .. Len(bs) : /\ bs[k] \in Block
                                /\ bs[k].size \in Nat \ {0} /\ bs[k].offset \in Nat
                                /\ End(bs[k]) = bs[k].offset + bs[k].size /\ End(bs[k]) \in Nat
    BY <1>1, BlockFacts
  <1>4. /\ nb = IF T = {} THEN InsertAt(bs, InsertPos(a, off), [offset |-> off, size |-> n])
                ELSE MergedWithNext(Grow, at)
        /\ new = [blocks |-> nb, max_size |-> a.max_size]
    BY DEF tallocr_free, Tallocr
  <1>5. \A k : k \in T <=> k \in 1 .. Len(bs) /\ (End(bs[k]) = off \/ off + n = bs[k].offset)
    BY <1>1 DEF Touching
  <1> HIDE DEF n, T, new
  <1>6. \A k \in 1 .. Len(bs) : End(bs[k]) <= off \/ off + n <= bs[k].offset
    <2> TAKE k \in 1 .. Len(bs)
    <2>1. \A x \in Nat : ~(off <= x /\ x < off + n /\ In(bs[k], x))
      BY DEF Free, n
    <2>2. bs[k] \in Block
      BY <1>3
    <2> QED  BY <1>2, <2>1, <2>2, Apart
  <1>7. SUFFICES /\ nb \in Seq(Block) /\ Sorted(nb)
                 /\ \A x \in Nat : Free(nb, x) <=> Free(bs, x) \/ given(x)
    BY <1>4 DEF Tallocr, n, new
  <1>8. CASE T = {}
    <2> DEFINE P == {k \in 1 .. Len(bs) + 1 : k <= Len(bs) => bs[k].offset >= off}
               e == [offset |-> off, size |-> n]
               p == InsertPos(a, off)
    <2>0. \A k : k \in P <=> k \in 1 .. (Len(bs) + 1) /\ (k <= Len(bs) => bs[k].offset >= off)
      OBVIOUS
    <2>2. p = First(P)
      BY DEF InsertPos
    <2>5. nb = InsertAt(bs, p, e)
      BY <1>4, <1>8
    <2>6. e \in Block /\ e.offset = off /\ End(e) = off + n /\ \A x : In(e, x) <=> given(x)
      BY <1>2 DEF Block, End, In
    <2> HIDE DEF P, e, p, nb
    <2>1. P \in SUBSET Nat /\ P # {}
      <3>1. Len(bs) + 1 \in P
        BY <1>1, <2>0
      <3>2. \A k \in P : k \in Nat
        BY <1>1, <2>0
      <3> QED  BY <3>1, <3>2
    <2>3. p \in P /\ \A k \in P : p <= k
      BY <2>1, <2>2, FirstFacts
    <2>4. /\ p \in 1 .. (Len(bs) + 1) /\ p \in Nat
          /\ \A k \in 1 .. Len(bs) : k < p => bs[k].offset < off
          /\ p <= Len(bs) => bs[p].offset >= off
      <3>0. p \in 1 .. (Len(bs) + 1) /\ p \in Nat /\ (p <= Len(bs) => bs[p].offset >= off)
        BY <1>1, <2>0, <2>3
      <3>1. ASSUME NEW k \in 1 .. Len(bs), k < p  PROVE bs[k].offset < off
        <4>1. k \notin P
          BY <2>3, <3>0, <3>1
        <4>2. ~(bs[k].offset >= off)
          BY <1>1, <2>0, <4>1
        <4>3. bs[k].offset \in Nat
          BY <1>3
        <4> QED  BY <4>2, <4>3
      <3> QED  BY <3>0, <3>1
    <2>7. /\ nb \in Seq(Block) /\ Len(nb) = Len(bs) + 1
          /\ \A k \in 1 .. (Len(bs) + 1) :
                nb[k] = IF k < p THEN bs[k] ELSE IF k = p THEN e ELSE bs[k - 1]
      <3>1. bs \in Seq(Block) /\ e \in Block /\ p \in 1 .. (Len(bs) + 1)
        BY <1>1, <2>4, <2>6
      <3>2. /\ InsertAt(bs, p, e) \in Seq(Block) /\ Len(InsertAt(bs, p, e)) = Len(bs) + 1
            /\ \A k \in 1 .. (Len(bs) + 1) :
                  InsertAt(bs, p, e)[k] = IF k < p THEN bs[k] ELSE IF k = p THEN e ELSE bs[k - 1]
        BY <3>1, InsertFacts, ZenonT(60)
      <3> QED  BY <2>5, <3>2
    <2>8. \A k \in 1 .. Len(bs) : End(bs[k]) # off /\ off + n # bs[k].offset
      BY <1>5, <1>8
    <2>9. \A k \in 1 .. Len(bs) : k < p => End(bs[k]) < off
      <3> TAKE k \in 1 .. Len(bs)
      <3> HAVE k < p
      <3>1. bs[k].offset < off /\ bs[k].offset \in Nat /\ End(bs[k]) \in Nat
        BY <1>3, <2>4
      <3>2. ~(off + n <= bs[k].offset)
        BY <1>2, <3>1
      <3> QED  BY <1>6, <2>8, <3>1, <3>2
    <2>10. \A k \in 1 .. Len(bs) : p <= k => off + n < bs[k].offset
      <3> TAKE k \in 1 .. Len(bs)
      <3> HAVE p <= k
      <3>1. p \in 1 .. Len(bs) /\ bs[p].offset >= off
        BY <1>1, <2>4
      <3>2. bs[k].offset >= off
        <4>1. CASE k = p
          BY <3>1, <4>1
        <4>2. CASE p < k
          <5>1. End(bs[p]) < bs[k].offset
            BY <3>1, <4>2 DEF Sorted
          <5>2. /\ bs[p].offset \in Nat /\ End(bs[p]) >= bs[p].offset /\ End(bs[p]) \in Nat
                /\ bs[k].offset \in Nat
            <6>1. /\ bs[p].size \in Nat /\ bs[p].offset \in Nat /\ bs[k].offset \in Nat
                  /\ End(bs[p]) = bs[p].offset + bs[p].size
              BY <1>3, <3>1
            <6> QED  BY <6>1
          <5> QED  BY <3>1, <5>1, <5>2
        <4> QED  BY <2>4, <4>1, <4>2
      <3>3. bs[k].offset \in Nat /\ bs[k].size \in Nat \ {0} /\ End(bs[k]) = bs[k].offset + bs[k].size
        BY <1>3
      <3>4. ~(End(bs[k]) <= off)
        BY <3>2, <3>3
      <3> QED  BY <1>2, <1>6, <2>8, <3>3, <3>4
    <2>11. \A k \in 1 .. Len(nb) : \/ k < p /\ k \in 1 .. Len(bs) /\ nb[k] = bs[k]
                                   \/ k = p /\ nb[k] = e
                                   \/ k > p /\ k - 1 \in 1 .. Len(bs) /\ nb[k] = bs[k - 1]
      BY <1>1, <2>4, <2>7
    <2>12. Sorted(nb)
      <3> SUFFICES ASSUME NEW k \in 1 .. Len(nb), NEW l \in 1 .. Len(nb), k < l
                   PROVE  End(nb[k]) < nb[l].offset
        BY DEF Sorted
      <3>0. k \in Nat /\ l \in Nat
        OBVIOUS
      <3>1. CASE k < p /\ k \in 1 .. Len(bs) /\ nb[k] = bs[k]
        <4>1. End(bs[k]) < off
          BY <2>9, <3>1
        <4>2. CASE l < p /\ l \in 1 .. Len(bs) /\ nb[l] = bs[l]
          BY <3>1, <4>2 DEF Sorted
        <4>3. CASE l = p /\ nb[l] = e
          BY <2>6, <3>1, <4>1, <4>3
        <4>4. CASE l > p /\ l - 1 \in 1 .. Len(bs) /\ nb[l] = bs[l - 1]
          <5>1. k < l - 1
            BY <2>4, <3>0, <3>1, <4>4
          <5> QED  BY <3>1, <4>4, <5>1 DEF Sorted
        <4> QED  BY <2>11, <4>2, <4>3, <4>4
      <3>2. CASE k = p /\ nb[k] = e
        <4>1. l > p /\ l - 1 \in 1 .. Len(bs) /\ nb[l] = bs[l - 1]
          BY <2>4, <2>11, <3>0, <3>2
        <4>2. p <= l - 1
          BY <2>4, <3>0, <4>1
        <4> QED  BY <2>6, <2>10, <3>2, <4>1, <4>2
      <3>3. CASE k > p /\ k - 1 \in 1 .. Len(bs) /\ nb[k] = bs[k - 1]
        <4>1. l > p /\ l - 1 \in 1 .. Len(bs) /\ nb[l] = bs[l - 1]
          BY <2>4, <2>11, <3>0, <3>3
        <4>2. k - 1 < l - 1
          BY <3>0
        <4> QED  BY <3>3, <4>1, <4>2 DEF Sorted
      <3> QED  BY <2>11, <3>1, <3>2, <3>3
    <2>13. ASSUME NEW x \in Nat  PROVE Free(nb, x) <=> Free(bs, x) \/ given(x)
      <3>1. ASSUME NEW k \in 1 .. Len(nb), In(nb[k], x)  PROVE Free(bs, x) \/ given(x)
        BY <2>6, <2>11, <3>1 DEF Free
      <3>2. ASSUME NEW m \in 1 .. Len(bs), In(bs[m], x)  PROVE Free(nb, x)
        <4>1. CASE m < p
          <5>1. m \in 1 .. Len(nb) /\ nb[m] = bs[m]
            BY <1>1, <2>7, <4>1
          <5> QED  BY <3>2, <5>1 DEF Free
        <4>2. CASE ~(m < p)
          <5>1. m + 1 \in 1 .. (Len(bs) + 1) /\ ~(m + 1 < p) /\ m + 1 # p /\ (m + 1) - 1 = m
            BY <1>1, <2>4, <4>2
          <5>2. nb[m + 1] = bs[m]
            BY <2>7, <5>1
          <5> QED  BY <2>7, <3>2, <5>1, <5>2 DEF Free
        <4> QED  BY <4>1, <4>2
      <3>3. ASSUME given(x)  PROVE Free(nb, x)
        <4>1. p \in 1 .. Len(nb) /\ nb[p] = e
          BY <1>1, <2>4, <2>7
        <4> QED  BY <2>6, <3>3, <4>1 DEF Free
      <3> QED  BY <3>1, <3>2, <3>3 DEF Free
    <2> QED  BY <2>7, <2>12, <2>13
  <1>9. CASE T # {}
    <2>1. T \in SUBSET Nat
      BY <1>1, <1>5
    <2>2. f \in T /\ \A k \in T : f <= k
      BY <1>9, <2>1, FirstFacts
    <2> DEFINE b == [offset |-> IF bs[f].offset < off THEN bs[f].offset ELSE off,
                     size |-> bs[f].size + n]
    <2>3. f \in 1 .. Len(bs) /\ (End(bs[f]) = off \/ off + n = bs[f].offset)
      BY <1>5, <2>2
    <2>4. nb = MergedWithNext(Grow, at)
      BY <1>4, <1>9
    <2>10. /\ bs[f].size \in Nat \ {0} /\ bs[f].offset \in Nat
           /\ End(bs[f]) = bs[f].offset + bs[f].size /\ End(bs[f]) \in Nat
      BY <1>3, <2>3
    <2>5. Grow = [bs EXCEPT ![f] = b]
      BY <1>1, <2>3 DEF Grown
    <2> HIDE DEF f, nb, Grow
    <2>6. b \in Block /\ b.offset = (IF bs[f].offset < off THEN bs[f].offset ELSE off)
          /\ End(b) = b.offset + (bs[f].size + n) /\ b.size = bs[f].size + n
      BY <1>2, <1>3, <2>3, SMTT(30) DEF Block, End
    <2> HIDE DEF b
    <2>7. /\ Grow \in Seq(Block) /\ Len(Grow) = Len(bs) /\ Grow[f] = b
          /\ \A k \in 1 .. Len(bs) : k # f => Grow[k] = bs[k]
      BY <1>1, <2>3, <2>5, <2>6
    <2>8. CASE End(bs[f]) = off
      <3>0. b.offset = bs[f].offset /\ End(b) = off + n
        BY <1>2, <2>6, <2>8, <2>10
      <3>1. \A k \in 1 .. Len(bs) : f < k => off + n <= bs[k].offset
        <4> TAKE k \in 1 .. Len(bs)
        <4> HAVE f < k
        <4>1. off < bs[k].offset
          BY <2>3, <2>8 DEF Sorted
        <4>2. bs[k].offset \in Nat /\ bs[k].size \in Nat /\ End(bs[k]) = bs[k].offset + bs[k].size
          BY <1>3
        <4>3. ~(End(bs[k]) <= off)
          BY <4>1, <4>2
        <4> QED  BY <1>6, <4>3
      <3>2. \A x \in Nat : In(b, x) <=> In(bs[f], x) \/ given(x)
        <4>1. /\ bs[f].offset <= off /\ bs[f].offset \in Nat /\ off <= off + n /\ off + n \in Nat
          BY <1>2, <2>8, <2>10
        <4> TAKE x \in Nat
        <4>2. In(b, x) <=> bs[f].offset <= x /\ x < off + n
          BY <3>0 DEF In
        <4>3. In(bs[f], x) <=> bs[f].offset <= x /\ x < off
          BY <2>8 DEF In
        <4> QED  BY <4>1, <4>2, <4>3
      <3>3. at = f
        BY <2>8
      <3>4. CASE f < Len(bs) /\ off + n = bs[f + 1].offset
        <4> DEFINE c == [offset |-> b.offset, size |-> b.size + bs[f + 1].size]
                   m == [Grow EXCEPT ![f] = c]
        <4>1. f + 1 \in 1 .. Len(bs) /\ f + 1 # f /\ f \in Nat
          BY <1>1, <2>3, <3>4
        <4>2. nb = RemoveAt([Grow EXCEPT ![f].size = @ + Grow[f + 1].size], f + 1)
          <5>1. f >= 1 /\ f < Len(Grow) /\ Grow[f + 1] = bs[f + 1]
            BY <1>1, <2>3, <2>7, <3>4, <4>1
          <5>2. End(Grow[f]) = Grow[f + 1].offset
            BY <2>7, <3>0, <3>4, <5>1
          <5> QED  BY <2>4, <3>3, <5>1, <5>2 DEF MergedWithNext
        <4>3. [Grow EXCEPT ![f].size = @ + Grow[f + 1].size] = m
          <5>1. [b EXCEPT !.size = @ + bs[f + 1].size] = c
            BY <2>6 DEF Block
          <5> QED  BY <2>3, <2>7, <4>1, <5>1
        <4>4. /\ c \in Block /\ c.offset = bs[f].offset
              /\ End(c) = End(bs[f + 1])
          <5>1. /\ bs[f + 1].size \in Nat \ {0} /\ bs[f + 1].offset \in Nat /\ b.size \in Nat \ {0}
                /\ End(bs[f + 1]) = bs[f + 1].offset + bs[f + 1].size
                /\ b.offset \in Nat /\ End(b) = b.offset + b.size
            BY <1>3, <2>6, <4>1 DEF Block
          <5>2. c \in Block /\ c.offset = b.offset /\ End(c) = b.offset + (b.size + bs[f + 1].size)
            BY <5>1 DEF Block, End
          <5> QED  BY <3>0, <3>4, <5>1, <5>2, SMTT(30)
        <4> HIDE DEF c
        <4>5. /\ m \in Seq(Block) /\ Len(m) = Len(bs) /\ m[f] = c
              /\ \A k \in 1 .. Len(bs) : k # f => m[k] = bs[k]
          BY <2>3, <2>7, <4>4
        <4>6. nb = RemoveAt(m, f + 1)
          BY <4>2, <4>3
        <4> HIDE DEF m
        <4>7. /\ nb \in Seq(Block) /\ Len(nb) = Len(bs) - 1
              /\ \A k \in 1 .. (Len(bs) - 1) : nb[k] = IF k < f + 1 THEN m[k] ELSE m[k + 1]
          <5>1. m \in Seq(Block) /\ f + 1 \in 1 .. Len(m) /\ Len(m) = Len(bs)
            BY <4>1, <4>5
          <5> QED  BY <4>6, <5>1, RemoveFacts
        <4>8. \A k \in 1 .. Len(nb) : \/ k < f /\ k \in 1 .. Len(bs) /\ nb[k] = bs[k]
                                      \/ k = f /\ nb[k] = c
                                      \/ k > f /\ k + 1 \in 1 .. Len(bs) /\ nb[k] = bs[k + 1]
          BY <1>1, <4>1, <4>5, <4>7
        <4>9. Sorted(nb)
          <5> SUFFICES ASSUME NEW k \in 1 .. Len(nb), NEW l \in 1 .. Len(nb), k < l
                       PROVE  End(nb[k]) < nb[l].offset
            BY DEF Sorted
          <5>0. k \in Nat /\ l \in Nat
            OBVIOUS
          <5>1. CASE k < f /\ k \in 1 .. Len(bs) /\ nb[k] = bs[k]
            <6>1. CASE l < f /\ l \in 1 .. Len(bs) /\ nb[l] = bs[l]
              BY <5>1, <6>1 DEF Sorted
            <6>2. CASE l = f /\ nb[l] = c
              BY <2>3, <4>4, <5>1, <6>2 DEF Sorted
            <6>3. CASE l > f /\ l + 1 \in 1 .. Len(bs) /\ nb[l] = bs[l + 1]
              <7>1. k < l + 1
                BY <5>0
              <7> QED  BY <5>1, <6>3, <7>1 DEF Sorted
            <6> QED  BY <4>8, <6>1, <6>2, <6>3
          <5>2. CASE k = f /\ nb[k] = c
            <6>1. l > f /\ l + 1 \in 1 .. Len(bs) /\ nb[l] = bs[l + 1] /\ f + 1 < l + 1
              BY <4>1, <4>8, <5>0, <5>2
            <6>2. End(bs[f + 1]) < bs[l + 1].offset
              BY <4>1, <6>1 DEF Sorted
            <6> QED  BY <4>4, <5>2, <6>1, <6>2
          <5>3. CASE k > f /\ k + 1 \in 1 .. Len(bs) /\ nb[k] = bs[k + 1]
            <6>1. l > f /\ l + 1 \in 1 .. Len(bs) /\ nb[l] = bs[l + 1] /\ k + 1 < l + 1
              BY <4>1, <4>8, <5>0, <5>3
            <6> QED  BY <5>3, <6>1 DEF Sorted
          <5> QED  BY <4>8, <5>1, <5>2, <5>3
        <4>10. \A x \in Nat : In(c, x) <=> In(b, x) \/ In(bs[f + 1], x)
          <5>1. /\ c.offset = b.offset /\ End(c) = End(bs[f + 1]) /\ End(b) = bs[f + 1].offset
                /\ c.offset \in Nat /\ End(b) \in Nat /\ End(c) \in Nat
                /\ c.offset <= End(b) /\ End(b) <= End(c)
            <6>1. /\ bs[f + 1].offset \in Nat /\ bs[f + 1].size \in Nat
                  /\ End(bs[f + 1]) = bs[f + 1].offset + bs[f + 1].size
              BY <1>3, <4>1
            <6>2. End(b) = off + n /\ off + n = bs[f + 1].offset /\ c.offset = b.offset
                  /\ b.offset = bs[f].offset /\ bs[f].offset <= off /\ End(c) = End(bs[f + 1])
              <7>1. bs[f].offset <= off
                BY <2>8, <2>10
              <7>2. b.offset = bs[f].offset /\ c.offset = b.offset
                BY <3>0, <4>4
              <7> QED  BY <3>0, <3>4, <4>4, <7>1, <7>2
            <6> QED  BY <1>2, <2>10, <6>1, <6>2
          <5> QED  BY <5>1 DEF In
        <4>11. ASSUME NEW x \in Nat  PROVE Free(nb, x) <=> Free(bs, x) \/ given(x)
          <5>1. ASSUME NEW k \in 1 .. Len(nb), In(nb[k], x)  PROVE Free(bs, x) \/ given(x)
            BY <2>3, <3>2, <4>1, <4>8, <4>10, <5>1 DEF Free
          <5>2. ASSUME In(c, x)  PROVE Free(nb, x)
            <6>1. f \in 1 .. Len(nb) /\ nb[f] = c
              BY <1>1, <2>3, <4>1, <4>5, <4>7
            <6> QED  BY <5>2, <6>1 DEF Free
          <5>3. ASSUME NEW k \in 1 .. Len(bs), In(bs[k], x)  PROVE Free(nb, x)
            <6>1. CASE k < f
              <7>1. k \in 1 .. Len(nb) /\ nb[k] = bs[k]
                BY <1>1, <2>3, <4>5, <4>7, <6>1
              <7> QED  BY <5>3, <7>1 DEF Free
            <6>2. CASE k = f \/ k = f + 1
              BY <3>2, <4>10, <5>2, <5>3, <6>2
            <6>3. CASE k > f + 1
              <7>1. k - 1 \in 1 .. (Len(bs) - 1) /\ ~(k - 1 < f + 1) /\ (k - 1) + 1 = k /\ k # f
                BY <1>1, <4>1, <6>3
              <7>2. nb[k - 1] = bs[k]
                BY <4>5, <4>7, <7>1
              <7> QED  BY <4>7, <5>3, <7>1, <7>2 DEF Free
            <6> QED  BY <4>1, <6>1, <6>2, <6>3
          <5> QED  BY <3>2, <4>10, <5>1, <5>2, <5>3 DEF Free
        <4> QED  BY <4>7, <4>9, <4>11
      <3>5. CASE ~(f < Len(bs) /\ off + n = bs[f + 1].offset)
        <4>1. nb = Grow
          <5>1. CASE ~(f < Len(bs))
            BY <2>4, <2>7, <3>3, <5>1 DEF MergedWithNext
          <5>2. CASE f < Len(bs)
            <6>1. f + 1 \in 1 .. Len(bs) /\ f + 1 # f
              BY <1>1, <2>3, <5>2
            <6>2. Grow[f + 1] = bs[f + 1]
              BY <2>7, <6>1
            <6> QED  BY <2>4, <2>7, <3>0, <3>3, <3>5, <5>2, <6>2 DEF MergedWithNext
          <5> QED  BY <5>1, <5>2
        <4>2. \A k \in 1 .. Len(bs) : f < k => off + n < bs[k].offset
          <5> TAKE k \in 1 .. Len(bs)
          <5> HAVE f < k
          <5>1. f + 1 \in 1 .. Len(bs) /\ f < f + 1 /\ f < Len(bs)
            BY <1>1, <2>3
          <5>2. off + n < bs[f + 1].offset
            <6>1. off + n <= bs[f + 1].offset /\ bs[f + 1].offset \in Nat
              BY <1>3, <3>1, <5>1
            <6> QED  BY <1>2, <3>5, <5>1, <6>1
          <5>3. CASE k = f + 1
            BY <5>2, <5>3
          <5>4. CASE f + 1 < k
            <6>1. End(bs[f + 1]) < bs[k].offset
              BY <5>1, <5>4 DEF Sorted
            <6>2. /\ End(bs[f + 1]) \in Nat /\ bs[f + 1].offset \in Nat /\ bs[k].offset \in Nat
                  /\ bs[f + 1].offset <= End(bs[f + 1])
              <7>1. /\ bs[f + 1].offset \in Nat /\ bs[f + 1].size \in Nat /\ bs[k].offset \in Nat
                    /\ End(bs[f + 1]) = bs[f + 1].offset + bs[f + 1].size
                BY <1>3, <5>1
              <7> QED  BY <7>1
            <6> QED  BY <1>2, <5>2, <6>1, <6>2
          <5> QED  BY <2>3, <5>3, <5>4
        <4>3. Sorted(nb)
          <5> SUFFICES ASSUME NEW k \in 1 .. Len(bs), NEW l \in 1 .. Len(bs), k < l
                       PROVE  End(Grow[k]) < Grow[l].offset
            BY <2>7, <4>1 DEF Sorted
          <5>1. End(bs[k]) < bs[l].offset
            BY DEF Sorted
          <5>2. CASE k = f
            BY <2>3, <2>7, <3>0, <4>2, <5>2
          <5>3. CASE k # f
            <6>1. Grow[l].offset = bs[l].offset
              BY <2>7, <3>0
            <6> QED  BY <2>7, <5>1, <5>3, <6>1
          <5> QED  BY <5>2, <5>3
        <4>4. ASSUME NEW x \in Nat  PROVE Free(nb, x) <=> Free(bs, x) \/ given(x)
          <5>1. ASSUME NEW k \in 1 .. Len(bs), In(Grow[k], x)  PROVE Free(bs, x) \/ given(x)
            BY <2>3, <2>7, <3>2, <5>1 DEF Free
          <5>2. ASSUME NEW k \in 1 .. Len(bs), In(bs[k], x)  PROVE Free(Grow, x)
            BY <2>3, <2>7, <3>2, <5>2 DEF Free
          <5>3. ASSUME given(x)  PROVE Free(Grow, x)
            BY <2>3, <2>7, <3>2, <5>3 DEF Free
          <5> QED  BY <2>7, <4>1, <5>1, <5>2, <5>3 DEF Free
        <4> QED  BY <2>7, <4>1, <4>3, <4>4
      <3> QED  BY <3>4, <3>5
    <2>9. CASE End(bs[f]) # off
      <3>0. off + n = bs[f].offset /\ b.offset = off /\ End(b) = End(bs[f])
        BY <1>2, <1>3, <2>3, <2>6, <2>9
      <3>1. \A k \in 1 .. Len(bs) : k < f => End(bs[k]) < off
        <4> TAKE k \in 1 .. Len(bs)
        <4> HAVE k < f
        <4>1. End(bs[k]) < off + n
          BY <2>3, <3>0 DEF Sorted
        <4>2. bs[k].offset \in Nat /\ bs[k].size \in Nat /\ End(bs[k]) = bs[k].offset + bs[k].size
              /\ End(bs[k]) \in Nat
          BY <1>3
        <4>3. End(bs[k]) <= off
          BY <1>2, <1>6, <4>1, <4>2, SMTT(30)
        <4>4. End(bs[k]) # off
          BY <1>5, <2>2, <2>3
        <4> QED  BY <4>2, <4>3, <4>4
      <3>2. nb = Grow
        <4>1. at = f - 1
          BY <2>9
        <4>2. CASE ~(f - 1 >= 1)
          BY <2>4, <4>1, <4>2 DEF MergedWithNext
        <4>3. CASE f - 1 >= 1
          <5>1. f - 1 \in 1 .. Len(bs) /\ f - 1 # f /\ f - 1 < f /\ (f - 1) + 1 = f
            BY <1>1, <2>3, <4>3
          <5>2. Grow[f - 1] = bs[f - 1] /\ End(bs[f - 1]) < off /\ Grow[f].offset = off
            BY <2>7, <3>0, <3>1, <5>1
          <5>3. End(Grow[f - 1]) # Grow[f].offset
            <6>1. End(bs[f - 1]) \in Nat
              BY <1>3, <5>1
            <6> QED  BY <5>2, <6>1
          <5> QED  BY <2>4, <4>1, <5>1, <5>3 DEF MergedWithNext
        <4> QED  BY <4>2, <4>3
      <3>3. \A x \in Nat : In(b, x) <=> In(bs[f], x) \/ given(x)
        BY <1>2, <1>3, <2>3, <3>0, SMTT(30) DEF In
      <3>4. Sorted(nb)
        <4> SUFFICES ASSUME NEW k \in 1 .. Len(bs), NEW l \in 1 .. Len(bs), k < l
                     PROVE  End(Grow[k]) < Grow[l].offset
          BY <2>7, <3>2 DEF Sorted
        <4>1. End(bs[k]) < bs[l].offset
          BY DEF Sorted
        <4>2. CASE l = f
          <5>1. k # f
            BY <2>3, <4>2
          <5> QED  BY <2>7, <3>0, <3>1, <4>2, <5>1
        <4>3. CASE l # f
          BY <2>7, <3>0, <4>1, <4>3
        <4> QED  BY <4>2, <4>3
      <3>5. ASSUME NEW x \in Nat  PROVE Free(nb, x) <=> Free(bs, x) \/ given(x)
        <4>1. ASSUME NEW k \in 1 .. Len(bs), In(Grow[k], x)  PROVE Free(bs, x) \/ given(x)
          BY <2>3, <2>7, <3>3, <4>1 DEF Free
        <4>2. ASSUME NEW k \in 1 .. Len(bs), In(bs[k], x)  PROVE Free(Grow, x)
          BY <2>3, <2>7, <3>3, <4>2 DEF Free
        <4>3. ASSUME given(x)  PROVE Free(Grow, x)
          BY <2>3, <2>7, <3>3, <4>3 DEF Free
        <4> QED  BY <2>7, <3>2, <4>1, <4>2, <4>3 DEF Free
      <3> QED  BY <2>7, <3>2, <3>4, <3>5
    <2> QED  BY <2>8, <2>9
  <1> QED  BY <1>8, <1>9

-----------------------------------------------------------------------------
(***************************************************************************)
(* The plan of a graph.  At(G, h, t, x) is that byte x is memory that is    *)
(* planned for tensor t; Exact adds to FreeBlocksExact the types that its   *)
(* proof needs.                                                             *)
(***************************************************************************)
Tensors == [op : Ops, src : Seq(Nat), view : Nat, size : Sizes, output : BOOLEAN]

GraphOK(G) ==
    /\ G \in Seq(Tensors)
    /\ \A t \in 1 .. Len(G) : /\ \A k \in 1 .. Len(G[t].src) : G[t].src[k] \in 1 .. (t - 1)
                              /\ G[t].view < t

At(G, h, t, x) == h.offset[t] <= x /\ x < h.offset[t] + aligned(G[t].size)

Shape(h) == h = [children |-> h.children, views |-> h.views, offset |-> h.offset,
                 allocated |-> h.allocated, talloc |-> h.talloc]

Exact(G, h) ==
    /\ h.offset \in [1 .. Len(G) -> Nat]
    /\ h.allocated \in SUBSET (1 .. Len(G))
    /\ h.talloc \in Tallocr
    /\ Sorted(h.talloc.blocks)
    /\ \A t \in h.allocated : \A x \in Nat :
          At(G, h, t, x) => x < Half /\ ~Free(h.talloc.blocks, x)
    /\ \A t, u \in h.allocated : \A x \in Nat : At(G, h, t, x) /\ At(G, h, u, x) => t = u
    /\ \A x \in Nat : Free(h.talloc.blocks, x) => x < Half
    /\ \A x \in Nat : x < Half =>
          Free(h.talloc.blocks, x) \/ \E t \in h.allocated : At(G, h, t, x)

LEMMA GraphFacts ==
    ASSUME NEW G, GraphOK(G), NEW t \in 1 .. Len(G)
    PROVE  /\ G[t].size \in Sizes /\ G[t].size \in Nat \ {0}
           /\ aligned(G[t].size) \in Nat \ {0}
           /\ G[t].src \in Seq(Nat) /\ G[t].view \in Nat /\ G[t].op \in Ops
           /\ G[t].output \in BOOLEAN
           /\ Root(G, t) \in 1 .. Len(G)
           /\ \A k \in 1 .. Len(G[t].src) : G[t].src[k] \in 1 .. Len(G)
  <1>1. Len(G) \in Nat /\ G[t] \in Tensors
    BY DEF GraphOK
  <1>2. /\ G[t].size \in Sizes /\ G[t].src \in Seq(Nat) /\ G[t].view \in Nat /\ G[t].op \in Ops
        /\ G[t].output \in BOOLEAN
    BY <1>1 DEF Tensors
  <1>3. G[t].size \in Nat \ {0}
    BY <1>2, GraphAssumption
  <1>4. G[t].view < t
    BY DEF GraphOK
  <1>5. Root(G, t) \in 1 .. Len(G)
    BY <1>1, <1>2, <1>4 DEF Root, is_view
  <1>6. \A k \in 1 .. Len(G[t].src) : G[t].src[k] \in 1 .. (t - 1)
    BY DEF GraphOK
  <1>7. \A k \in 1 .. Len(G[t].src) : G[t].src[k] \in 1 .. Len(G)
    BY <1>1, <1>6
  <1>8. aligned(G[t].size) \in Nat \ {0}
    BY <1>3, AlignedFacts
  <1> QED  BY <1>2, <1>3, <1>5, <1>7, <1>8

(* ggml_gallocr_allocate_node keeps the plan exact, in each of its ways. *)
LEMMA Allocated ==
    ASSUME NEW G, GraphOK(G), NEW h, Shape(h), Exact(G, h), NEW t \in 1 .. Len(G),
           ~(~Settled(G, h, t) /\ Reused(G, h, t) = {} /\ OutOfSpace(h.talloc, G[t].size))
    PROVE  Shape(allocate_node(G, h, t)) /\ Exact(G, allocate_node(G, h, t))
  <1> DEFINE new == allocate_node(G, h, t)
             p == G[t].src[First(Reused(G, h, t))]
             bs == h.talloc.blocks
             n == aligned(G[t].size)
  <1>1. CASE Settled(G, h, t)
    BY <1>1 DEF allocate_node
  <1>2. CASE ~Settled(G, h, t) /\ Reused(G, h, t) # {}
    <2>1. Reused(G, h, t) \in SUBSET Nat
      <3>1. G[t].src \in Seq(Nat)
        BY GraphFacts
      <3>2. DOMAIN G[t].src = 1 .. Len(G[t].src)
        BY <3>1
      <3> QED  BY <3>2 DEF Reused
    <2>2. First(Reused(G, h, t)) \in Reused(G, h, t)
      BY <1>2, <2>1, FirstFacts
    <2>3. p \in h.allocated /\ G[p].size = G[t].size
      BY <1>2, <2>2 DEF Reused, Reusable
    <2>4. t \notin h.allocated
      BY <1>2 DEF Settled
    <2>5. new = [h EXCEPT !.offset[t] = h.offset[p],
                          !.allocated = (@ \ {p}) \cup {t}]
      BY <1>2 DEF allocate_node
    <2> HIDE DEF new, p
    <2>6. /\ new.offset = [h.offset EXCEPT ![t] = h.offset[p]]
          /\ new.allocated = (h.allocated \ {p}) \cup {t}
          /\ new.talloc = h.talloc /\ new.children = h.children /\ new.views = h.views
          /\ Shape(new)
      BY <2>5 DEF Shape
    <2>7. new.offset \in [1 .. Len(G) -> Nat] /\ new.allocated \in SUBSET (1 .. Len(G))
      BY <2>3, <2>6 DEF Exact
    <2>8. \A x : At(G, new, t, x) <=> At(G, h, p, x)
      BY <2>3, <2>6 DEF At, Exact
    <2>9. \A u \in h.allocated : \A x : At(G, new, u, x) <=> At(G, h, u, x)
      BY <2>4, <2>6 DEF At, Exact
    <2>10. \A u \in new.allocated : u = t \/ (u # t /\ u # p /\ u \in h.allocated)
      BY <2>4, <2>6
    <2>11. \A u \in new.allocated : \A x \in Nat :
              At(G, new, u, x) => x < Half /\ ~Free(new.talloc.blocks, x)
      BY <2>3, <2>6, <2>8, <2>9, <2>10 DEF Exact
    <2>12. \A u, v \in new.allocated : \A x \in Nat :
              At(G, new, u, x) /\ At(G, new, v, x) => u = v
      BY <2>3, <2>8, <2>9, <2>10 DEF Exact
    <2>13. ASSUME NEW x \in Nat, x < Half
           PROVE  Free(new.talloc.blocks, x) \/ \E u \in new.allocated : At(G, new, u, x)
      <3>1. CASE Free(bs, x)
        BY <2>6, <3>1
      <3>2. ASSUME NEW u \in h.allocated, At(G, h, u, x)
            PROVE  \E v \in new.allocated : At(G, new, v, x)
        <4>1. CASE u = p
          BY <2>6, <2>8, <3>2, <4>1
        <4>2. CASE u # p
          BY <2>6, <2>9, <3>2, <4>2
        <4> QED  BY <4>1, <4>2
      <3> QED  BY <2>13, <3>1, <3>2 DEF Exact
    <2>14. Exact(G, new)
      BY <2>6, <2>7, <2>11, <2>12, <2>13 DEF Exact
    <2> QED  BY <2>6, <2>14 DEF new
  <1>3. CASE ~Settled(G, h, t) /\ Reused(G, h, t) = {}
    <2> DEFINE off == alloc_offset(h.talloc, G[t].size)
               ta == tallocr_alloc(h.talloc, G[t].size)
               given(x) == off <= x /\ x < off + n
    <2>1. /\ ta \in Tallocr /\ Sorted(ta.blocks) /\ off \in Nat
          /\ \A x \in Nat : /\ given(x) => Free(bs, x)
                            /\ Free(ta.blocks, x) <=> Free(bs, x) /\ ~given(x)
      <3>1. h.talloc \in Tallocr /\ Sorted(h.talloc.blocks) /\ G[t].size \in Nat \ {0}
        BY GraphFacts DEF Exact
      <3>2. ~OutOfSpace(h.talloc, G[t].size)
        BY <1>3
      <3> QED  BY <3>1, <3>2, AllocFacts
    <2>2. t \notin h.allocated
      BY <1>3 DEF Settled
    <2>3. new = [h EXCEPT !.offset[t] = off, !.allocated = @ \cup {t}, !.talloc = ta]
      BY <1>3 DEF allocate_node
    <2> HIDE DEF new, off, ta
    <2>4. /\ new.offset = [h.offset EXCEPT ![t] = off]
          /\ new.allocated = h.allocated \cup {t}
          /\ new.talloc = ta /\ new.children = h.children /\ new.views = h.views
          /\ Shape(new)
      BY <2>3 DEF Shape
    <2>5. new.offset \in [1 .. Len(G) -> Nat] /\ new.allocated \in SUBSET (1 .. Len(G))
      BY <2>1, <2>4 DEF Exact
    <2>6. \A x : At(G, new, t, x) <=> given(x)
      BY <2>4 DEF At, Exact
    <2>7. \A u \in h.allocated : \A x : At(G, new, u, x) <=> At(G, h, u, x)
      BY <2>2, <2>4 DEF At, Exact
    <2>8. \A u \in new.allocated : u = t \/ (u # t /\ u \in h.allocated)
      BY <2>2, <2>4
    <2>9. \A x \in Nat : given(x) => x < Half /\ ~Free(ta.blocks, x)
      BY <2>1 DEF Exact
    <2>10. \A u \in h.allocated : \A x \in Nat :
              At(G, h, u, x) => x < Half /\ ~Free(ta.blocks, x) /\ ~given(x)
      BY <2>1 DEF Exact
    <2> HIDE DEF n
    <2>11. \A u \in new.allocated : \A x \in Nat :
              At(G, new, u, x) => x < Half /\ ~Free(new.talloc.blocks, x)
      BY <2>4, <2>6, <2>7, <2>8, <2>9, <2>10
    <2>12. \A u, v \in new.allocated : \A x \in Nat :
              At(G, new, u, x) /\ At(G, new, v, x) => u = v
      BY <2>6, <2>7, <2>8, <2>10 DEF Exact
    <2>13. \A x \in Nat : x < Half =>
              Free(new.talloc.blocks, x) \/ \E u \in new.allocated : At(G, new, u, x)
      BY <2>1, <2>4, <2>6, <2>7 DEF Exact
    <2>14. \A x \in Nat : Free(ta.blocks, x) => x < Half
      BY <2>1 DEF Exact
    <2>15. Exact(G, new)
      BY <2>1, <2>4, <2>5, <2>11, <2>12, <2>13, <2>14 DEF Exact
    <2> QED  BY <2>4, <2>15 DEF new
  <1> QED  BY <1>1, <1>2, <1>3

(* ggml_gallocr_free_node gives back what the tensor had. *)
LEMMA Freed ==
    ASSUME NEW G, GraphOK(G), NEW h, Shape(h), Exact(G, h), NEW r \in h.allocated
    PROVE  Shape(free_node(G, h, r)) /\ Exact(G, free_node(G, h, r))
  <1> DEFINE new == free_node(G, h, r)
             bs == h.talloc.blocks
             n == aligned(G[r].size)
             off == h.offset[r]
             ta == tallocr_free(h.talloc, off, G[r].size)
             given(x) == off <= x /\ x < off + n
  <1>1. CASE G[r].output
    BY <1>1 DEF free_node
  <1>2. CASE ~G[r].output
    <2>1. /\ ta \in Tallocr /\ Sorted(ta.blocks)
          /\ \A x \in Nat : Free(ta.blocks, x) <=> Free(bs, x) \/ given(x)
      <3>1. /\ h.talloc \in Tallocr /\ Sorted(h.talloc.blocks)
            /\ r \in 1 .. Len(G) /\ off \in Nat
        BY DEF Exact
      <3>2. G[r].size \in Nat \ {0}
        BY <3>1, GraphFacts
      <3>3. \A x \in Nat : ~(off <= x /\ x < off + aligned(G[r].size) /\ Free(h.talloc.blocks, x))
        BY DEF Exact, At
      <3> QED  BY <3>1, <3>2, <3>3, FreeFacts
    <2>2. new = [h EXCEPT !.talloc = ta, !.allocated = @ \ {r}]
      BY <1>2 DEF free_node
    <2> HIDE DEF new, ta
    <2>3. /\ new.offset = h.offset /\ new.allocated = h.allocated \ {r}
          /\ new.talloc = ta /\ new.children = h.children /\ new.views = h.views
          /\ Shape(new)
      BY <2>2 DEF Shape
    <2>4. \A u, x : At(G, new, u, x) <=> At(G, h, u, x)
      BY <2>3 DEF At
    <2>5. \A x : At(G, h, r, x) <=> given(x)
      BY DEF At
    <2> HIDE DEF n, off
    <2>6. \A u \in new.allocated : \A x \in Nat :
              At(G, new, u, x) => x < Half /\ ~Free(new.talloc.blocks, x)
      <3> TAKE u \in new.allocated
      <3> TAKE x \in Nat
      <3> HAVE At(G, new, u, x)
      <3>1. u \in h.allocated /\ u # r /\ At(G, h, u, x)
        BY <2>3, <2>4
      <3>2. ~given(x)
        BY <2>5, <3>1 DEF Exact
      <3>3. x < Half /\ ~Free(bs, x)
        BY <3>1 DEF Exact
      <3> QED  BY <2>1, <2>3, <3>2, <3>3
    <2>7. \A u, v \in new.allocated : \A x \in Nat :
              At(G, new, u, x) /\ At(G, new, v, x) => u = v
      BY <2>3, <2>4 DEF Exact
    <2>8. \A x \in Nat : Free(ta.blocks, x) => x < Half
      BY <2>1, <2>5 DEF Exact
    <2>9. \A x \in Nat : x < Half =>
              Free(new.talloc.blocks, x) \/ \E u \in new.allocated : At(G, new, u, x)
      <3> TAKE x \in Nat
      <3> HAVE x < Half
      <3>1. Free(bs, x) \/ \E u \in h.allocated : At(G, h, u, x)
        BY DEF Exact
      <3>2. CASE Free(bs, x)
        BY <2>1, <2>3, <3>2
      <3>3. ASSUME NEW u \in h.allocated, At(G, h, u, x)
            PROVE  Free(new.talloc.blocks, x) \/ \E v \in new.allocated : At(G, new, v, x)
        <4>1. CASE u = r
          BY <2>1, <2>3, <2>5, <3>3, <4>1
        <4>2. CASE u # r
          BY <2>3, <2>4, <3>3, <4>2
        <4> QED  BY <4>1, <4>2
      <3> QED  BY <3>1, <3>2, <3>3
    <2>10. Exact(G, new)
      BY <2>1, <2>3, <2>6, <2>7, <2>8, <2>9 DEF Exact
    <2> QED  BY <2>3, <2>10 DEF new
  <1>3. G[r].output \in BOOLEAN
    <2>1. r \in 1 .. Len(G)
      BY DEF Exact
    <2> QED  BY <2>1, GraphFacts
  <1> QED  BY <1>1, <1>2, <1>3

(* Counting uses changes no plan. *)
LEMMA Recounted ==
    ASSUME NEW G, NEW h, Exact(G, h), NEW k,
           k.offset = h.offset, k.allocated = h.allocated, k.talloc = h.talloc
    PROVE  Exact(G, k)
  <1>1. \A t, x : At(G, k, t, x) <=> At(G, h, t, x)
    BY DEF At
  <1> QED  BY <1>1 DEF Exact

LEMMA ParentUsedFacts ==
    ASSUME NEW G, NEW h, Shape(h), Exact(G, h), NEW p
    PROVE  /\ Shape(ParentUsed(G, h, p)) /\ Exact(G, ParentUsed(G, h, p))
           /\ ParentUsed(G, h, p).allocated = h.allocated
  <1> DEFINE used == [h EXCEPT !.children[p] = @ - 1]
             k == ParentUsed(G, h, p)
             c == [h.children EXCEPT ![p] = @ - 1]
             w == [h.views EXCEPT ![G[p].view] = @ - 1]
  <1>1. used = [h EXCEPT !.children = c]
    OBVIOUS
  <1>2. k = used \/ k = [used EXCEPT !.views = [used.views EXCEPT ![G[p].view] = @ - 1]]
    BY DEF ParentUsed
  <1> HIDE DEF used, k, c
  <1>3. /\ used = [children |-> c, views |-> h.views, offset |-> h.offset,
                   allocated |-> h.allocated, talloc |-> h.talloc]
    BY <1>1 DEF Shape
  <1>4. /\ k.offset = h.offset /\ k.allocated = h.allocated /\ k.talloc = h.talloc
        /\ Shape(k)
    <2>1. CASE k = used
      BY <1>3, <2>1 DEF Shape
    <2>2. CASE k = [used EXCEPT !.views = [used.views EXCEPT ![G[p].view] = @ - 1]]
      <3>1. used.views = h.views
        BY <1>3
      <3>2. k = [children |-> c, views |-> w, offset |-> h.offset,
                 allocated |-> h.allocated, talloc |-> h.talloc]
        BY <1>3, <2>2, <3>1
      <3> HIDE DEF w
      <3> QED  BY <3>2 DEF Shape
    <2> QED  BY <1>2, <2>1, <2>2
  <1>5. Exact(G, k)
    BY <1>4, Recounted
  <1> QED  BY <1>4, <1>5 DEF k

LEMMA CountedFacts ==
    ASSUME NEW G, NEW h, Shape(h), Exact(G, h)
    PROVE  Shape(Counted(G, h)) /\ Exact(G, Counted(G, h))
  <1> DEFINE k == Counted(G, h)
  <1>1. PICK c, w : k = [h EXCEPT !.children = c, !.views = w]
    BY DEF Counted
  <1> HIDE DEF k
  <1>2. k = [children |-> c, views |-> w, offset |-> h.offset,
             allocated |-> h.allocated, talloc |-> h.talloc]
    BY <1>1 DEF Shape
  <1>3. k.offset = h.offset /\ k.allocated = h.allocated /\ k.talloc = h.talloc /\ Shape(k)
    BY <1>2 DEF Shape
  <1>4. Exact(G, k)
    BY <1>3, Recounted
  <1> QED  BY <1>3, <1>4 DEF k

(* ggml_dyn_tallocr_reset: all is free. *)
LEMMA FreshFacts ==
    ASSUME NEW G, GraphOK(G)
    PROVE  Shape(Fresh(G)) /\ Exact(G, Fresh(G))
  <1> DEFINE h == Fresh(G)
             b == [offset |-> 0, size |-> Half]
  <1>1. DOMAIN G = 1 .. Len(G)
    BY DEF GraphOK
  <1>2. Half \in Nat \ {0}
    BY TallocrAssumption
  <1>3. /\ h.offset = [t \in 1 .. Len(G) |-> 0] /\ h.allocated = {}
        /\ h.talloc = [blocks |-> <<b>>, max_size |-> 0] /\ Shape(h)
    BY <1>1 DEF Fresh, tallocr_reset, Shape
  <1> HIDE DEF h
  <1>4. b \in Block /\ \A x \in Nat : In(b, x) <=> x < Half
    BY <1>2 DEF Block, In, End
  <1> HIDE DEF b
  <1>5. /\ h.talloc.blocks = <<b>> /\ Len(<<b>>) = 1 /\ <<b>>[1] = b /\ <<b>> \in Seq(Block)
        /\ h.talloc \in Tallocr
    BY <1>3, <1>4 DEF Tallocr
  <1>6. Sorted(<<b>>)
    BY <1>5 DEF Sorted
  <1>7. \A x \in Nat : Free(<<b>>, x) <=> x < Half
    BY <1>4, <1>5 DEF Free
  <1>8. h.offset \in [1 .. Len(G) -> Nat]
    BY <1>3
  <1>9. Exact(G, h)
    BY <1>3, <1>5, <1>6, <1>7, <1>8 DEF Exact
  <1> QED  BY <1>3, <1>9 DEF h

-----------------------------------------------------------------------------
(***************************************************************************)
(* Graphs: the sources of a tensor come before it, and the leafs first.     *)
(***************************************************************************)
LeafsFirst(G) == \E m \in 0 .. Len(G) : \A t \in 1 .. Len(G) : G[t].src = <<>> <=> t <= m

LEMMA FirstNodeFacts ==
    ASSUME NEW G, GraphOK(G), LeafsFirst(G)
    PROVE  /\ FirstNode(G) \in 1 .. (Len(G) + 1)
           /\ \A t \in 1 .. Len(G) : G[t].src = <<>> <=> t < FirstNode(G)
  <1>1. Len(G) \in Nat /\ DOMAIN G = 1 .. Len(G)
    BY DEF GraphOK
  <1>2. PICK m \in 0 .. Len(G) : \A t \in 1 .. Len(G) : G[t].src = <<>> <=> t <= m
    BY DEF LeafsFirst
  <1>3. Leafs(G) = 1 .. m
    BY <1>1, <1>2 DEF Leafs
  <1>4. Cardinality(1 .. m) = m
    <2>1. m \in Nat
      BY <1>1, <1>2
    <2>2. Cardinality(1 .. m) = IF 1 > m THEN 0 ELSE m - 1 + 1
      BY <2>1, FS_Interval
    <2> QED  BY <2>1, <2>2
  <1>5. FirstNode(G) = m + 1
    BY <1>3, <1>4 DEF FirstNode
  <1> QED  BY <1>1, <1>2, <1>5

LEMMA AppendFacts ==
    ASSUME NEW G, GraphOK(G), NEW e \in Tensors,
           \A k \in 1 .. Len(e.src) : e.src[k] \in 1 .. Len(G), e.view <= Len(G)
    PROVE  /\ GraphOK(Append(G, e))
           /\ Len(Append(G, e)) = Len(G) + 1
           /\ \A t \in 1 .. Len(G) : Append(G, e)[t] = G[t]
           /\ Append(G, e)[Len(G) + 1] = e
  <1>1. G \in Seq(Tensors) /\ Len(G) \in Nat
    BY DEF GraphOK
  <1> DEFINE H == Append(G, e)
  <1>2. /\ H \in Seq(Tensors) /\ Len(H) = Len(G) + 1
        /\ \A t \in 1 .. Len(G) : H[t] = G[t]
        /\ H[Len(G) + 1] = e
    BY <1>1
  <1> HIDE DEF H
  <1>3. ASSUME NEW t \in 1 .. Len(H)
        PROVE  /\ \A k \in 1 .. Len(H[t].src) : H[t].src[k] \in 1 .. (t - 1)
               /\ H[t].view < t
    <2>1. CASE t \in 1 .. Len(G)
      BY <1>2, <2>1 DEF GraphOK
    <2>2. CASE t = Len(G) + 1
      <3>1. H[t] = e /\ t - 1 = Len(G)
        BY <1>1, <1>2, <2>2
      <3>2. e.view \in Nat
        BY DEF Tensors
      <3> QED  BY <1>1, <2>2, <3>1, <3>2
    <2> QED  BY <1>1, <1>2, <2>1, <2>2
  <1>4. GraphOK(H)
    BY <1>2, <1>3 DEF GraphOK
  <1> QED  BY <1>2, <1>4 DEF H

LEMMA LeafAdded ==
    ASSUME GraphOK(g), Nodes(g) = {}, NEW e \in NewLeafs
    PROVE  GraphOK(Append(g, e)) /\ LeafsFirst(Append(g, e))
  <1>1. Len(g) \in Nat /\ DOMAIN g = 1 .. Len(g)
    BY DEF GraphOK
  <1>2. e \in Tensors /\ e.src = <<>> /\ e.view = 0
    <2>1. PICK n \in Sizes, op \in {"leaf", "external"} : e = Tensor(op, <<>>, 0, n, FALSE)
      BY DEF NewLeafs
    <2>2. <<>> \in Seq(Nat)
      OBVIOUS
    <2> QED  BY <2>1, <2>2 DEF Tensor, Tensors, Ops
  <1>3. /\ GraphOK(Append(g, e)) /\ Len(Append(g, e)) = Len(g) + 1
        /\ \A t \in 1 .. Len(g) : Append(g, e)[t] = g[t]
        /\ Append(g, e)[Len(g) + 1] = e
    <2>1. (\A k \in 1 .. Len(e.src) : e.src[k] \in 1 .. Len(g)) /\ e.view <= Len(g)
      <3>1. Len(e.src) = 0 /\ ~\E k \in 1 .. 0 : TRUE
        BY <1>2
      <3> QED  BY <1>1, <1>2, <3>1
    <2> QED  BY <1>2, <2>1, AppendFacts
  <1>4. \A t \in 1 .. Len(g) : g[t].src = <<>>
    BY <1>1 DEF Nodes, Leafs
  <1> DEFINE H == Append(g, e)
  <1> HIDE DEF H
  <1>5. \A t \in 1 .. Len(H) : H[t].src = <<>> /\ t <= Len(H)
    BY <1>1, <1>2, <1>3, <1>4 DEF H
  <1>6. Len(H) \in 0 .. Len(H)
    BY <1>1, <1>3 DEF H
  <1>7. LeafsFirst(H)
    BY <1>5, <1>6 DEF LeafsFirst
  <1> QED  BY <1>3, <1>7 DEF H

LEMMA SourcesFacts ==
    ASSUME GraphOK(g), NEW src \in Sources
    PROVE  /\ src \in Seq(Nat) /\ Len(src) \in Nat \ {0} /\ src # <<>>
           /\ \A k \in 1 .. Len(src) : src[k] \in 1 .. Len(g)
  <1>1. DOMAIN g = 1 .. Len(g) /\ Len(g) \in Nat
    BY DEF GraphOK
  <1>2. CASE src \in {<<a>> : a \in DOMAIN g}
    <2>1. PICK a \in 1 .. Len(g) : src = <<a>>
      BY <1>1, <1>2
    <2> QED  BY <2>1
  <1>3. CASE src \in {<<a, b>> : a, b \in DOMAIN g}
    <2>1. PICK a \in 1 .. Len(g), b \in 1 .. Len(g) : src = <<a, b>>
      BY <1>1, <1>3
    <2> QED  BY <2>1
  <1> QED  BY <1>2, <1>3 DEF Sources

LEMMA NewNodeFacts ==
    ASSUME GraphOK(g), NEW e \in NewNodes
    PROVE  /\ e \in Tensors /\ e.src # <<>> /\ e.view <= Len(g)
           /\ \A k \in 1 .. Len(e.src) : e.src[k] \in 1 .. Len(g)
  <1>1. DOMAIN g = 1 .. Len(g) /\ Len(g) \in Nat
    BY DEF GraphOK
  <1>2. ASSUME NEW op \in {"op", "inplace"}, NEW src \in Sources, NEW n \in Sizes,
               NEW out \in BOOLEAN, e = Tensor(op, src, 0, n, out)
        PROVE  /\ e \in Tensors /\ e.src # <<>> /\ e.view <= Len(g)
               /\ \A k \in 1 .. Len(e.src) : e.src[k] \in 1 .. Len(g)
    <2>1. /\ src \in Seq(Nat) /\ src # <<>>
          /\ \A k \in 1 .. Len(src) : src[k] \in 1 .. Len(g)
      BY SourcesFacts
    <2>2. e.src = src /\ e.view = 0 /\ e \in Tensors
      BY <1>2, <2>1 DEF Tensor, Tensors, Ops
    <2> QED  BY <1>1, <2>1, <2>2
  <1>3. ASSUME NEW a \in 1 .. Len(g), NEW op \in {"view", "dep"}, NEW v \in 1 .. Len(g),
               e = Tensor(op, <<a>>, v, g[a].size, FALSE)
        PROVE  /\ e \in Tensors /\ e.src # <<>> /\ e.view <= Len(g)
               /\ \A k \in 1 .. Len(e.src) : e.src[k] \in 1 .. Len(g)
    <2>1. g[a].size \in Sizes
      BY GraphFacts
    <2>2. <<a>> \in Seq(Nat) /\ <<a>> # <<>> /\ Len(<<a>>) = 1 /\ <<a>>[1] = a
      OBVIOUS
    <2>3. e.src = <<a>> /\ e.view = v /\ e \in Tensors
      BY <1>3, <2>1, <2>2 DEF Tensor, Tensors, Ops
    <2> QED  BY <1>1, <2>2, <2>3
  <1>4. \A a \in 1 .. Len(g) : Root(g, a) \in 1 .. Len(g)
    BY GraphFacts
  <1>5. Leafs(g) \in SUBSET (1 .. Len(g))
    BY <1>1 DEF Leafs
  <1> DEFINE A == {Tensor(op, src, 0, n, out) :
                op \in {"op", "inplace"}, src \in Sources, n \in Sizes, out \in BOOLEAN}
             B == {Tensor("view", <<a>>, Root(g, a), g[a].size, FALSE) : a \in DOMAIN g}
             C == {Tensor("dep", <<a>>, a, g[a].size, FALSE) : a \in Leafs(g)}
  <1>6. CASE e \in B
    <2>1. PICK a \in 1 .. Len(g) : e = Tensor("view", <<a>>, Root(g, a), g[a].size, FALSE)
      BY <1>1, <1>6
    <2> QED  BY <1>3, <1>4, <2>1
  <1>7. CASE e \in C
    <2>1. PICK a \in 1 .. Len(g) : e = Tensor("dep", <<a>>, a, g[a].size, FALSE)
      BY <1>5, <1>7
    <2> QED  BY <1>3, <2>1
  <1>8. CASE e \in A
    <2>1. PICK op \in {"op", "inplace"}, src \in Sources, n \in Sizes, out \in BOOLEAN :
                e = Tensor(op, src, 0, n, out)
      BY <1>8
    <2> QED  BY <1>2, <2>1
  <1>9. NewNodes = A \cup B \cup C
    BY DEF NewNodes
  <1>10. e \in A \/ e \in B \/ e \in C
    <2> HIDE DEF A, B, C
    <2> QED  BY <1>9
  <1> HIDE DEF A, B, C
  <1> QED  BY <1>6, <1>7, <1>8, <1>10

LEMMA NodeAdded ==
    ASSUME GraphOK(g), LeafsFirst(g), NEW e \in NewNodes
    PROVE  GraphOK(Append(g, e)) /\ LeafsFirst(Append(g, e))
  <1>1. Len(g) \in Nat
    BY DEF GraphOK
  <1>2. /\ e \in Tensors /\ e.src # <<>> /\ e.view <= Len(g)
        /\ \A k \in 1 .. Len(e.src) : e.src[k] \in 1 .. Len(g)
    BY NewNodeFacts
  <1> DEFINE H == Append(g, e)
  <1>3. /\ GraphOK(H) /\ Len(H) = Len(g) + 1
        /\ \A t \in 1 .. Len(g) : H[t] = g[t]
        /\ H[Len(g) + 1] = e
    BY <1>2, AppendFacts
  <1> HIDE DEF H
  <1>4. PICK m \in 0 .. Len(g) : \A t \in 1 .. Len(g) : g[t].src = <<>> <=> t <= m
    BY DEF LeafsFirst
  <1>5. \A t \in 1 .. Len(H) : H[t].src = <<>> <=> t <= m
    <2> TAKE t \in 1 .. Len(H)
    <2>1. CASE t \in 1 .. Len(g)
      BY <1>3, <1>4, <2>1
    <2>2. CASE t = Len(g) + 1
      BY <1>1, <1>2, <1>3, <1>4, <2>2
    <2> QED  BY <1>1, <1>3, <2>1, <2>2
  <1>6. m \in 0 .. Len(H)
    BY <1>1, <1>3, <1>4
  <1>7. LeafsFirst(H)
    BY <1>5, <1>6 DEF LeafsFirst
  <1> QED  BY <1>3, <1>7 DEF H

(* The graphs that come later are again graphs. *)
LEMMA LaterFacts ==
    ASSUME GraphOK(g), LeafsFirst(g), NEW G \in LaterGraphs
    PROVE  GraphOK(G) /\ LeafsFirst(G)
  <1>1. Len(g) \in Nat /\ DOMAIN g = 1 .. Len(g) /\ g \in Seq(Tensors)
    BY DEF GraphOK
  <1>2. PICK m \in 0 .. Len(g) : \A t \in 1 .. Len(g) : g[t].src = <<>> <=> t <= m
    BY DEF LeafsFirst
  <1>3. ASSUME G \in Seq(Tensors), Len(G) = Len(g),
               \A t \in 1 .. Len(g) :
                  \/ G[t].src = g[t].src /\ G[t].view = g[t].view
                  \/ /\ G[t].view = g[t].view /\ g[t].src # <<>> /\ G[t].src # <<>>
                     /\ \A k \in 1 .. Len(G[t].src) : G[t].src[k] \in 1 .. (t - 1)
        PROVE  GraphOK(G) /\ LeafsFirst(G)
    <2>1. GraphOK(G)
      BY <1>3 DEF GraphOK
    <2>2. \A t \in 1 .. Len(G) : G[t].src = <<>> <=> t <= m
      BY <1>2, <1>3
    <2> QED  BY <1>2, <1>3, <2>1, <2>2 DEF LeafsFirst
  <1>4. ASSUME G \in Resized(g)  PROVE GraphOK(G) /\ LeafsFirst(G)
    <2>1. PICK f \in [Sizes -> Sizes] : G = [t \in DOMAIN g |-> [g[t] EXCEPT !.size = f[@]]]
      BY <1>4 DEF Resized
    <2>2. \A t \in 1 .. Len(g) : /\ G[t] = [g[t] EXCEPT !.size = f[g[t].size]]
                                 /\ g[t] \in Tensors
      BY <1>1, <2>1
    <2>3. \A t \in 1 .. Len(g) : /\ G[t] \in Tensors /\ G[t].src = g[t].src
                                 /\ G[t].view = g[t].view
      <3> TAKE t \in 1 .. Len(g)
      <3>1. g[t] \in Tensors /\ g[t].size \in Sizes /\ f[g[t].size] \in Sizes
        BY <2>2 DEF Tensors
      <3> QED  BY <2>2, <3>1 DEF Tensors
    <2>4. G \in Seq(Tensors) /\ Len(G) = Len(g)
      <3>1. DOMAIN G = 1 .. Len(g) /\ G = [t \in 1 .. Len(g) |-> G[t]]
        BY <1>1, <2>1
      <3>2. G \in [1 .. Len(g) -> Tensors]
        BY <2>3, <3>1
      <3> QED  BY <1>1, <3>1, <3>2
    <2> QED  BY <1>3, <2>3, <2>4
  <1>5. ASSUME G \in Rewired(g)  PROVE GraphOK(G) /\ LeafsFirst(G)
    <2>1. PICK op \in {"op", "inplace"}, src \in Sources, u \in {v \in Nodes(g) : ~is_view(g, v)} :
              G = [g EXCEPT ![u].op = op, ![u].src = src]
      BY <1>5 DEF Rewired
    <2>2. \A t \in DOMAIN G : \A s \in Range(G[t].src) : s < t
      BY <1>5 DEF Rewired
    <2>3. u \in 1 .. Len(g) /\ g[u].src # <<>>
      BY <1>1, <2>1 DEF Nodes, Leafs
    <2>4. /\ src \in Seq(Nat) /\ src # <<>> /\ \A k \in 1 .. Len(src) : src[k] \in 1 .. Len(g)
      BY SourcesFacts
    <2> DEFINE e == [[g[u] EXCEPT !.op = op] EXCEPT !.src = src]
    <2>5. G = [g EXCEPT ![u] = e]
      BY <1>1, <2>1, <2>3
    <2>6. e \in Tensors /\ e.src = src /\ e.view = g[u].view
      <3>1. g[u] \in Tensors /\ op \in Ops
        BY <1>1, <2>3 DEF Ops
      <3> QED  BY <2>4, <3>1 DEF Tensors
    <2> HIDE DEF e
    <2>7. /\ G \in Seq(Tensors) /\ Len(G) = Len(g) /\ G[u] = e
          /\ \A t \in 1 .. Len(g) : t # u => G[t] = g[t]
      BY <1>1, <2>3, <2>5, <2>6
    <2>8. \A k \in 1 .. Len(src) : src[k] \in 1 .. (u - 1)
      <3> TAKE k \in 1 .. Len(src)
      <3>1. u \in DOMAIN G
        BY <2>3, <2>7
      <3>2. src[k] \in Range(G[u].src)
        BY <2>4, <2>6, <2>7 DEF Range
      <3>3. src[k] < u
        BY <2>2, <3>1, <3>2
      <3> QED  BY <1>1, <2>3, <2>4, <3>3
    <2> QED  BY <1>3, <2>3, <2>4, <2>6, <2>7, <2>8
  <1> QED  BY <1>4, <1>5 DEF LaterGraphs

-----------------------------------------------------------------------------
(***************************************************************************)
(* The inductive invariant.  Which call comes next matters because the      *)
(* parent that UpdateParent looks at has to be one of the node's sources.   *)
(***************************************************************************)
Planning == phase \in {"leafs", "reserve", "planned", "aborted"}
InLeafs == phase = "leafs" => i \in Nat /\ i >= 1 /\ i <= FirstNode(g) /\ call = 1
InNodes == phase = "reserve" =>
              /\ i \in Nat /\ i >= FirstNode(g)
              /\ call \in Nat /\ call >= 1
              /\ i <= Len(g) => call <= 2 * Len(g[i].src) + 1
PlanInv ==
    /\ GraphOK(g) /\ LeafsFirst(g)
    /\ Planning => Shape(st) /\ Exact(g, st)
    /\ InLeafs
    /\ InNodes

(* Sets of bytes, as FreeBlocksExact has them. *)
LEMMA ExactIsFreeBlocksExact ==
    ASSUME PlanInv
    PROVE  FreeBlocksExact
  <1> DEFINE bs == st.talloc.blocks
             free == UNION {bs[k].offset .. End(bs[k]) - 1 : k \in DOMAIN bs}
             used == UNION {Planned(t) : t \in st.allocated}
  <1> SUFFICES ASSUME Planning
               PROVE  /\ \A k \in DOMAIN bs : bs[k].size > 0
                      /\ \A k \in 1 .. Len(bs) - 1 : End(bs[k]) < bs[k + 1].offset
                      /\ \A t, u \in st.allocated : t # u => Planned(t) \cap Planned(u) = {}
                      /\ free \cap used = {}
                      /\ free \cup used = 0 .. Half - 1
    BY DEF FreeBlocksExact, Planning
  <1>1. Exact(g, st) /\ GraphOK(g)
    BY DEF PlanInv
  <1>2. bs \in Seq(Block) /\ DOMAIN bs = 1 .. Len(bs) /\ Len(bs) \in Nat
    BY <1>1 DEF Exact, Tallocr
  <1>3. \A k \in 1 .. Len(bs) : /\ bs[k].size \in Nat \ {0} /\ bs[k].offset \in Nat
                                /\ End(bs[k]) \in Nat
    BY <1>2, BlockFacts
  <1>4. \A x : x \in free <=> x \in Nat /\ Free(bs, x)
    <2>1. \A k \in 1 .. Len(bs) : \A x :
              x \in bs[k].offset .. End(bs[k]) - 1 <=> x \in Nat /\ In(bs[k], x)
      <3> TAKE k \in 1 .. Len(bs)
      <3>1. bs[k].offset \in Nat /\ End(bs[k]) \in Nat
        BY <1>3
      <3> QED  BY <3>1 DEF In
    <2>2. \A x : x \in free <=> \E k \in 1 .. Len(bs) : x \in bs[k].offset .. End(bs[k]) - 1
      BY <1>2
    <2> HIDE DEF free
    <2> QED  BY <2>1, <2>2 DEF Free
  <1>5. \A t \in st.allocated : \A x : x \in Planned(t) <=> x \in Nat /\ At(g, st, t, x)
    <2> TAKE t \in st.allocated
    <2>1. st.offset[t] \in Nat /\ t \in 1 .. Len(g)
      BY <1>1 DEF Exact
    <2>2. aligned(g[t].size) \in Nat
      BY <1>1, <2>1, GraphFacts
    <2> QED  BY <2>1, <2>2 DEF Planned, At
  <1>6. \A x : x \in used <=> \E t \in st.allocated : x \in Planned(t)
    OBVIOUS
  <1> HIDE DEF free, used
  <1>7. \A k \in DOMAIN bs : bs[k].size > 0
    BY <1>2, <1>3
  <1>8. \A k \in 1 .. Len(bs) - 1 : End(bs[k]) < bs[k + 1].offset
    <2> TAKE k \in 1 .. Len(bs) - 1
    <2>1. k \in 1 .. Len(bs) /\ k + 1 \in 1 .. Len(bs) /\ k < k + 1
      BY <1>2
    <2> QED  BY <1>1, <2>1 DEF Exact, Sorted
  <1>9. \A t, u \in st.allocated : t # u => Planned(t) \cap Planned(u) = {}
    BY <1>1, <1>5 DEF Exact
  <1>10. free \cap used = {}
    BY <1>1, <1>4, <1>5, <1>6 DEF Exact
  <1>11. \A x : x \in free \cup used <=> x \in Nat /\ x < Half
    BY <1>1, <1>4, <1>5, <1>6 DEF Exact
  <1>12. \A x : x \in 0 .. Half - 1 <=> x \in Nat /\ x < Half
    BY TallocrAssumption
  <1> QED  BY <1>7, <1>8, <1>9, <1>10, <1>11, <1>12

LEMMA PlanInit == Init => PlanInv
  <1> SUFFICES ASSUME Init  PROVE PlanInv
    OBVIOUS
  <1>1. g = <<>> /\ phase = "build"
    BY DEF Init
  <1>2. GraphOK(<<>>)
    BY DEF GraphOK
  <1>3. LeafsFirst(<<>>)
    BY DEF LeafsFirst
  <1> QED  BY <1>1, <1>2, <1>3 DEF PlanInv, Planning, InLeafs, InNodes

(* ggml_gallocr_reserve starts over. *)
LEMMA BeginReserveKeeps ==
    ASSUME NEW G, GraphOK(G), LeafsFirst(G), BeginReserve(G)
    PROVE  PlanInv'
  <1>1. g' = G /\ st' = Fresh(G) /\ i' = 1 /\ call' = 1 /\ phase' = "leafs"
    BY DEF BeginReserve
  <1>2. GraphOK(g)' /\ LeafsFirst(g)' /\ (FirstNode(g))' >= 1
    <2>1. FirstNode(G) \in 1 .. (Len(G) + 1)
      BY FirstNodeFacts
    <2> QED  BY <1>1, <2>1
  <1>3. Shape(st)' /\ Exact(g, st)'
    BY <1>1, FreshFacts
  <1> QED  BY <1>1, <1>2, <1>3 DEF PlanInv, Planning, InLeafs, InNodes

(* A tensor is placed, or the process is at its end. *)
LEMMA PlaceKeeps ==
    ASSUME PlanInv, Planning, NEW t \in 1 .. Len(g), Place(t), g' = g
    PROVE  /\ Shape(st)' /\ Exact(g, st)'
           /\ phase' = phase \/ phase' = "aborted"
  <1>1. Shape(st) /\ Exact(g, st) /\ GraphOK(g)
    BY DEF PlanInv
  <1>2. CASE ~Settled(g, st, t) /\ Reused(g, st, t) = {} /\ OutOfSpace(st.talloc, g[t].size)
    <2>1. phase' = "aborted" /\ st' = st
      BY <1>2 DEF Place
    <2> QED  BY <1>1, <2>1
  <1>3. CASE ~(~Settled(g, st, t) /\ Reused(g, st, t) = {} /\ OutOfSpace(st.talloc, g[t].size))
    <2>1. phase' = phase /\ st' = allocate_node(g, st, t)
      BY <1>3 DEF Place
    <2>2. Shape(allocate_node(g, st, t)) /\ Exact(g, allocate_node(g, st, t))
      BY <1>1, <1>3, Allocated
    <2> QED  BY <2>1, <2>2
  <1> QED  BY <1>2, <1>3

LEMMA PlanStep == PlanInv /\ [Next]_vars => PlanInv'
  <1> SUFFICES ASSUME PlanInv, [Next]_vars  PROVE PlanInv'
    OBVIOUS
  <1>1. GraphOK(g) /\ LeafsFirst(g) /\ Len(g) \in Nat
    BY DEF PlanInv, GraphOK
  <1>2. /\ FirstNode(g) \in 1 .. (Len(g) + 1)
        /\ \A t \in 1 .. Len(g) : g[t].src = <<>> <=> t < FirstNode(g)
    BY <1>1, FirstNodeFacts
  <1>3. CASE BuildLeaf
    <2>1. PICK e \in NewLeafs : g' = Append(g, e)
      BY <1>3 DEF BuildLeaf
    <2>2. Nodes(g) = {} /\ phase' = "build"
      BY <1>3 DEF BuildLeaf
    <2>3. GraphOK(g)' /\ LeafsFirst(g)'
      BY <1>1, <2>1, <2>2, LeafAdded
    <2> QED  BY <2>2, <2>3 DEF PlanInv, Planning, InLeafs, InNodes
  <1>4. CASE BuildNode
    <2>1. PICK e \in NewNodes : g' = Append(g, e)
      BY <1>4 DEF BuildNode
    <2>2. phase' = "build"
      BY <1>4 DEF BuildNode
    <2>3. GraphOK(g)' /\ LeafsFirst(g)'
      BY <1>1, <2>1, NodeAdded
    <2> QED  BY <2>2, <2>3 DEF PlanInv, Planning, InLeafs, InNodes
  <1>5. CASE Reserve
    BY <1>1, <1>5, BeginReserveKeeps DEF Reserve
  <1>6. CASE PlaceLeaf
    <2>1. phase = "leafs" /\ i < FirstNode(g) /\ Place(i) /\ i' = i + 1 /\ g' = g /\ call' = call
      BY <1>6 DEF PlaceLeaf
    <2>2. i \in Nat /\ i >= 1 /\ call = 1
      BY <2>1 DEF PlanInv, InLeafs
    <2>3. i \in 1 .. Len(g) /\ Planning
      BY <1>1, <1>2, <2>1, <2>2 DEF Planning
    <2>4. /\ Shape(st)' /\ Exact(g, st)'
          /\ phase' = phase \/ phase' = "aborted"
      BY <2>1, <2>3, PlaceKeeps
    <2>5. GraphOK(g)' /\ LeafsFirst(g)' /\ (FirstNode(g))' = FirstNode(g)
      BY <1>1, <2>1
    <2>6. i' \in Nat /\ i' >= 1 /\ i' <= (FirstNode(g))' /\ call' = 1
      BY <1>2, <2>1, <2>2, <2>5
    <2> QED  BY <2>1, <2>4, <2>5, <2>6 DEF PlanInv, InLeafs, InNodes
  <1>7. CASE CountUses
    <2>1. /\ phase = "leafs" /\ i = FirstNode(g) /\ st' = Counted(g, st) /\ phase' = "reserve"
          /\ g' = g /\ i' = i /\ call' = call
      BY <1>7 DEF CountUses
    <2>2. Shape(st) /\ Exact(g, st) /\ i \in Nat /\ call = 1
      BY <2>1 DEF PlanInv, Planning, InLeafs
    <2>3. Shape(st)' /\ Exact(g, st)'
      BY <2>1, <2>2, CountedFacts
    <2>4. GraphOK(g)' /\ LeafsFirst(g)' /\ (FirstNode(g))' = FirstNode(g)
      BY <1>1, <2>1
    <2>5. i' <= Len(g)' => call' <= 2 * Len(g'[i'].src) + 1
      <3> SUFFICES ASSUME i <= Len(g)  PROVE 1 <= 2 * Len(g[i].src) + 1
        BY <2>1, <2>2
      <3>1. i \in 1 .. Len(g)
        BY <1>1, <1>2, <2>1, <2>2
      <3>2. Len(g[i].src) \in Nat
        BY <1>1, <3>1, GraphFacts
      <3> QED  BY <3>2
    <2>6. InNodes'
      <3>1. i' >= (FirstNode(g))' /\ i' \in Nat /\ call' \in Nat /\ call' >= 1
        BY <1>2, <2>1, <2>2, <2>4
      <3> QED  BY <2>5, <3>1 DEF InNodes
    <2> QED  BY <2>1, <2>3, <2>4, <2>6 DEF PlanInv, InLeafs
  <1>8. ASSUME phase = "reserve", i <= Len(g)
        PROVE  /\ i \in 1 .. Len(g) /\ Len(g[i].src) \in Nat \ {0}
               /\ call \in Nat /\ call >= 1 /\ call <= 2 * Len(g[i].src) + 1
               /\ \A k \in 1 .. Len(g[i].src) : g[i].src[k] \in 1 .. Len(g)
    <2>1. /\ i \in Nat /\ i >= FirstNode(g) /\ call \in Nat /\ call >= 1
          /\ call <= 2 * Len(g[i].src) + 1
      BY <1>8 DEF PlanInv, InNodes
    <2>2. i \in 1 .. Len(g) /\ ~(i < FirstNode(g))
      BY <1>1, <1>2, <1>8, <2>1
    <2>3. g[i].src \in Seq(Nat) /\ g[i].src # <<>>
      BY <1>1, <1>2, <2>2, GraphFacts
    <2>4. Len(g[i].src) \in Nat \ {0}
      BY <2>3
    <2>5. \A k \in 1 .. Len(g[i].src) : g[i].src[k] \in 1 .. Len(g)
      BY <1>1, <2>2, GraphFacts
    <2> QED  BY <2>1, <2>2, <2>4, <2>5
  <1>9. CASE PlaceNode
    <2> DEFINE N == Len(g[i].src)
               t == IF call <= N THEN g[i].src[call] ELSE i
    <2>1. /\ phase = "reserve" /\ i <= Len(g) /\ call <= N + 1 /\ Place(t)
          /\ call' = call + 1 /\ g' = g /\ i' = i
      BY <1>9 DEF PlaceNode, NSources
    <2>2. /\ i \in 1 .. Len(g) /\ N \in Nat \ {0}
          /\ call \in Nat /\ call >= 1
          /\ \A k \in 1 .. N : g[i].src[k] \in 1 .. Len(g)
      BY <1>8, <2>1
    <2> HIDE DEF N
    <2>3. t \in 1 .. Len(g) /\ Planning
      BY <2>1, <2>2 DEF Planning
    <2> HIDE DEF t
    <2>4. /\ Shape(st)' /\ Exact(g, st)'
          /\ phase' = phase \/ phase' = "aborted"
      BY <2>1, <2>3, PlaceKeeps
    <2>5. GraphOK(g)' /\ LeafsFirst(g)' /\ (FirstNode(g))' = FirstNode(g)
      BY <1>1, <2>1
    <2>6. i >= FirstNode(g) /\ i \in Nat
      BY <2>1 DEF PlanInv, InNodes
    <2>7. call' \in Nat /\ call' >= 1 /\ call' <= 2 * N + 1
      BY <2>1, <2>2
    <2>8. InNodes'
      BY <2>1, <2>5, <2>6, <2>7 DEF InNodes, N
    <2> QED  BY <2>1, <2>4, <2>5, <2>8 DEF PlanInv, InLeafs
  <1>10. CASE UpdateParent
    <2> DEFINE N == Len(g[i].src)
               p == g[i].src[call - N - 1]
               r == Root(g, p)
               h == ParentUsed(g, st, p)
    <2>1. /\ phase = "reserve" /\ i <= Len(g) /\ call > N + 1 /\ g' = g
          /\ \/ st' = h /\ phase' = phase
             \/ phase' = "aborted" /\ st' = st
             \/ LastUse(g, h, p) /\ st' = free_node(g, h, r) /\ phase' = phase
          /\ \/ call = 2 * N + 1 /\ i' = i + 1 /\ call' = 1
             \/ call # 2 * N + 1 /\ i' = i /\ call' = call + 1
      BY <1>10 DEF UpdateParent, NSources
    <2>2. /\ i \in 1 .. Len(g) /\ N \in Nat \ {0}
          /\ call \in Nat /\ call >= 1 /\ call <= 2 * N + 1
          /\ \A k \in 1 .. N : g[i].src[k] \in 1 .. Len(g)
      BY <1>8, <2>1
    <2>3. p \in 1 .. Len(g)
      <3>1. call - N - 1 \in 1 .. N
        <4> HIDE DEF N
        <4> QED  BY <2>1, <2>2
      <3> QED  BY <2>2, <3>1
    <2>4. Shape(st) /\ Exact(g, st)
      BY <2>1 DEF PlanInv, Planning
    <2> HIDE DEF p
    <2>5. Shape(h) /\ Exact(g, h)
      BY <2>4, ParentUsedFacts
    <2> HIDE DEF h
    <2>6. LastUse(g, h, p) => Shape(free_node(g, h, r)) /\ Exact(g, free_node(g, h, r))
      <3> SUFFICES ASSUME LastUse(g, h, p)
                   PROVE  Shape(free_node(g, h, r)) /\ Exact(g, free_node(g, h, r))
        OBVIOUS
      <3>1. r \in h.allocated
        BY DEF LastUse
      <3> QED  BY <1>1, <2>5, <3>1, Freed
    <2>7. Shape(st)' /\ Exact(g, st)' /\ (phase' = phase \/ phase' = "aborted")
      BY <2>1, <2>4, <2>5, <2>6
    <2>8. GraphOK(g)' /\ LeafsFirst(g)' /\ (FirstNode(g))' = FirstNode(g)
      BY <1>1, <2>1
    <2>9. i >= FirstNode(g) /\ i \in Nat
      BY <2>1 DEF PlanInv, InNodes
    <2>10. InNodes'
      <3>1. CASE call = 2 * N + 1 /\ i' = i + 1 /\ call' = 1
        <4>1. i' \in Nat /\ i' >= (FirstNode(g))' /\ call' \in Nat /\ call' >= 1
          BY <1>2, <2>8, <2>9, <3>1
        <4>2. i' <= Len(g)' => call' <= 2 * Len(g'[i'].src) + 1
          <5> SUFFICES ASSUME i + 1 <= Len(g)  PROVE 1 <= 2 * Len(g[i + 1].src) + 1
            BY <2>1, <3>1
          <5>1. i + 1 \in 1 .. Len(g)
            BY <1>1, <2>9
          <5>2. Len(g[i + 1].src) \in Nat
            BY <1>1, <5>1, GraphFacts
          <5> QED  BY <5>2
        <4> QED  BY <4>1, <4>2 DEF InNodes
      <3>2. CASE call # 2 * N + 1 /\ i' = i /\ call' = call + 1
        <4>1. call' \in Nat /\ call' >= 1 /\ call' <= 2 * N + 1
          <5> HIDE DEF N
          <5> QED  BY <2>2, <3>2
        <4> QED  BY <2>1, <2>8, <2>9, <3>2, <4>1 DEF InNodes
      <3> QED  BY <2>1, <3>1, <3>2
    <2> QED  BY <2>1, <2>7, <2>8, <2>10 DEF PlanInv, InLeafs
  <1>11. CASE SetPlan
    <2>1. phase = "reserve" /\ phase' = "planned" /\ g' = g /\ st' = st
      BY <1>11 DEF SetPlan
    <2>2. Shape(st) /\ Exact(g, st)
      BY <2>1 DEF PlanInv, Planning
    <2> QED  BY <1>1, <2>1, <2>2 DEF PlanInv, InLeafs, InNodes
  <1>12. CASE AllocGraph
    <2>1. PICK G \in LaterGraphs : BeginReserve(G) \/ BeginCompute(G)
      BY <1>12 DEF AllocGraph
    <2>2. GraphOK(G) /\ LeafsFirst(G)
      BY <1>1, LaterFacts
    <2>3. CASE BeginReserve(G)
      BY <2>2, <2>3, BeginReserveKeeps
    <2>4. CASE BeginCompute(G)
      <3>1. g' = G /\ phase' = "compute"
        BY <2>4 DEF BeginCompute
      <3> QED  BY <2>2, <3>1 DEF PlanInv, Planning, InLeafs, InNodes
    <2> QED  BY <2>1, <2>3, <2>4
  <1>13. CASE Compute
    <2>1. g' = g /\ phase' = "compute"
      BY <1>13 DEF Compute
    <2> QED  BY <1>1, <2>1 DEF PlanInv, Planning, InLeafs, InNodes
  <1>14. CASE UNCHANGED vars
    BY <1>14 DEF vars, PlanInv, Planning, InLeafs, InNodes
  <1> QED
    BY <1>3, <1>4, <1>5, <1>6, <1>7, <1>9, <1>10, <1>11, <1>12, <1>13, <1>14 DEF Next

(***************************************************************************)
(* Whatever graph is planned, of any length and with any sizes, in place or *)
(* through views, and wherever ggml_dyn_tallocr runs out of space or of     *)
(* blocks: at every call of ggml_dyn_tallocr_alloc and _free_tensor the     *)
(* free blocks are sorted and apart, and with the tensors that are          *)
(* allocated they are the buffer, each byte once.                           *)
(***************************************************************************)
THEOREM BlocksExact == Spec => []FreeBlocksExact
  <1>1. PlanInv => FreeBlocksExact
    BY ExactIsFreeBlocksExact
  <1> QED  BY <1>1, PlanInit, PlanStep, PTL DEF Spec

-----------------------------------------------------------------------------
(***************************************************************************)
(* No tensor is overwritten while it is needed, as long as later graphs     *)
(* differ from the planned one in their sizes only.                         *)
(*                                                                         *)
(* The argument goes through the whole life of a plan.  While it is made,   *)
(* a tensor that a later node reads is allocated (Live), because its uses   *)
(* are counted exactly (CountInv), so whatever is placed goes beside it     *)
(* (Work).  The finished plan says so of every two tensors (PlanFits),      *)
(* again for every graph that fits it, and so what is computed later leaves *)
(* alone what is still wanted (Computing).                                  *)
(***************************************************************************)

(***************************************************************************)
(* Graphs: leafs are inputs or external, a view is of a tensor that is no   *)
(* view, the one that its only source lies in.                              *)
(***************************************************************************)
WiredAt(G, t) ==
    /\ Len(G[t].src) <= 2
    /\ G[t].src = <<>> => /\ G[t].view = 0 /\ ~G[t].output
                          /\ G[t].op \in {"leaf", "external"}
    /\ G[t].src # <<>> => G[t].op \notin {"leaf", "external"}
    /\ G[t].view # 0 => /\ Len(G[t].src) = 1
                        /\ G[t].view = Root(G, G[t].src[1])
                        /\ G[G[t].view].view = 0
                        /\ G[t].op # "inplace" /\ ~G[t].output
Wired(G) == \A t \in 1 .. Len(G) : WiredAt(G, t)

(* Node u reads memory of t, through a view or not; t is kept while n is     *)
(* computed.                                                                 *)
Reads(G, u, t) == \E k \in 1 .. Len(G[u].src) : Root(G, G[u].src[k]) = t
Kept(G, t, n) == G[t].output \/ \E u \in 1 .. Len(G) : u > n /\ Reads(G, u, t)

(***************************************************************************)
(* What the plan of a graph has to say of two tensors, t before n.           *)
(***************************************************************************)
Beside(G, h, t, n) ==
    \/ h.offset[t] + aligned(G[t].size) <= h.offset[n]
    \/ h.offset[n] + aligned(G[n].size) <= h.offset[t]
Good(G, h, t, n) ==
    /\ Kept(G, t, n) => Beside(G, h, t, n)
    /\ Reads(G, n, t) => \/ Beside(G, h, t, n)
                         \/ /\ G[n].op = "inplace" /\ G[t].size = G[n].size
                            /\ h.offset[t] = h.offset[n]

(* The tensors up to m were placed, and those that are still needed have    *)
(* their memory.                                                            *)
Work(G, h, m) ==
    /\ \A t \in h.allocated : t <= m /\ Placed(G, t)
    /\ \A t \in 1 .. Len(G) : t <= m /\ Placed(G, t) =>
          h.offset[t] + aligned(G[t].size) <= h.talloc.max_size
    /\ \A t, n \in 1 .. Len(G) :
          t < n /\ n <= m /\ Placed(G, t) /\ Placed(G, n) => Good(G, h, t, n)
Live(G, h, m) ==
    \A t \in 1 .. Len(G) : t <= m /\ Placed(G, t) /\ Kept(G, t, m) => t \in h.allocated

(***************************************************************************)
(* The uses that UpdateParent has not counted off yet, when call c of node n *)
(* comes next; the views that still count.                                   *)
(***************************************************************************)
IsUse(G, u, p) == u[2] \in 1 .. Len(G[u[1]].src) /\ G[u[1]].src[u[2]] = p
Uses(G, p) == {u \in (1 .. Len(G)) \X {1, 2} : IsUse(G, u, p)}
Pending(G, n, c, p) ==
    {u \in Uses(G, p) : u[1] > n \/ (u[1] = n /\ c <= Len(G[n].src) + 1 + u[2])}
LiveViews(G, n, c, r) ==
    {v \in 1 .. Len(G) : /\ G[v].view = r /\ G[v].op # "dep"
                         /\ Pending(G, n, c, v) # {} \/ Uses(G, v) = {}}
CountInv(G, h, n, c) ==
    /\ h.children = [p \in 1 .. Len(G) |-> Cardinality(Pending(G, n, c, p))]
    /\ h.views = [p \in 1 .. Len(G) |-> Cardinality(LiveViews(G, n, c, p))]

(* Once node n has its memory its sources have served. *)
LastPlaced(G, n, c) == IF n <= Len(G) /\ c > Len(G[n].src) + 1 THEN n ELSE n - 1

(***************************************************************************)
(* The plan, for the graph that it was made for and for smaller ones.        *)
(***************************************************************************)
Clear(pl, t, n) == \/ pl[t].offset + pl[t].size_max <= pl[n].offset
                   \/ pl[n].offset + pl[n].size_max <= pl[t].offset
PlanFits(G, pl, size) ==
    /\ \A t \in 1 .. Len(G) : Placed(G, t) =>
          /\ pl[t].offset \in Nat /\ pl[t].size_max \in Nat
          /\ G[t].size <= pl[t].size_max
          /\ pl[t].offset + pl[t].size_max <= size
    /\ \A t, n \in 1 .. Len(G) : t < n /\ Placed(G, t) /\ Placed(G, n) =>
          /\ Kept(G, t, n) => Clear(pl, t, n)
          /\ Reads(G, n, t) => \/ Clear(pl, t, n)
                               \/ /\ G[n].op = "inplace" /\ G[t].size = G[n].size
                                  /\ pl[t].offset = pl[n].offset

(* What will be read, and what is to be there at the end, is there. *)
Wanted(G, t, n) == Kept(G, t, n - 1) \/ t = Root(G, Len(G))
Computing(G, n, S) ==
    /\ n \in Nat /\ FirstNode(G) <= n /\ n <= Len(G) + 1
    /\ \A t \in 1 .. Len(G) : t < n /\ ~is_view(G, t) /\ Wanted(G, t, n) => t \in S

IntactInv ==
    /\ Wired(g)
    /\ phase # "build" => Complete(g)
    /\ buffer \in Nat
    /\ phase = "leafs" => Work(g, st, i - 1) /\ Live(g, st, i - 1)
    /\ phase = "reserve" => /\ i <= Len(g) + 1
                            /\ Work(g, st, LastPlaced(g, i, call))
                            /\ Live(g, st, LastPlaced(g, i, call))
                            /\ CountInv(g, st, i, call)
    /\ phase \in {"planned", "compute"} => PlanFits(g, plan, buffer)
    /\ phase = "compute" => Computing(g, i, intact)

-----------------------------------------------------------------------------
(***************************************************************************)
(* Graphs.                                                                   *)
(***************************************************************************)

(* What a tensor's memory belongs to is no view. *)
LEMMA RootFacts ==
    ASSUME NEW G, GraphOK(G), Wired(G), NEW t \in 1 .. Len(G)
    PROVE  /\ Root(G, t) \in 1 .. t /\ Root(G, t) \in 1 .. Len(G)
           /\ ~is_view(G, Root(G, t))
           /\ ~is_view(G, t) <=> Root(G, t) = t
  <1>1. Len(G) \in Nat /\ G[t].view \in Nat /\ G[t].view < t
    BY GraphFacts, SMTT(30) DEF GraphOK
  <1>2. G[t].view # 0 => G[G[t].view].view = 0
    BY DEF Wired, WiredAt
  <1> QED  BY <1>1, <1>2 DEF Root, is_view

LEMMA ReadsFacts ==
    ASSUME NEW G, GraphOK(G), Wired(G), NEW u \in 1 .. Len(G), NEW t, Reads(G, u, t)
    PROVE  t \in 1 .. Len(G) /\ t < u /\ ~is_view(G, t)
  <1>1. PICK k \in 1 .. Len(G[u].src) : Root(G, G[u].src[k]) = t
    BY DEF Reads
  <1>2. G[u].src[k] \in 1 .. (u - 1)
    BY DEF GraphOK
  <1>3. Len(G) \in Nat /\ G[u].src[k] \in 1 .. Len(G)
    BY <1>2 DEF GraphOK
  <1>4. /\ Root(G, G[u].src[k]) \in 1 .. (G[u].src[k]) /\ Root(G, G[u].src[k]) \in 1 .. Len(G)
        /\ ~is_view(G, Root(G, G[u].src[k]))
    BY <1>3, RootFacts
  <1> QED  BY <1>1, <1>2, <1>3, <1>4

LEMMA KeptFacts ==
    ASSUME NEW G, GraphOK(G), NEW t, NEW n \in Nat, NEW m \in Nat, m <= n
    PROVE  /\ Kept(G, t, n) => Kept(G, t, m)
           /\ \A u \in 1 .. Len(G) : u > m /\ Reads(G, u, t) => Kept(G, t, m)
  <1>1. Len(G) \in Nat
    BY DEF GraphOK
  <1>2. \A u \in 1 .. Len(G) : u > n => u > m
    BY <1>1
  <1> QED  BY <1>2 DEF Kept

(* A leaf is kept for the nodes. *)
LEMMA LeafFacts ==
    ASSUME NEW G, GraphOK(G), LeafsFirst(G), Wired(G), Complete(G)
    PROVE  /\ Len(G) \in Nat \ {0} /\ FirstNode(G) \in 1 .. Len(G)
           /\ \A t \in 1 .. Len(G) : t < FirstNode(G) =>
                 /\ ~is_view(G, t) /\ Used(G, t)
                 /\ \A n \in Nat : n < FirstNode(G) => Kept(G, t, n)
  <1>1. Len(G) \in Nat /\ DOMAIN G = 1 .. Len(G)
    BY DEF GraphOK
  <1>2. /\ FirstNode(G) \in 1 .. (Len(G) + 1)
        /\ \A t \in 1 .. Len(G) : G[t].src = <<>> <=> t < FirstNode(G)
    BY FirstNodeFacts
  <1>3. PICK v \in 1 .. Len(G) : G[v].src # <<>>
    BY <1>1 DEF Complete, Nodes, Leafs
  <1>4. Len(G) \in Nat \ {0} /\ FirstNode(G) \in 1 .. Len(G)
    BY <1>1, <1>2, <1>3
  <1>5. ASSUME NEW t \in 1 .. Len(G), t < FirstNode(G)
        PROVE  /\ ~is_view(G, t) /\ Used(G, t)
               /\ \A n \in Nat : n < FirstNode(G) => Kept(G, t, n)
    <2>1. G[t].src = <<>>
      BY <1>2, <1>5
    <2>2. G[t].view = 0 /\ ~G[t].output /\ G[t].op # "dep"
      BY <2>1 DEF Wired, WiredAt
    <2>3. t \in 1 .. (Len(G) - 1)
      BY <1>1, <1>4, <1>5
    <2>4. Used(G, t)
      BY <2>2, <2>3 DEF Complete
    <2>5. PICK u \in 1 .. Len(G) : t \in Range(G[u].src)
      BY <1>1, <2>4 DEF Used
    <2>6. G[u].src \in Seq(Nat)
      BY GraphFacts
    <2>7. PICK k \in 1 .. Len(G[u].src) : G[u].src[k] = t
      BY <2>5, <2>6 DEF Range
    <2>8. G[u].src # <<>>
      BY <2>6, <2>7
    <2>9. ~(u < FirstNode(G))
      BY <1>2, <2>8
    <2>10. Reads(G, u, t)
      BY <2>2, <2>7 DEF Reads, Root, is_view
    <2>11. \A n \in Nat : n < FirstNode(G) => Kept(G, t, n)
      BY <1>1, <1>4, <2>9, <2>10 DEF Kept
    <2> QED  BY <2>2, <2>4, <2>11 DEF is_view
  <1> QED  BY <1>4, <1>5

-----------------------------------------------------------------------------
(***************************************************************************)
(* An application adds a leaf or a node, or comes with other sizes.          *)
(***************************************************************************)
LEMMA WiredAppend ==
    ASSUME NEW G, GraphOK(G), Wired(G), NEW e \in Tensors,
           \A k \in 1 .. Len(e.src) : e.src[k] \in 1 .. Len(G), e.view <= Len(G),
           Len(e.src) <= 2,
           e.src = <<>> => e.view = 0 /\ ~e.output /\ e.op \in {"leaf", "external"},
           e.src # <<>> => e.op \notin {"leaf", "external"},
           e.view # 0 => /\ Len(e.src) = 1 /\ e.view = Root(G, e.src[1])
                         /\ e.op # "inplace" /\ ~e.output
    PROVE  Wired(Append(G, e))
  <1> DEFINE H == Append(G, e)
  <1>1. Len(G) \in Nat
    BY DEF GraphOK
  <1>2. /\ Len(H) = Len(G) + 1
        /\ \A t \in 1 .. Len(G) : H[t] = G[t]
        /\ H[Len(G) + 1] = e
    BY AppendFacts
  <1> HIDE DEF H
  <1>3. \A s \in 1 .. Len(G) : Root(H, s) = Root(G, s)
    BY <1>2 DEF Root, is_view
  <1>4. ASSUME NEW t \in 1 .. Len(G)  PROVE WiredAt(H, t)
    <2>1. WiredAt(G, t) /\ H[t] = G[t]
      BY <1>2 DEF Wired
    <2>2. G[t].view \in Nat /\ G[t].view < t
      BY GraphFacts DEF GraphOK
    <2>3. G[t].view # 0 => H[G[t].view] = G[G[t].view]
      BY <1>1, <1>2, <2>2
    <2>4. G[t].view # 0 => Root(H, G[t].src[1]) = Root(G, G[t].src[1])
      <3> SUFFICES ASSUME G[t].view # 0  PROVE Root(H, G[t].src[1]) = Root(G, G[t].src[1])
        OBVIOUS
      <3>1. Len(G[t].src) = 1
        BY <2>1 DEF WiredAt
      <3>2. G[t].src[1] \in 1 .. Len(G)
        BY <3>1, GraphFacts
      <3> QED  BY <1>3, <3>2
    <2> QED  BY <2>1, <2>3, <2>4 DEF WiredAt
  <1>5. WiredAt(H, Len(G) + 1)
    <2>1. e.view # 0 => /\ Root(H, e.src[1]) = Root(G, e.src[1])
                        /\ H[e.view].view = 0
      <3> SUFFICES ASSUME e.view # 0
                   PROVE  Root(H, e.src[1]) = Root(G, e.src[1]) /\ H[e.view].view = 0
        OBVIOUS
      <3>1. Len(e.src) = 1 /\ e.view = Root(G, e.src[1])
        OBVIOUS
      <3>2. e.src[1] \in 1 .. Len(G)
        BY <3>1
      <3>3. Root(G, e.src[1]) \in 1 .. Len(G) /\ ~is_view(G, Root(G, e.src[1]))
        BY <3>2, RootFacts
      <3> QED  BY <1>2, <1>3, <3>1, <3>2, <3>3 DEF is_view
    <2> QED  BY <1>2, <2>1 DEF WiredAt
  <1>6. \A t \in 1 .. Len(H) : t \in 1 .. Len(G) \/ t = Len(G) + 1
    BY <1>1, <1>2
  <1>7. Wired(H)
    BY <1>4, <1>5, <1>6 DEF Wired
  <1> QED  BY <1>7 DEF H

LEMMA LeafWired ==
    ASSUME GraphOK(g), Wired(g), NEW e \in NewLeafs
    PROVE  Wired(Append(g, e))
  <1>1. Len(g) \in Nat
    BY DEF GraphOK
  <1>2. PICK n \in Sizes, op \in {"leaf", "external"} : e = Tensor(op, <<>>, 0, n, FALSE)
    BY DEF NewLeafs
  <1>3. /\ e \in Tensors /\ e.src = <<>> /\ e.view = 0 /\ e.output = FALSE
        /\ e.op \in {"leaf", "external"}
    <2>1. <<>> \in Seq(Nat)
      OBVIOUS
    <2> QED  BY <1>2, <2>1 DEF Tensor, Tensors, Ops
  <1>4. Len(e.src) = 0 /\ \A k \in 1 .. Len(e.src) : e.src[k] \in 1 .. Len(g)
    BY <1>3
  <1> QED  BY <1>1, <1>3, <1>4, WiredAppend

LEMMA NodeWired ==
    ASSUME GraphOK(g), Wired(g), NEW e \in NewNodes
    PROVE  Wired(Append(g, e))
  <1>1. DOMAIN g = 1 .. Len(g) /\ Len(g) \in Nat
    BY DEF GraphOK
  <1>2. /\ e \in Tensors /\ e.src # <<>> /\ e.view <= Len(g)
        /\ \A k \in 1 .. Len(e.src) : e.src[k] \in 1 .. Len(g)
    BY NewNodeFacts
  <1> DEFINE A == {Tensor(op, src, 0, n, out) :
                op \in {"op", "inplace"}, src \in Sources, n \in Sizes, out \in BOOLEAN}
             B == {Tensor("view", <<a>>, Root(g, a), g[a].size, FALSE) : a \in DOMAIN g}
             C == {Tensor("dep", <<a>>, a, g[a].size, FALSE) : a \in Leafs(g)}
  <1>3. CASE e \in A
    <2>1. PICK op \in {"op", "inplace"}, src \in Sources, n \in Sizes, out \in BOOLEAN :
                e = Tensor(op, src, 0, n, out)
      BY <1>3
    <2>2. Len(src) <= 2
      <3>1. CASE src \in {<<a>> : a \in DOMAIN g}
        <4>1. PICK a \in DOMAIN g : src = <<a>>
          BY <3>1
        <4> QED  BY <4>1
      <3>2. CASE src \in {<<a, b>> : a, b \in DOMAIN g}
        <4>1. PICK a \in DOMAIN g, b \in DOMAIN g : src = <<a, b>>
          BY <3>2
        <4> QED  BY <4>1
      <3> QED  BY <3>1, <3>2 DEF Sources
    <2>3. e.src = src /\ e.view = 0 /\ e.op \in {"op", "inplace"}
      BY <2>1 DEF Tensor
    <2> QED  BY <1>2, <2>2, <2>3, WiredAppend
  <1>4. ASSUME NEW a \in 1 .. Len(g), NEW op \in {"view", "dep"},
               e = Tensor(op, <<a>>, Root(g, a), g[a].size, FALSE)
        PROVE  Wired(Append(g, e))
    <2>1. /\ e.src = <<a>> /\ e.view = Root(g, a) /\ e.op \in {"view", "dep"} /\ ~e.output
          /\ Len(e.src) = 1 /\ e.src[1] = a
      BY <1>4 DEF Tensor
    <2>2. e.view = Root(g, e.src[1]) /\ Len(e.src) <= 2
      BY <2>1
    <2>3. e.op \notin {"leaf", "external"} /\ e.op # "inplace"
      BY <2>1
    <2> QED  BY <1>2, <2>1, <2>2, <2>3, WiredAppend
  <1>5. CASE e \in B
    <2>1. PICK a \in 1 .. Len(g) : e = Tensor("view", <<a>>, Root(g, a), g[a].size, FALSE)
      BY <1>1, <1>5
    <2> QED  BY <1>4, <2>1
  <1>6. CASE e \in C
    <2>1. PICK a \in Leafs(g) : e = Tensor("dep", <<a>>, a, g[a].size, FALSE)
      BY <1>6
    <2>2. a \in 1 .. Len(g) /\ g[a].src = <<>>
      BY <1>1, <2>1 DEF Leafs
    <2>3. g[a].view = 0
      BY <2>2 DEF Wired, WiredAt
    <2>4. Root(g, a) = a
      BY <2>3 DEF Root, is_view
    <2> QED  BY <1>4, <2>1, <2>2, <2>4
  <1>7. NewNodes = A \cup B \cup C
    BY DEF NewNodes
  <1> HIDE DEF A, B, C
  <1> QED  BY <1>3, <1>5, <1>6, <1>7

(* Graphs that differ in their sizes only. *)
Alike(G, H) ==
    /\ Len(G) = Len(H)
    /\ \A t \in 1 .. Len(G) : /\ G[t].src = H[t].src /\ G[t].view = H[t].view
                              /\ G[t].op = H[t].op /\ G[t].output = H[t].output

LEMMA ResizedFacts ==
    ASSUME GraphOK(g), NEW G \in Resized(g)
    PROVE  /\ Alike(g, G)
           /\ \A t, n \in 1 .. Len(g) : g[t].size = g[n].size => G[t].size = G[n].size
  <1>1. Len(g) \in Nat /\ DOMAIN g = 1 .. Len(g) /\ g \in Seq(Tensors)
    BY DEF GraphOK
  <1>2. PICK f \in [Sizes -> Sizes] : G = [t \in DOMAIN g |-> [g[t] EXCEPT !.size = f[@]]]
    BY DEF Resized
  <1>3. \A t \in 1 .. Len(g) : /\ G[t] = [g[t] EXCEPT !.size = f[g[t].size]]
                               /\ g[t] \in Tensors
    BY <1>1, <1>2
  <1>4. \A t \in 1 .. Len(g) :
           /\ G[t].src = g[t].src /\ G[t].view = g[t].view /\ G[t].op = g[t].op
           /\ G[t].output = g[t].output /\ G[t].size = f[g[t].size]
    BY <1>3, ZenonT(40) DEF Tensors
  <1>5. Len(G) = Len(g)
    <2>1. DOMAIN G = 1 .. Len(g) /\ G = [t \in 1 .. Len(g) |-> G[t]]
      BY <1>1, <1>2
    <2> QED  BY <1>1, <2>1
  <1> QED  BY <1>4, <1>5 DEF Alike

LEMMA AlikeFacts ==
    ASSUME NEW G, GraphOK(G), NEW H, GraphOK(H), Alike(G, H)
    PROVE  /\ \A t \in 1 .. Len(G) : Root(H, t) = Root(G, t) /\ is_view(H, t) = is_view(G, t)
           /\ \A t \in 1 .. Len(G) : Placed(H, t) <=> Placed(G, t)
           /\ \A t, u \in 1 .. Len(G) : Reads(H, u, t) <=> Reads(G, u, t)
           /\ \A t \in 1 .. Len(G) : \A n : Kept(H, t, n) <=> Kept(G, t, n)
           /\ Wired(G) => Wired(H)
           /\ Complete(G) => Complete(H)
  <1>1. /\ Len(G) \in Nat /\ Len(H) = Len(G) /\ DOMAIN G = 1 .. Len(G) /\ DOMAIN H = 1 .. Len(G)
    BY DEF GraphOK, Alike
  <1>2. \A t \in 1 .. Len(G) : /\ G[t].src = H[t].src /\ G[t].view = H[t].view
                               /\ G[t].op = H[t].op /\ G[t].output = H[t].output
    BY DEF Alike
  <1>3. \A t \in 1 .. Len(G) : Root(H, t) = Root(G, t) /\ is_view(H, t) = is_view(G, t)
    BY <1>2 DEF Root, is_view
  <1>4. \A t \in 1 .. Len(G) : Placed(H, t) <=> Placed(G, t)
    BY <1>2, <1>3 DEF Placed
  <1>5. \A t \in 1 .. Len(G) : \A k \in 1 .. Len(G[t].src) :
            G[t].src[k] \in 1 .. Len(G) /\ Root(H, H[t].src[k]) = Root(G, G[t].src[k])
    BY <1>2, <1>3, GraphFacts
  <1>6. \A u \in 1 .. Len(G) : \A t : Reads(H, u, t) <=> Reads(G, u, t)
    BY <1>2, <1>5 DEF Reads
  <1>7. \A t \in 1 .. Len(G) : \A n : Kept(H, t, n) <=> Kept(G, t, n)
    BY <1>1, <1>2, <1>6 DEF Kept
  <1>8. Wired(G) => Wired(H)
    <2> SUFFICES ASSUME Wired(G), NEW t \in 1 .. Len(G)  PROVE WiredAt(H, t)
      BY <1>1 DEF Wired
    <2>1. WiredAt(G, t)
      BY DEF Wired
    <2>2. G[t].view \in Nat /\ G[t].view < t
      BY GraphFacts DEF GraphOK
    <2>3. G[t].view # 0 => /\ H[H[t].view].view = G[G[t].view].view
                           /\ Root(H, H[t].src[1]) = Root(G, G[t].src[1])
      <3> SUFFICES ASSUME G[t].view # 0
                   PROVE  /\ H[H[t].view].view = G[G[t].view].view
                          /\ Root(H, H[t].src[1]) = Root(G, G[t].src[1])
        OBVIOUS
      <3>1. G[t].view \in 1 .. Len(G)
        BY <1>1, <2>2
      <3>2. 1 \in 1 .. Len(G[t].src)
        BY <2>1 DEF WiredAt
      <3> QED  BY <1>2, <1>5, <3>1, <3>2
    <2> QED  BY <1>2, <2>1, <2>3 DEF WiredAt
  <1>9. Complete(G) => Complete(H)
    <2>1. Leafs(H) = Leafs(G) /\ Nodes(H) = Nodes(G)
      BY <1>1, <1>2 DEF Leafs, Nodes
    <2>2. \A t : Used(H, t) <=> Used(G, t)
      BY <1>1, <1>2 DEF Used
    <2>3. Nodes(G) # {} => Last(H).output = Last(G).output
      <3> SUFFICES ASSUME Nodes(G) # {}  PROVE Last(H).output = Last(G).output
        OBVIOUS
      <3>1. Len(G) \in 1 .. Len(G)
        BY <1>1 DEF Nodes
      <3> QED  BY <1>1, <1>2, <3>1 DEF Last
    <2> QED  BY <1>1, <1>2, <2>1, <2>2, <2>3 DEF Complete
  <1> QED  BY <1>3, <1>4, <1>6, <1>7, <1>8, <1>9

-----------------------------------------------------------------------------
(***************************************************************************)
(* Placing a tensor.                                                         *)
(***************************************************************************)
LEMMA AlignedCovers ==
    ASSUME NEW n \in Nat \ {0}
    PROVE  n <= aligned(n)
  <1> DEFINE s == n + Alignment - 1
             q == s \div Alignment
             r == s % Alignment
  <1>1. Alignment \in Nat /\ Alignment >= 1
    BY TallocrAssumption
  <1>2. s \in Nat
    BY <1>1
  <1> HIDE DEF s
  <1>3. s = Alignment * q + r /\ q \in Nat /\ r \in 0 .. (Alignment - 1)
    BY <1>1, <1>2
  <1>4. Alignment * q = q * Alignment
    BY <1>1, <1>3
  <1>5. q * Alignment \in Nat
    BY <1>1, <1>3
  <1> HIDE DEF q, r
  <1>6. q * Alignment >= n
    <2> DEFINE qa == q * Alignment
    <2>1. s = qa + r /\ qa \in Nat
      BY <1>3, <1>4, <1>5
    <2> HIDE DEF qa
    <2>2. qa >= n
      BY <1>1, <1>3, <2>1 DEF s
    <2> QED  BY <2>2 DEF qa
  <1> QED  BY <1>6 DEF aligned, q, s

(* max_size covers what was given away. *)
LEMMA AllocMax ==
    ASSUME NEW a \in Tallocr, NEW size \in Nat \ {0}, alloc_offset(a, size) \in Nat
    PROVE  /\ tallocr_alloc(a, size).max_size >= a.max_size
           /\ tallocr_alloc(a, size).max_size >= alloc_offset(a, size) + aligned(size)
  <1>1. aligned(size) \in Nat /\ a.max_size \in Nat
    BY AlignedFacts DEF Tallocr
  <1> DEFINE end == alloc_offset(a, size) + aligned(size)
  <1>2. end \in Nat
    BY <1>1
  <1>3. tallocr_alloc(a, size).max_size = IF end > a.max_size THEN end ELSE a.max_size
    BY DEF tallocr_alloc, alloc_offset
  <1> HIDE DEF end
  <1>4. /\ tallocr_alloc(a, size).max_size >= a.max_size
        /\ tallocr_alloc(a, size).max_size >= end
    BY <1>1, <1>2, <1>3
  <1> QED  BY <1>4 DEF end

(* Two tensors that are allocated share no byte, so one is before the other. *)
LEMMA BesideFacts ==
    ASSUME NEW G, GraphOK(G), NEW h, Exact(G, h),
           NEW t \in h.allocated, NEW u \in h.allocated, t # u
    PROVE  Beside(G, h, t, u)
  <1>1. t \in 1 .. Len(G) /\ u \in 1 .. Len(G) /\ h.offset \in [1 .. Len(G) -> Nat]
    BY DEF Exact
  <1>2. h.offset[t] \in Nat /\ h.offset[u] \in Nat
    BY <1>1
  <1>3. aligned(G[t].size) \in Nat \ {0} /\ aligned(G[u].size) \in Nat \ {0}
    BY <1>1, GraphFacts
  <1>4. \A x \in Nat : ~(At(G, h, t, x) /\ At(G, h, u, x))
    BY DEF Exact
  <1> SUFFICES ASSUME ~Beside(G, h, t, u)  PROVE FALSE
    OBVIOUS
  <1>5. CASE h.offset[t] <= h.offset[u]
    <2>1. At(G, h, t, h.offset[u]) /\ At(G, h, u, h.offset[u])
      BY <1>2, <1>3, <1>5 DEF At, Beside
    <2> QED  BY <1>2, <1>4, <2>1
  <1>6. CASE h.offset[u] <= h.offset[t]
    <2>1. At(G, h, t, h.offset[t]) /\ At(G, h, u, h.offset[t])
      BY <1>2, <1>3, <1>6 DEF At, Beside
    <2> QED  BY <1>2, <1>4, <2>1
  <1> QED  BY <1>2, <1>5, <1>6

(* ggml_gallocr_allocate_node, in the order of the graph: what is still      *)
(* needed has its memory, and the new tensor goes beside it, unless it takes *)
(* the memory of one that nobody needs but itself.                           *)
LEMMA AllocatedNext ==
    ASSUME NEW G, GraphOK(G), NEW h, Shape(h), Exact(G, h), NEW t \in 1 .. Len(G),
           ~(~Settled(G, h, t) /\ Reused(G, h, t) = {} /\ OutOfSpace(h.talloc, G[t].size)),
           Work(G, h, t - 1), Live(G, h, t - 1),
           \A k \in Reused(G, h, t) : ~Kept(G, G[t].src[k], t)
    PROVE  /\ Work(G, allocate_node(G, h, t), t) /\ Live(G, allocate_node(G, h, t), t)
           /\ allocate_node(G, h, t).children = h.children
           /\ allocate_node(G, h, t).views = h.views
  <1> DEFINE new == allocate_node(G, h, t)
             p == G[t].src[First(Reused(G, h, t))]
             off == alloc_offset(h.talloc, G[t].size)
             ta == tallocr_alloc(h.talloc, G[t].size)
  <1>1. Len(G) \in Nat /\ t \in Nat /\ t >= 1
    BY DEF GraphOK
  <1>2. t \notin h.allocated
    BY <1>1 DEF Work
  <1>3. \A u \in 1 .. Len(G) : u < t => /\ Kept(G, u, t) => Kept(G, u, t - 1)
                                        /\ Reads(G, t, u) => Kept(G, u, t - 1)
    BY <1>1, KeptFacts
  <1>4. \A u \in 1 .. Len(G) : u < t /\ Placed(G, u) /\ (Kept(G, u, t) \/ Reads(G, t, u))
                                  => u \in h.allocated
    BY <1>1, <1>3 DEF Live
  <1>5. CASE Settled(G, h, t)
    <2>1. ~Placed(G, t)
      BY <1>2, <1>5 DEF Settled, Placed
    <2>2. new = h
      BY <1>5 DEF allocate_node
    <2> HIDE DEF new
    <2>3. \A u \in 1 .. Len(G) : u <= t /\ Placed(G, u) => u <= t - 1
      BY <1>1, <2>1
    <2>4. Work(G, h, t)
      <3>1. \A u \in h.allocated : u <= t /\ Placed(G, u)
        BY <1>1 DEF Work, Exact
      <3> QED  BY <1>1, <2>3, <3>1 DEF Work
    <2>5. Live(G, h, t)
      BY <1>1, <1>4, <2>3 DEF Live
    <2> QED  BY <2>2, <2>4, <2>5 DEF new
  <1>6. ASSUME ~Settled(G, h, t), NEW S \in SUBSET h.allocated, NEW o \in Nat,
               new.allocated = (h.allocated \ S) \cup {t},
               new.offset = [h.offset EXCEPT ![t] = o],
               o + aligned(G[t].size) <= new.talloc.max_size,
               h.talloc.max_size <= new.talloc.max_size,
               new.talloc.max_size \in Nat,
               \A u \in S : /\ ~Kept(G, u, t)
                            /\ G[t].op = "inplace" /\ G[u].size = G[t].size
                            /\ h.offset[u] = o
        PROVE  Work(G, new, t) /\ Live(G, new, t)
    <2>1. Exact(G, new)
      BY Allocated
    <2> HIDE DEF new
    <2>2. /\ h.offset \in [1 .. Len(G) -> Nat] /\ h.allocated \in SUBSET (1 .. Len(G))
          /\ h.talloc.max_size \in Nat
      BY DEF Exact, Tallocr
    <2>3. new.offset[t] = o /\ \A u \in 1 .. Len(G) : u # t => new.offset[u] = h.offset[u]
      BY <1>6, <2>2
    <2>4. Placed(G, t)
      BY <1>6 DEF Settled, Placed
    <2>5. \A u \in new.allocated : u <= t /\ Placed(G, u)
      <3>1. \A u \in h.allocated : u <= t /\ Placed(G, u)
        BY <1>1, <2>2 DEF Work
      <3> QED  BY <1>1, <1>6, <2>4, <3>1
    <2>6. ASSUME NEW u \in 1 .. Len(G), u <= t, Placed(G, u)
          PROVE  new.offset[u] + aligned(G[u].size) <= new.talloc.max_size
      <3>1. CASE u = t
        BY <1>6, <2>3, <3>1
      <3>2. CASE u # t
        <4>1. u <= t - 1 /\ new.offset[u] = h.offset[u] /\ h.offset[u] \in Nat
          BY <1>1, <2>2, <2>3, <2>6, <3>2
        <4>2. h.offset[u] + aligned(G[u].size) <= h.talloc.max_size
          BY <2>6, <4>1 DEF Work
        <4>3. aligned(G[u].size) \in Nat
          BY GraphFacts
        <4> QED  BY <1>6, <2>2, <4>1, <4>2, <4>3, SMTT(30)
      <3> QED  BY <3>1, <3>2
    <2>7. ASSUME NEW u \in 1 .. Len(G), u < t, Placed(G, u)
          PROVE  Good(G, new, u, t)
      <3>1. CASE u \in S
        BY <1>1, <1>6, <2>3, <2>7, <3>1 DEF Good
      <3>2. CASE u \notin S
        <4> SUFFICES ASSUME Kept(G, u, t) \/ Reads(G, t, u)  PROVE Beside(G, new, u, t)
          BY DEF Good
        <4>1. u \in h.allocated
          BY <1>4, <2>7
        <4>2. u \in new.allocated /\ t \in new.allocated /\ u # t
          BY <1>1, <1>2, <1>6, <3>2, <4>1
        <4> QED  BY <2>1, <4>2, BesideFacts
      <3> QED  BY <3>1, <3>2
    <2>8. ASSUME NEW u \in 1 .. Len(G), NEW n \in 1 .. Len(G),
                 u < n, n <= t, Placed(G, u), Placed(G, n)
          PROVE  Good(G, new, u, n)
      <3>1. CASE n = t
        BY <2>7, <2>8, <3>1
      <3>2. CASE n # t
        <4>1. n <= t - 1 /\ u # t
          BY <1>1, <2>8, <3>2
        <4>2. Good(G, h, u, n)
          BY <2>8, <4>1 DEF Work
        <4>3. new.offset[u] = h.offset[u] /\ new.offset[n] = h.offset[n]
          BY <2>3, <3>2, <4>1
        <4> QED  BY <4>2, <4>3 DEF Good, Beside
      <3> QED  BY <3>1, <3>2
    <2>9. Work(G, new, t)
      BY <2>5, <2>6, <2>8 DEF Work
    <2>10. Live(G, new, t)
      <3> SUFFICES ASSUME NEW u \in 1 .. Len(G), u <= t, Placed(G, u), Kept(G, u, t)
                   PROVE  u \in new.allocated
        BY DEF Live
      <3>1. CASE u = t
        BY <1>6, <3>1
      <3>2. CASE u # t
        <4>1. u \in h.allocated
          BY <1>1, <1>4, <3>2
        <4> QED  BY <1>6, <4>1
      <3> QED  BY <3>1, <3>2
    <2> QED  BY <2>9, <2>10
  <1>7. h.offset \in [1 .. Len(G) -> Nat] /\ h.talloc \in Tallocr /\ h.talloc.max_size \in Nat
    BY DEF Exact, Tallocr
  <1>8. CASE ~Settled(G, h, t) /\ Reused(G, h, t) # {}
    <2>1. G[t].src \in Seq(Nat)
      BY GraphFacts
    <2>2. Reused(G, h, t) \in SUBSET Nat
      BY <2>1 DEF Reused
    <2>3. First(Reused(G, h, t)) \in Reused(G, h, t)
      BY <1>8, <2>2, FirstFacts
    <2>4. p \in h.allocated /\ G[p].size = G[t].size /\ G[t].op = "inplace" /\ ~Kept(G, p, t)
      BY <1>8, <2>3 DEF Reused, Reusable
    <2>5. new = [h EXCEPT !.offset[t] = h.offset[p], !.allocated = (@ \ {p}) \cup {t}]
      BY <1>8 DEF allocate_node
    <2> HIDE DEF p, new
    <2>6. /\ new.offset = [h.offset EXCEPT ![t] = h.offset[p]]
          /\ new.allocated = (h.allocated \ {p}) \cup {t}
          /\ new.talloc = h.talloc /\ new.children = h.children /\ new.views = h.views
      BY <2>5 DEF Shape
    <2>7. p \in 1 .. Len(G) /\ h.offset[p] \in Nat
      BY <1>7, <2>4 DEF Exact
    <2>8. h.offset[p] + aligned(G[t].size) <= h.talloc.max_size
      <3>1. p <= t - 1 /\ Placed(G, p)
        BY <2>4 DEF Work
      <3>2. h.offset[p] + aligned(G[p].size) <= h.talloc.max_size
        BY <2>7, <3>1 DEF Work
      <3> QED  BY <2>4, <3>2
    <2>9. /\ {p} \in SUBSET h.allocated
          /\ \A u \in {p} : /\ ~Kept(G, u, t)
                            /\ G[t].op = "inplace" /\ G[u].size = G[t].size
                            /\ h.offset[u] = h.offset[p]
      BY <2>4
    <2>10. /\ h.talloc.max_size <= new.talloc.max_size /\ new.talloc.max_size \in Nat
           /\ h.offset[p] + aligned(G[t].size) <= new.talloc.max_size
      BY <1>7, <2>6, <2>8
    <2>11. Work(G, new, t) /\ Live(G, new, t)
      BY <1>6, <1>8, <2>6, <2>7, <2>9, <2>10, ZenonT(40)
    <2> QED  BY <2>6, <2>11 DEF new
  <1>9. CASE ~Settled(G, h, t) /\ Reused(G, h, t) = {}
    <2>1. G[t].size \in Nat \ {0} /\ ~OutOfSpace(h.talloc, G[t].size)
      BY <1>9, GraphFacts
    <2>2. off \in Nat /\ ta \in Tallocr
      <3>1. h.talloc \in Tallocr /\ Sorted(h.talloc.blocks)
        BY DEF Exact
      <3> QED  BY <2>1, <3>1, AllocFacts
    <2>3. ta.max_size >= h.talloc.max_size /\ ta.max_size >= off + aligned(G[t].size)
      BY <1>7, <2>1, <2>2, AllocMax
    <2>4. new = [h EXCEPT !.offset[t] = off, !.allocated = @ \cup {t}, !.talloc = ta]
      BY <1>9 DEF allocate_node
    <2> HIDE DEF new, off, ta
    <2>5. /\ new.offset = [h.offset EXCEPT ![t] = off]
          /\ new.allocated = (h.allocated \ {}) \cup {t}
          /\ new.talloc = ta /\ new.children = h.children /\ new.views = h.views
      BY <2>4 DEF Shape
    <2>6. aligned(G[t].size) \in Nat /\ ta.max_size \in Nat
      BY <2>1, <2>2, AlignedFacts DEF Tallocr
    <2>7. off + aligned(G[t].size) <= ta.max_size /\ h.talloc.max_size <= ta.max_size
      BY <1>7, <2>2, <2>3, <2>6
    <2>8. Work(G, new, t) /\ Live(G, new, t)
      <3>1. {} \in SUBSET h.allocated /\ \A u \in {} : FALSE
        OBVIOUS
      <3> QED  BY <1>6, <1>9, <2>2, <2>5, <2>6, <2>7, <3>1
    <2> QED  BY <2>5, <2>8 DEF new
  <1> QED  BY <1>5, <1>8, <1>9

-----------------------------------------------------------------------------
(***************************************************************************)
(* Counting uses.                                                            *)
(***************************************************************************)
LEMMA FiniteUses ==
    ASSUME NEW G, GraphOK(G), NEW n, NEW c, NEW p
    PROVE  /\ IsFiniteSet(Pending(G, n, c, p)) /\ IsFiniteSet(LiveViews(G, n, c, p))
           /\ Cardinality(Pending(G, n, c, p)) \in Nat
           /\ Cardinality(LiveViews(G, n, c, p)) \in Nat
           /\ Cardinality(Pending(G, n, c, p)) = 0 <=> Pending(G, n, c, p) = {}
           /\ Cardinality(LiveViews(G, n, c, p)) = 0 <=> LiveViews(G, n, c, p) = {}
  <1>1. Len(G) \in Nat
    BY DEF GraphOK
  <1>2. IsFiniteSet(1 .. Len(G)) /\ IsFiniteSet(1 .. 2)
    <2>1. 1 \in Int /\ 2 \in Int /\ Len(G) \in Int
      BY <1>1
    <2>2. IsFiniteSet(1 .. Len(G))
      BY <2>1, FS_Interval
    <2>3. IsFiniteSet(1 .. 2)
      BY <2>1, FS_Interval
    <2> QED  BY <2>2, <2>3
  <1>3. 1 .. 2 = {1, 2}
    OBVIOUS
  <1>4. IsFiniteSet((1 .. Len(G)) \X {1, 2})
    BY <1>2, <1>3, FS_Product
  <1>5. /\ Pending(G, n, c, p) \in SUBSET ((1 .. Len(G)) \X {1, 2})
        /\ LiveViews(G, n, c, p) \in SUBSET (1 .. Len(G))
    BY DEF Pending, Uses, LiveViews
  <1>6. IsFiniteSet(Pending(G, n, c, p)) /\ IsFiniteSet(LiveViews(G, n, c, p))
    BY <1>2, <1>4, <1>5, FS_Subset
  <1> QED  BY <1>6, FS_EmptySet, FS_CardinalityType

LEMMA CountFacts ==
    ASSUME NEW G, GraphOK(G), NEW h, NEW n, NEW c, CountInv(G, h, n, c),
           NEW p \in 1 .. Len(G)
    PROVE  /\ h.children[p] = Cardinality(Pending(G, n, c, p))
           /\ h.views[p] = Cardinality(LiveViews(G, n, c, p))
           /\ h.children[p] = 0 <=> Pending(G, n, c, p) = {}
           /\ h.views[p] = 0 <=> LiveViews(G, n, c, p) = {}
  <1>1. /\ h.children[p] = Cardinality(Pending(G, n, c, p))
        /\ h.views[p] = Cardinality(LiveViews(G, n, c, p))
    BY DEF CountInv
  <1> QED  BY <1>1, FiniteUses

(* A node that comes later and reads the memory of r has its use counted, or *)
(* uses a view that counts.                                                  *)
LEMMA StillCounted ==
    ASSUME NEW G, GraphOK(G), Wired(G), Complete(G), NEW n \in Nat, NEW c,
           NEW u \in 1 .. Len(G), u > n, NEW r, Reads(G, u, r)
    PROVE  \/ \E k \in {1, 2} : <<u, k>> \in Pending(G, n, c, r)
           \/ LiveViews(G, n, c, r) # {}
  <1>1. PICK k \in 1 .. Len(G[u].src) : Root(G, G[u].src[k]) = r
    BY DEF Reads
  <1> DEFINE q == G[u].src[k]
  <1>2. q \in 1 .. Len(G) /\ DOMAIN G = 1 .. Len(G) /\ G[u].src \in Seq(Nat)
    BY GraphFacts, SMTT(30) DEF GraphOK
  <1>3. Len(G[u].src) <= 2 /\ Len(G[u].src) \in Nat
    BY <1>2 DEF Wired, WiredAt
  <1>4. k \in {1, 2}
    BY <1>3
  <1>5. <<u, k>> \in Pending(G, n, c, q)
    BY <1>4 DEF Pending, Uses, IsUse
  <1>6. CASE q = r
    BY <1>4, <1>5, <1>6
  <1>7. CASE q # r
    <2>1. G[q].view = r
      BY <1>1, <1>7 DEF Root
    <2>2. Used(G, q)
      BY <1>2 DEF Used, Range
    <2>3. G[q].op # "dep"
      BY <1>2, <2>2 DEF Complete
    <2>4. q \in LiveViews(G, n, c, r)
      BY <1>2, <1>5, <2>1, <2>3 DEF LiveViews
    <2> QED  BY <2>4
  <1> QED  BY <1>6, <1>7

(* A parent whose memory is reused is needed by nobody else. *)
LEMMA ReusedFree ==
    ASSUME NEW G, GraphOK(G), Wired(G), Complete(G), NEW n \in 1 .. Len(G), NEW c \in Nat,
           c <= Len(G[n].src) + 1, NEW h, Exact(G, h), CountInv(G, h, n, c),
           NEW k \in Reused(G, h, n)
    PROVE  ~Kept(G, G[n].src[k], n)
  <1> DEFINE p == G[n].src[k]
  <1>1. Len(G) \in Nat /\ n \in Nat /\ G[n].src \in Seq(Nat) /\ Len(G[n].src) \in Nat
    BY GraphFacts DEF GraphOK
  <1>2. /\ k \in 1 .. Len(G[n].src)
        /\ p \in h.allocated /\ ~G[p].output /\ h.children[p] = 1 /\ h.views[p] = 0
    BY <1>1 DEF Reused, Reusable
  <1>3. p \in 1 .. Len(G)
    BY <1>2 DEF Exact
  <1>4. k \in {1, 2}
    BY <1>1, <1>2 DEF Wired, WiredAt
  <1>5. <<n, k>> \in Pending(G, n, c, p)
    BY <1>1, <1>2, <1>4, SMTT(30) DEF Pending, Uses, IsUse
  <1>6. Cardinality(Pending(G, n, c, p)) = 1 /\ LiveViews(G, n, c, p) = {}
    BY <1>2, <1>3, CountFacts
  <1>7. PICK x : Pending(G, n, c, p) = {x}
    BY <1>6, FiniteUses, FS_Singleton
  <1> SUFFICES ASSUME NEW u \in 1 .. Len(G), u > n, Reads(G, u, p)  PROVE FALSE
    BY <1>2 DEF Kept
  <1>8. PICK l \in {1, 2} : <<u, l>> \in Pending(G, n, c, p)
    BY <1>1, <1>6, StillCounted
  <1>9. <<u, l>> = <<n, k>>
    BY <1>5, <1>7, <1>8
  <1> QED  BY <1>1, <1>9

(* Which uses are pending, one call after another, and behind the last one. *)
LEMMA UseFacts ==
    ASSUME NEW G, GraphOK(G), NEW p, NEW u \in Uses(G, p)
    PROVE  /\ u = <<u[1], u[2]>> /\ u[1] \in 1 .. Len(G) /\ u[2] \in {1, 2}
           /\ Len(G[u[1]].src) \in Nat /\ u[2] <= Len(G[u[1]].src)
  <1>1. u \in (1 .. Len(G)) \X {1, 2} /\ u[2] \in 1 .. Len(G[u[1]].src)
    BY DEF Uses, IsUse
  <1>2. u = <<u[1], u[2]>> /\ u[1] \in 1 .. Len(G) /\ u[2] \in {1, 2}
    BY <1>1
  <1>3. G[u[1]].src \in Seq(Nat)
    BY <1>2, GraphFacts
  <1> QED  BY <1>1, <1>2, <1>3

LEMMA PendingNext ==
    ASSUME NEW G, GraphOK(G), NEW n \in 1 .. Len(G), NEW c \in Nat, NEW p
    PROVE  /\ c <= Len(G[n].src) + 1 => Pending(G, n, c + 1, p) = Pending(G, n, c, p)
           /\ c > Len(G[n].src) + 1 =>
                 Pending(G, n, c + 1, p)
                     = Pending(G, n, c, p) \ {<<n, c - Len(G[n].src) - 1>>}
  <1> DEFINE N == Len(G[n].src)
  <1>1. Len(G) \in Nat /\ n \in Nat /\ N \in Nat
    BY GraphFacts DEF GraphOK
  <1>2. \A u \in Uses(G, p) : u = <<u[1], u[2]>> /\ u[1] \in 1 .. Len(G) /\ u[2] \in {1, 2}
    BY UseFacts
  <1>3. \A d, u : u \in Pending(G, n, d, p) <=>
                  u \in Uses(G, p) /\ (u[1] > n \/ (u[1] = n /\ d <= N + 1 + u[2]))
    BY DEF Pending
  <1> HIDE DEF N
  <1>4. ASSUME c <= N + 1  PROVE Pending(G, n, c + 1, p) = Pending(G, n, c, p)
    <2>1. \A u \in Uses(G, p) : c <= N + 1 + u[2] /\ c + 1 <= N + 1 + u[2]
      BY <1>1, <1>2, <1>4
    <2>2. \A u : u \in Pending(G, n, c, p) <=> u \in Uses(G, p) /\ (u[1] > n \/ u[1] = n)
      BY <1>3, <2>1
    <2>3. \A u : u \in Pending(G, n, c + 1, p) <=> u \in Uses(G, p) /\ (u[1] > n \/ u[1] = n)
      BY <1>3, <2>1
    <2> QED  BY <2>2, <2>3
  <1>5. ASSUME c > N + 1
        PROVE  Pending(G, n, c + 1, p) = Pending(G, n, c, p) \ {<<n, c - N - 1>>}
    <2> SUFFICES ASSUME NEW u \in Uses(G, p)
                 PROVE  (u[1] > n \/ (u[1] = n /\ c + 1 <= N + 1 + u[2])) <=>
                        /\ u[1] > n \/ (u[1] = n /\ c <= N + 1 + u[2])
                        /\ u # <<n, c - N - 1>>
      BY <1>3
    <2>1. u = <<u[1], u[2]>> /\ u[1] \in 1 .. Len(G) /\ u[2] \in {1, 2}
      BY <1>2
    <2>2. u = <<n, c - N - 1>> <=> u[1] = n /\ u[2] = c - N - 1
      BY <2>1
    <2> QED  BY <1>1, <1>5, <2>1, <2>2
  <1> QED  BY <1>4, <1>5 DEF N

LEMMA PendingLast ==
    ASSUME NEW G, GraphOK(G), NEW n \in 1 .. Len(G), NEW c \in Nat, c = 2 * Len(G[n].src) + 1,
           NEW p
    PROVE  Pending(G, n + 1, 1, p) = Pending(G, n, c + 1, p)
  <1> DEFINE N == Len(G[n].src)
  <1>1. Len(G) \in Nat /\ n \in Nat /\ N \in Nat
    BY GraphFacts DEF GraphOK
  <1>2. ASSUME NEW u \in Uses(G, p)
        PROVE  /\ u[1] > n <=> (u[1] > n \/ (u[1] = n /\ c + 1 <= N + 1 + u[2]))
               /\ u[1] > n <=> \/ u[1] > n + 1
                               \/ (u[1] = n + 1 /\ 1 <= Len(G[n + 1].src) + 1 + u[2])
    <2>1. /\ u[1] \in 1 .. Len(G) /\ u[2] \in {1, 2}
          /\ Len(G[u[1]].src) \in Nat /\ u[2] <= Len(G[u[1]].src)
      BY UseFacts
    <2>2. /\ u[1] = n + 1 => Len(G[n + 1].src) \in Nat
          /\ u[1] = n => u[2] <= N
      BY <2>1
    <2> HIDE DEF N
    <2>3. c = 2 * N + 1
      BY DEF N
    <2> DEFINE a == u[1]
               b == u[2]
               M == Len(G[n + 1].src)
    <2>4. /\ a \in Nat /\ b \in {1, 2} /\ (a = n + 1 => M \in Nat) /\ (a = n => b <= N)
      BY <1>1, <2>1, <2>2
    <2> HIDE DEF a, b, M
    <2>5. a > n <=> (a > n \/ (a = n /\ c + 1 <= N + 1 + b))
      BY <1>1, <2>3, <2>4
    <2>6. a > n <=> (a > n + 1 \/ (a = n + 1 /\ 1 <= M + 1 + b))
      BY <1>1, <2>4
    <2> QED  BY <2>5, <2>6 DEF a, b, M
  <1> QED  BY <1>2 DEF Pending

(* Nothing is counted off: the counts stay right. *)
LEMMA CountSame ==
    ASSUME NEW G, NEW h, NEW n, NEW c, CountInv(G, h, n, c), NEW k, NEW m, NEW d,
           k.children = h.children, k.views = h.views,
           \A p : Pending(G, m, d, p) = Pending(G, n, c, p)
    PROVE  CountInv(G, k, m, d)
  <1>1. \A r : LiveViews(G, m, d, r) = LiveViews(G, n, c, r)
    BY DEF LiveViews
  <1> QED  BY <1>1 DEF CountInv

(* The uses are counted after the leafs: none of them is a node. *)
LEMMA CountedUses ==
    ASSUME NEW G, GraphOK(G), LeafsFirst(G), Wired(G), NEW h, Shape(h)
    PROVE  CountInv(G, Counted(G, h), FirstNode(G), 1)
  <1> DEFINE n == FirstNode(G)
             C(t) == {u \in Nodes(G) \X {1, 2} : /\ u[2] \in DOMAIN G[u[1]].src
                                                 /\ G[u[1]].src[u[2]] = t}
             V(t) == {u \in Nodes(G) : G[u].view = t /\ G[u].op # "dep"}
             k == Counted(G, h)
  <1>1. Len(G) \in Nat /\ DOMAIN G = 1 .. Len(G)
    BY DEF GraphOK
  <1>2. n \in 1 .. (Len(G) + 1) /\ \A t \in 1 .. Len(G) : G[t].src = <<>> <=> t < n
    BY FirstNodeFacts
  <1>3. k = [h EXCEPT !.children = [t \in DOMAIN G |-> Cardinality(C(t))],
                      !.views = [t \in DOMAIN G |-> Cardinality(V(t))]]
    BY DEF Counted
  <1> HIDE DEF n, k
  <1>4. \A t \in 1 .. Len(G) : /\ G[t].src \in Seq(Nat) /\ Len(G[t].src) \in Nat
                               /\ DOMAIN G[t].src = 1 .. Len(G[t].src)
    <2> TAKE t \in 1 .. Len(G)
    <2>1. G[t].src \in Seq(Nat)
      BY GraphFacts
    <2> QED  BY <2>1
  <1>5. \A t \in 1 .. Len(G) : t \in Nodes(G) <=> G[t].src # <<>>
    BY <1>1 DEF Nodes, Leafs
  <1>6. Nodes(G) \in SUBSET (1 .. Len(G))
    BY <1>1 DEF Nodes
  <1>7. \A t \in 1 .. Len(G) : G[t].src = <<>> => Len(G[t].src) = 0
    BY <1>4
  <1>8. \A p : C(p) = Uses(G, p)
    BY <1>4, <1>5, <1>6, <1>7 DEF Uses, IsUse
  <1>9. \A p : Pending(G, n, 1, p) = Uses(G, p)
    <2> SUFFICES ASSUME NEW p, NEW u \in Uses(G, p)
                 PROVE  u[1] > n \/ (u[1] = n /\ 1 <= Len(G[n].src) + 1 + u[2])
      BY DEF Pending
    <2>1. u[1] \in 1 .. Len(G) /\ u[2] \in {1, 2} /\ u[2] \in 1 .. Len(G[u[1]].src)
      BY DEF Uses, IsUse
    <2>2. G[u[1]].src # <<>>
      BY <1>7, <2>1
    <2>3. ~(u[1] < n)
      BY <1>2, <2>1, <2>2
    <2>4. u[1] = n => Len(G[n].src) \in Nat
      BY <1>4, <2>1
    <2> QED  BY <1>1, <1>2, <2>1, <2>3, <2>4
  <1>10. \A p \in 1 .. Len(G) : V(p) = LiveViews(G, n, 1, p)
    <2>1. \A v, p \in 1 .. Len(G) : G[v].view = p => v \in Nodes(G)
      BY <1>5 DEF Wired, WiredAt
    <2> QED  BY <1>6, <1>9, <2>1 DEF LiveViews
  <1>11. /\ k.children = [t \in 1 .. Len(G) |-> Cardinality(C(t))]
         /\ k.views = [t \in 1 .. Len(G) |-> Cardinality(V(t))]
    <2> HIDE DEF C, V
    <2> DEFINE cc == [t \in DOMAIN G |-> Cardinality(C(t))]
               vv == [t \in DOMAIN G |-> Cardinality(V(t))]
    <2>1. k = [h EXCEPT !.children = cc, !.views = vv]
      BY <1>3
    <2> HIDE DEF cc, vv
    <2>2. k.children = cc /\ k.views = vv
      BY <2>1 DEF Shape
    <2> QED  BY <1>1, <2>2 DEF cc, vv
  <1> HIDE DEF C, V
  <1>12. CountInv(G, k, n, 1)
    BY <1>8, <1>9, <1>10, <1>11 DEF CountInv
  <1> QED  BY <1>12 DEF k, n

(* A use is counted off, and with the last use of a view the view. *)
LEMMA ParentCounted ==
    ASSUME NEW G, GraphOK(G), Wired(G), Complete(G), NEW n \in 1 .. Len(G), NEW c \in Nat,
           c > Len(G[n].src) + 1, c <= 2 * Len(G[n].src) + 1,
           NEW h, Shape(h), CountInv(G, h, n, c),
           NEW p, p = G[n].src[c - Len(G[n].src) - 1]
    PROVE  /\ CountInv(G, ParentUsed(G, h, p), n, c + 1)
           /\ ParentUsed(G, h, p).offset = h.offset
           /\ ParentUsed(G, h, p).allocated = h.allocated
           /\ ParentUsed(G, h, p).talloc = h.talloc
  <1> DEFINE j == c - Len(G[n].src) - 1
             used == [h EXCEPT !.children[p] = @ - 1]
             k == ParentUsed(G, h, p)
             w == G[p].view
             before(q) == Pending(G, n, c, q)
             after(q) == Pending(G, n, c + 1, q)
  <1>1. /\ Len(G) \in Nat /\ n \in Nat /\ Len(G[n].src) \in Nat /\ DOMAIN G = 1 .. Len(G)
        /\ G[n].src \in Seq(Nat)
    BY GraphFacts, SMTT(30) DEF GraphOK
  <1>2. j \in 1 .. Len(G[n].src) /\ j \in {1, 2}
    <2>1. j \in 1 .. Len(G[n].src)
      BY <1>1
    <2>2. Len(G[n].src) <= 2
      BY DEF Wired, WiredAt
    <2> QED  BY <1>1, <2>1, <2>2, SMTT(30)
  <1>3. p \in 1 .. Len(G) /\ p = G[n].src[j] /\ c = Len(G[n].src) + 1 + j
    <2>1. p = G[n].src[j] /\ c = Len(G[n].src) + 1 + j
      <3>1. p = G[n].src[j]
        BY Zenon
      <3>2. \A x, y \in Nat : x = y + 1 + (x - y - 1)
        OBVIOUS
      <3>3. c = Len(G[n].src) + 1 + j
        BY <1>1, <3>2
      <3> QED  BY <3>1, <3>3, Zenon
    <2> HIDE DEF j
    <2>2. \A x \in 1 .. Len(G[n].src) : G[n].src[x] \in 1 .. Len(G)
      BY GraphFacts
    <2> QED  BY <1>2, <2>1, <2>2
  <1> HIDE DEF j
  <1>4. Used(G, p)
    <2>1. j \in DOMAIN G[n].src /\ n \in DOMAIN G
      BY <1>1, <1>2
    <2> QED  BY <1>3, <2>1 DEF Used, Range
  <1>5. G[p].op # "dep"
    BY <1>1, <1>3, <1>4 DEF Complete
  <1>6. <<n, j>> \in before(p) /\ <<n, j>> \in Uses(G, p)
    <2>1. <<n, j>> \in (1 .. Len(G)) \X {1, 2} /\ <<n, j>>[1] = n /\ <<n, j>>[2] = j
      BY <1>2
    <2>2. <<n, j>> \in Uses(G, p)
      BY <1>2, <1>3, <2>1 DEF Uses, IsUse
    <2>3. c <= Len(G[n].src) + 1 + j
      BY <1>1, <1>2, <1>3
    <2> QED  BY <2>1, <2>2, <2>3 DEF Pending
  <1>7. \A q : q # p => <<n, j>> \notin before(q)
    BY <1>3 DEF Pending, Uses, IsUse
  <1>8. \A q : after(q) = before(q) \ {<<n, j>>}
    BY PendingNext DEF j
  <1> HIDE DEF before, after
  <1>9. \A q : q # p => after(q) = before(q)
    BY <1>7, <1>8
  <1>10. Cardinality(after(p)) = Cardinality(before(p)) - 1
    <2>1. IsFiniteSet(before(p))
      BY FiniteUses DEF before
    <2>2. Cardinality(before(p) \ {<<n, j>>}) =
            IF <<n, j>> \in before(p) THEN Cardinality(before(p)) - 1 ELSE Cardinality(before(p))
      BY <2>1, FS_RemoveElement
    <2> QED  BY <1>6, <1>8, <2>2
  <1>11. /\ h.children = [q \in 1 .. Len(G) |-> Cardinality(before(q))]
         /\ h.views = [q \in 1 .. Len(G) |-> Cardinality(LiveViews(G, n, c, q))]
    BY DEF CountInv, before
  <1> DEFINE cc == [h.children EXCEPT ![p] = @ - 1]
             vv == [h.views EXCEPT ![w] = @ - 1]
  <1>12. cc = [q \in 1 .. Len(G) |-> Cardinality(after(q))]
    <2> DEFINE f == h.children
               rest == [q \in 1 .. Len(G) |-> Cardinality(after(q))]
    <2>1. f = [q \in DOMAIN f |-> f[q]] /\ DOMAIN f = 1 .. Len(G)
      BY <1>11
    <2>2. \A q \in 1 .. Len(G) : q # p => rest[q] = f[q]
      BY <1>9, <1>11
    <2>3. rest[p] = f[p] - 1
      BY <1>3, <1>10, <1>11
    <2>4. rest = [q \in 1 .. Len(G) |-> rest[q]]
      OBVIOUS
    <2> HIDE DEF f, rest
    <2>5. [f EXCEPT ![p] = f[p] - 1] = rest
      BY <1>3, <2>1, <2>2, <2>3, <2>4
    <2> QED  BY <2>5, Zenon DEF f, rest, cc
  <1>13. used = [h EXCEPT !.children = cc]
    OBVIOUS
  <1>14. k = IF Unused(used, p) /\ is_view(G, p)
             THEN [used EXCEPT !.views[w] = @ - 1] ELSE used
    BY DEF ParentUsed
  <1> HIDE DEF used, k, cc
  <1>15. used = [children |-> cc, views |-> h.views, offset |-> h.offset,
                 allocated |-> h.allocated, talloc |-> h.talloc]
    BY <1>13 DEF Shape
  <1>16. /\ Unused(used, p) /\ is_view(G, p) =>
               k = [children |-> cc, views |-> vv, offset |-> h.offset,
                    allocated |-> h.allocated, talloc |-> h.talloc]
         /\ ~(Unused(used, p) /\ is_view(G, p)) =>
               k = [children |-> cc, views |-> h.views, offset |-> h.offset,
                    allocated |-> h.allocated, talloc |-> h.talloc]
    <2>1. used.views = h.views
      BY <1>15
    <2>2. [used EXCEPT !.views[w] = @ - 1] = [used EXCEPT !.views = [used.views EXCEPT ![w] = @ - 1]]
      OBVIOUS
    <2>3. [used EXCEPT !.views = vv] =
              [children |-> cc, views |-> vv, offset |-> h.offset,
               allocated |-> h.allocated, talloc |-> h.talloc]
      <3> HIDE DEF vv
      <3> QED  BY <1>15
    <2> QED  BY <1>14, <1>15, <2>1, <2>2, <2>3
  <1> HIDE DEF vv
  <1>17. /\ k.offset = h.offset /\ k.allocated = h.allocated /\ k.talloc = h.talloc
         /\ k.children = cc
         /\ k.views = IF Unused(used, p) /\ is_view(G, p) THEN vv ELSE h.views
    BY <1>16
  <1>18. Unused(used, p) /\ is_view(G, p) <=> after(p) = {} /\ is_view(G, p)
    <2> SUFFICES ASSUME is_view(G, p)  PROVE Unused(used, p) <=> after(p) = {}
      OBVIOUS
    <2>1. LiveViews(G, n, c, p) = {}
      <3> SUFFICES ASSUME NEW v \in 1 .. Len(G), G[v].view = p  PROVE FALSE
        BY DEF LiveViews
      <3>1. WiredAt(G, v) /\ p # 0
        BY <1>3 DEF Wired
      <3>2. G[p].view = 0
        BY <3>1 DEF WiredAt
      <3> QED  BY <3>2 DEF is_view
    <2>2. h.views[p] = 0
      BY <1>3, <2>1, CountFacts
    <2>3. used.children[p] = Cardinality(after(p)) /\ used.views[p] = 0
      BY <1>3, <1>12, <1>15, <2>2
    <2>4. Cardinality(after(p)) = 0 <=> after(p) = {}
      BY FiniteUses DEF after
    <2> QED  BY <2>3, <2>4 DEF Unused
  <1>19. \A r \in 1 .. Len(G) :
            LiveViews(G, n, c + 1, r) =
                IF after(p) = {} /\ w = r THEN LiveViews(G, n, c, r) \ {p}
                                          ELSE LiveViews(G, n, c, r)
    <2> TAKE r \in 1 .. Len(G)
    <2> DEFINE In1(v) == v \in LiveViews(G, n, c, r)
               In2(v) == v \in LiveViews(G, n, c + 1, r)
    <2>1. \A v : In1(v) <=> /\ v \in 1 .. Len(G) /\ G[v].view = r /\ G[v].op # "dep"
                            /\ before(v) # {} \/ Uses(G, v) = {}
      BY DEF LiveViews, before
    <2>2. \A v : In2(v) <=> /\ v \in 1 .. Len(G) /\ G[v].view = r /\ G[v].op # "dep"
                            /\ after(v) # {} \/ Uses(G, v) = {}
      BY DEF LiveViews, after
    <2>3. \A v : v # p => (In2(v) <=> In1(v))
      BY <1>9, <2>1, <2>2
    <2>4. In1(p) <=> w = r
      BY <1>3, <1>5, <1>6, <2>1
    <2>5. In2(p) <=> w = r /\ after(p) # {}
      BY <1>3, <1>5, <1>6, <2>2
    <2> HIDE DEF w
    <2>6. CASE after(p) = {} /\ w = r
      <3>1. \A v : v \in LiveViews(G, n, c + 1, r) <=> v \in LiveViews(G, n, c, r) \ {p}
        BY <2>3, <2>5, <2>6
      <3> QED  BY <2>6, <3>1
    <2>7. CASE ~(after(p) = {} /\ w = r)
      <3>1. \A v : v \in LiveViews(G, n, c + 1, r) <=> v \in LiveViews(G, n, c, r)
        BY <2>3, <2>4, <2>5, <2>7
      <3> QED  BY <2>7, <3>1
    <2> QED  BY <2>6, <2>7
  <1>20. k.views = [r \in 1 .. Len(G) |-> Cardinality(LiveViews(G, n, c + 1, r))]
    <2>1. CASE after(p) = {} /\ is_view(G, p)
      <3>1. w \in 1 .. Len(G)
        <4>1. w \in Nat /\ w < p /\ w # 0
          BY <1>3, <2>1, GraphFacts DEF GraphOK, is_view
        <4> QED  BY <1>1, <1>3, <4>1, SMTT(30)
      <3>2. p \in LiveViews(G, n, c, w)
        BY <1>3, <1>5, <1>6 DEF LiveViews, before
      <3>3. Cardinality(LiveViews(G, n, c, w) \ {p}) = Cardinality(LiveViews(G, n, c, w)) - 1
        <4>1. IsFiniteSet(LiveViews(G, n, c, w))
          BY FiniteUses
        <4> QED  BY <3>2, <4>1, FS_RemoveElement
      <3>4. k.views = vv
        BY <1>17, <1>18, <2>1
      <3> HIDE DEF w
      <3> DEFINE L1(r) == Cardinality(LiveViews(G, n, c, r))
                 L2(r) == Cardinality(LiveViews(G, n, c + 1, r))
      <3>5. L2(w) = L1(w) - 1 /\ \A r \in 1 .. Len(G) : r # w => L2(r) = L1(r)
        BY <1>19, <2>1, <3>1, <3>3
      <3>6. h.views = [r \in 1 .. Len(G) |-> L1(r)]
        BY <1>11
      <3> HIDE DEF L1, L2
      <3>7. vv = [r \in 1 .. Len(G) |-> L2(r)]
        BY <3>1, <3>5, <3>6 DEF vv
      <3> QED  BY <3>4, <3>7 DEF L2
    <2>2. CASE ~(after(p) = {} /\ is_view(G, p))
      <3>1. k.views = h.views
        BY <1>17, <1>18, <2>2
      <3>2. \A r \in 1 .. Len(G) : LiveViews(G, n, c + 1, r) = LiveViews(G, n, c, r)
        <4>1. \A r \in 1 .. Len(G) : ~(after(p) = {} /\ w = r)
          BY <2>2 DEF is_view
        <4> QED  BY <1>19, <4>1
      <3> QED  BY <1>11, <3>1, <3>2
    <2> QED  BY <2>1, <2>2
  <1>21. CountInv(G, k, n, c + 1)
    BY <1>12, <1>17, <1>20 DEF CountInv, after
  <1> QED  BY <1>17, <1>21 DEF k

(* What is freed is needed by no later node. *)
LEMMA LastUseFree ==
    ASSUME NEW G, GraphOK(G), Wired(G), Complete(G), NEW n \in Nat, NEW c,
           NEW h, CountInv(G, h, n, c), NEW p \in 1 .. Len(G), LastUse(G, h, p)
    PROVE  G[Root(G, p)].output \/ ~Kept(G, Root(G, p), n)
  <1> DEFINE r == Root(G, p)
  <1>1. r \in 1 .. Len(G)
    BY RootFacts
  <1>2. h.children[r] = 0 /\ h.views[r] = 0
    BY DEF LastUse, Unused
  <1> HIDE DEF r
  <1>3. Pending(G, n, c, r) = {} /\ LiveViews(G, n, c, r) = {}
    BY <1>1, <1>2, CountFacts
  <1>4. \A u \in 1 .. Len(G) : u > n => ~Reads(G, u, r)
    BY <1>3, StillCounted
  <1>5. G[r].output \/ ~Kept(G, r, n)
    BY <1>4 DEF Kept
  <1> QED  BY <1>5 DEF r

LEMMA FreedLater ==
    ASSUME NEW G, NEW h, Shape(h), Exact(G, h), NEW m, Work(G, h, m), Live(G, h, m), NEW r,
           G[r].output \/ ~Kept(G, r, m), G[r].output \in BOOLEAN
    PROVE  /\ Work(G, free_node(G, h, r), m) /\ Live(G, free_node(G, h, r), m)
           /\ free_node(G, h, r).children = h.children /\ free_node(G, h, r).views = h.views
  <1> DEFINE new == free_node(G, h, r)
             ta == tallocr_free(h.talloc, h.offset[r], G[r].size)
  <1>1. CASE G[r].output
    BY <1>1 DEF free_node
  <1>2. CASE ~G[r].output
    <2>1. new = [h EXCEPT !.talloc = ta, !.allocated = @ \ {r}]
      BY <1>2 DEF free_node
    <2>2. ta.max_size = h.talloc.max_size
      <3>1. h.talloc \in Tallocr
        BY DEF Exact
      <3>2. PICK b : ta = [h.talloc EXCEPT !.blocks = b]
        BY DEF tallocr_free
      <3> QED  BY <3>1, <3>2 DEF Tallocr
    <2> HIDE DEF new, ta
    <2>3. /\ new.offset = h.offset /\ new.allocated = h.allocated \ {r}
          /\ new.talloc.max_size = h.talloc.max_size
          /\ new.children = h.children /\ new.views = h.views
      BY <2>1, <2>2 DEF Shape
    <2>4. \A t, u : Good(G, new, t, u) <=> Good(G, h, t, u)
      BY <2>3 DEF Good, Beside
    <2>5. Work(G, new, m)
      BY <2>3, <2>4 DEF Work
    <2>6. Live(G, new, m)
      BY <1>2, <2>3 DEF Live
    <2> QED  BY <2>3, <2>5, <2>6 DEF new
  <1> QED  BY <1>1, <1>2

(* Counting changes no memory. *)
LEMMA WorkSame ==
    ASSUME NEW G, NEW h, NEW m, Work(G, h, m), Live(G, h, m), NEW k,
           k.offset = h.offset, k.allocated = h.allocated, k.talloc = h.talloc
    PROVE  Work(G, k, m) /\ Live(G, k, m)
  <1>1. \A t, u : Good(G, k, t, u) <=> Good(G, h, t, u)
    BY DEF Good, Beside
  <1> QED  BY <1>1 DEF Work, Live

-----------------------------------------------------------------------------
(***************************************************************************)
(* ggml_gallocr_reserve.                                                     *)
(***************************************************************************)
LEMMA BeginReserveIntact ==
    ASSUME NEW G, GraphOK(G), Wired(G), Complete(G), BeginReserve(G),
           buffer \in Nat, buffer' = buffer
    PROVE  IntactInv'
  <1>1. g' = G /\ st' = Fresh(G) /\ i' = 1 /\ phase' = "leafs"
    BY DEF BeginReserve
  <1>2. Fresh(G).allocated = {} /\ Len(G) \in Nat
    BY DEF Fresh, GraphOK
  <1>3. \A t \in 1 .. Len(G) : ~(t <= 0)
    BY <1>2
  <1>4. Work(G, Fresh(G), 0) /\ Live(G, Fresh(G), 0)
    BY <1>2, <1>3 DEF Work, Live
  <1>5. Work(g, st, i - 1)' /\ Live(g, st, i - 1)'
    BY <1>1, <1>4
  <1>6. Wired(g)' /\ Complete(g)' /\ buffer' \in Nat
    BY <1>1
  <1> QED  BY <1>1, <1>5, <1>6 DEF IntactInv

(* What a plan in the making is, for the lemmas on its steps. *)
LEMMA Premises ==
    ASSUME PlanInv, IntactInv
    PROVE  /\ GraphOK(g) /\ LeafsFirst(g) /\ Wired(g) /\ Len(g) \in Nat /\ buffer \in Nat
           /\ phase # "build" =>
                 /\ Complete(g) /\ FirstNode(g) \in 1 .. Len(g)
                 /\ \A t \in 1 .. Len(g) : g[t].src = <<>> <=> t < FirstNode(g)
           /\ phase \in {"leafs", "reserve"} => Shape(st) /\ Exact(g, st)
  <1>1. GraphOK(g) /\ LeafsFirst(g) /\ Wired(g) /\ Len(g) \in Nat /\ buffer \in Nat
    BY DEF PlanInv, IntactInv, GraphOK
  <1>2. phase # "build" => Complete(g)
    BY DEF IntactInv
  <1>3. Complete(g) => FirstNode(g) \in 1 .. Len(g)
    BY <1>1, LeafFacts
  <1>4. \A t \in 1 .. Len(g) : g[t].src = <<>> <=> t < FirstNode(g)
    BY <1>1, FirstNodeFacts
  <1>5. phase \in {"leafs", "reserve"} => Shape(st) /\ Exact(g, st)
    BY DEF PlanInv, Planning
  <1> QED  BY <1>1, <1>2, <1>3, <1>4, <1>5

(* The process is at its end. *)
LEMMA AbortedIntact ==
    ASSUME PlanInv, IntactInv, phase # "build", phase' = "aborted", g' = g, buffer' = buffer
    PROVE  IntactInv'
  <1>1. Wired(g) /\ Complete(g) /\ buffer \in Nat
    BY Premises
  <1>2. Wired(g)' /\ Complete(g)' /\ buffer' \in Nat
    BY <1>1
  <1> QED  BY <1>2 DEF IntactInv

LEMMA PlaceLeafIntact ==
    ASSUME PlanInv, IntactInv, PlaceLeaf
    PROVE  IntactInv'
  <1>1. /\ phase = "leafs" /\ i < FirstNode(g) /\ Place(i) /\ i' = i + 1 /\ g' = g
        /\ buffer' = buffer
    BY DEF PlaceLeaf
  <1>2. /\ GraphOK(g) /\ LeafsFirst(g) /\ Wired(g) /\ Len(g) \in Nat /\ buffer \in Nat
        /\ Complete(g) /\ FirstNode(g) \in 1 .. Len(g) /\ Shape(st) /\ Exact(g, st)
        /\ \A t \in 1 .. Len(g) : g[t].src = <<>> <=> t < FirstNode(g)
    BY <1>1, Premises
  <1>3. i \in 1 .. Len(g)
    BY <1>1, <1>2 DEF PlanInv, InLeafs
  <1>4. Work(g, st, i - 1) /\ Live(g, st, i - 1)
    BY <1>1 DEF IntactInv
  <1>5. Reused(g, st, i) = {}
    <2>1. g[i].src = <<>>
      BY <1>1, <1>2, <1>3
    <2>2. g[i].op \in {"leaf", "external"}
      BY <1>2, <1>3, <2>1 DEF Wired, WiredAt
    <2> QED  BY <2>2 DEF Reused
  <1>6. CASE ~Settled(g, st, i) /\ Reused(g, st, i) = {} /\ OutOfSpace(st.talloc, g[i].size)
    <2>1. phase' = "aborted"
      BY <1>1, <1>6 DEF Place
    <2> QED  BY <1>1, <2>1, AbortedIntact
  <1>7. CASE ~(~Settled(g, st, i) /\ Reused(g, st, i) = {} /\ OutOfSpace(st.talloc, g[i].size))
    <2>1. st' = allocate_node(g, st, i) /\ phase' = "leafs"
      BY <1>1, <1>7 DEF Place
    <2>2. \A k \in Reused(g, st, i) : ~Kept(g, g[i].src[k], i)
      BY <1>5
    <2>3. Work(g, allocate_node(g, st, i), i) /\ Live(g, allocate_node(g, st, i), i)
      BY <1>2, <1>3, <1>4, <1>7, <2>2, AllocatedNext
    <2>4. i' - 1 = i
      BY <1>1, <1>3
    <2>5. Work(g, st, i - 1)' /\ Live(g, st, i - 1)'
      BY <1>1, <2>1, <2>3, <2>4
    <2>6. Wired(g)' /\ Complete(g)' /\ buffer' \in Nat
      BY <1>1, <1>2
    <2> QED  BY <2>1, <2>5, <2>6 DEF IntactInv
  <1> QED  BY <1>6, <1>7

LEMMA CountUsesIntact ==
    ASSUME PlanInv, IntactInv, CountUses
    PROVE  IntactInv'
  <1>1. /\ phase = "leafs" /\ i = FirstNode(g) /\ st' = Counted(g, st) /\ phase' = "reserve"
        /\ g' = g /\ i' = i /\ call' = call /\ buffer' = buffer
    BY DEF CountUses
  <1>2. /\ GraphOK(g) /\ LeafsFirst(g) /\ Wired(g) /\ Len(g) \in Nat /\ buffer \in Nat
        /\ Complete(g) /\ FirstNode(g) \in 1 .. Len(g) /\ Shape(st) /\ Exact(g, st)
    BY <1>1, Premises
  <1>3. call = 1
    BY <1>1 DEF PlanInv, InLeafs
  <1>4. Work(g, st, i - 1) /\ Live(g, st, i - 1)
    BY <1>1 DEF IntactInv
  <1> DEFINE k == Counted(g, st)
  <1>5. CountInv(g, k, i, 1)
    BY <1>1, <1>2, CountedUses
  <1>6. k.offset = st.offset /\ k.allocated = st.allocated /\ k.talloc = st.talloc
    <2>1. PICK c, w : k = [st EXCEPT !.children = c, !.views = w]
      BY DEF Counted
    <2> HIDE DEF k
    <2> QED  BY <1>2, <2>1 DEF Shape
  <1> HIDE DEF k
  <1>7. Work(g, k, i - 1) /\ Live(g, k, i - 1)
    BY <1>4, <1>6, WorkSame
  <1>8. LastPlaced(g, i, 1) = i - 1
    <2>1. Len(g[i].src) \in Nat
      BY <1>1, <1>2, GraphFacts
    <2> QED  BY <2>1 DEF LastPlaced
  <1>9. st' = k
    BY <1>1 DEF k
  <1>10. /\ i' <= Len(g') + 1 /\ Work(g', st', LastPlaced(g', i', call'))
         /\ Live(g', st', LastPlaced(g', i', call')) /\ CountInv(g', st', i', call')
    BY <1>1, <1>2, <1>3, <1>5, <1>7, <1>8, <1>9
  <1>11. Wired(g') /\ Complete(g') /\ buffer' \in Nat
    BY <1>1, <1>2
  <1> QED  BY <1>1, <1>10, <1>11 DEF IntactInv

(* The node that is planned, and its call. *)
LEMMA NodePremises ==
    ASSUME PlanInv, IntactInv, phase = "reserve", i <= Len(g)
    PROVE  /\ i \in 1 .. Len(g) /\ i \in Nat /\ g[i].src # <<>>
           /\ Len(g[i].src) \in Nat \ {0}
           /\ call \in Nat /\ call >= 1 /\ call <= 2 * Len(g[i].src) + 1
           /\ \A k \in 1 .. Len(g[i].src) : g[i].src[k] \in 1 .. Len(g) /\ g[i].src[k] < i
           /\ LastPlaced(g, i, call) = IF call > Len(g[i].src) + 1 THEN i ELSE i - 1
           /\ Work(g, st, LastPlaced(g, i, call)) /\ Live(g, st, LastPlaced(g, i, call))
           /\ CountInv(g, st, i, call)
  <1>1. /\ GraphOK(g) /\ Len(g) \in Nat /\ FirstNode(g) \in 1 .. Len(g)
        /\ \A t \in 1 .. Len(g) : g[t].src = <<>> <=> t < FirstNode(g)
    BY Premises
  <1>2. /\ i \in Nat /\ i >= FirstNode(g) /\ call \in Nat /\ call >= 1
        /\ call <= 2 * Len(g[i].src) + 1
    BY DEF PlanInv, InNodes
  <1>3. i \in 1 .. Len(g) /\ ~(i < FirstNode(g))
    BY <1>1, <1>2
  <1>4. g[i].src \in Seq(Nat) /\ g[i].src # <<>>
    BY <1>1, <1>3, GraphFacts
  <1>5. Len(g[i].src) \in Nat \ {0}
    BY <1>4
  <1>6. \A k \in 1 .. Len(g[i].src) : g[i].src[k] \in 1 .. (i - 1)
    BY <1>1, <1>3 DEF GraphOK
  <1>7. \A k \in 1 .. Len(g[i].src) : g[i].src[k] \in 1 .. Len(g) /\ g[i].src[k] < i
    BY <1>1, <1>3, <1>6
  <1>8. LastPlaced(g, i, call) = IF call > Len(g[i].src) + 1 THEN i ELSE i - 1
    BY DEF LastPlaced
  <1>9. /\ Work(g, st, LastPlaced(g, i, call)) /\ Live(g, st, LastPlaced(g, i, call))
        /\ CountInv(g, st, i, call)
    BY DEF IntactInv
  <1> QED  BY <1>2, <1>3, <1>4, <1>5, <1>7, <1>8, <1>9

LEMMA PlaceNodeIntact ==
    ASSUME PlanInv, IntactInv, PlaceNode
    PROVE  IntactInv'
  <1> DEFINE N == Len(g[i].src)
             t == IF call <= N THEN g[i].src[call] ELSE i
  <1>1. /\ phase = "reserve" /\ i <= Len(g) /\ call <= N + 1 /\ Place(t)
        /\ call' = call + 1 /\ g' = g /\ i' = i /\ buffer' = buffer
    BY DEF PlaceNode, NSources
  <1>2. /\ GraphOK(g) /\ LeafsFirst(g) /\ Wired(g) /\ Len(g) \in Nat /\ buffer \in Nat
        /\ Complete(g) /\ Shape(st) /\ Exact(g, st)
    BY <1>1, Premises
  <1>3. /\ i \in 1 .. Len(g) /\ i \in Nat /\ N \in Nat \ {0}
        /\ call \in Nat /\ call >= 1 /\ call <= 2 * N + 1
        /\ \A k \in 1 .. N : g[i].src[k] \in 1 .. Len(g) /\ g[i].src[k] < i
        /\ LastPlaced(g, i, call) = IF call > N + 1 THEN i ELSE i - 1
        /\ Work(g, st, LastPlaced(g, i, call)) /\ Live(g, st, LastPlaced(g, i, call))
        /\ CountInv(g, st, i, call)
    BY <1>1, NodePremises
  <1>4. \A p : Pending(g, i, call + 1, p) = Pending(g, i, call, p)
    BY <1>1, <1>2, <1>3, PendingNext
  <1> HIDE DEF N
  <1>5. Work(g, st, i - 1) /\ Live(g, st, i - 1)
    <2>1. LastPlaced(g, i, call) = i - 1
      BY <1>1, <1>3
    <2> QED  BY <1>3, <2>1
  <1>6. ASSUME NEW k, st' = k, phase' = "reserve", NEW m, LastPlaced(g, i, call + 1) = m,
               Work(g, k, m), Live(g, k, m), k.children = st.children, k.views = st.views
        PROVE  IntactInv'
    <2>1. CountInv(g, k, i, call + 1)
      BY <1>3, <1>4, <1>6, CountSame
    <2>2. /\ i' <= Len(g') + 1 /\ Work(g', st', LastPlaced(g', i', call'))
          /\ Live(g', st', LastPlaced(g', i', call')) /\ CountInv(g', st', i', call')
      BY <1>1, <1>2, <1>3, <1>6, <2>1
    <2>3. Wired(g') /\ Complete(g') /\ buffer' \in Nat
      BY <1>1, <1>2
    <2> QED  BY <1>6, <2>2, <2>3 DEF IntactInv
  <1>7. CASE call <= N
    <2>1. t = g[i].src[call] /\ t \in 1 .. Len(g) /\ t < i
      BY <1>3, <1>7
    <2>2. Settled(g, st, t)
      <3> SUFFICES ASSUME Placed(g, t)  PROVE t \in st.allocated
        BY DEF Settled, Placed
      <3>1. Root(g, t) = t
        BY DEF Placed, Root
      <3>2. Reads(g, i, t)
        BY <1>3, <1>7, <2>1, <3>1 DEF Reads, N
      <3>3. Kept(g, t, i - 1)
        BY <1>3, <3>2 DEF Kept
      <3> HIDE DEF t
      <3>4. t <= i - 1
        BY <1>3, <2>1
      <3> QED  BY <1>5, <2>1, <3>3, <3>4 DEF Live
    <2>3. st' = st /\ phase' = phase
      BY <1>1, <2>2 DEF Place, allocate_node
    <2>4. LastPlaced(g, i, call + 1) = i - 1
      BY <1>1, <1>3, <1>7 DEF LastPlaced, N
    <2> QED  BY <1>1, <1>5, <1>6, <2>3, <2>4
  <1>8. CASE ~(call <= N)
    <2>1. t = i /\ call = N + 1
      BY <1>1, <1>3, <1>8
    <2>2. Place(i)
      BY <1>1, <2>1
    <2>3. CASE ~Settled(g, st, i) /\ Reused(g, st, i) = {} /\ OutOfSpace(st.talloc, g[i].size)
      <3>1. phase' = "aborted"
        BY <2>2, <2>3 DEF Place
      <3> QED  BY <1>1, <3>1, AbortedIntact
    <2>4. CASE ~(~Settled(g, st, i) /\ Reused(g, st, i) = {} /\ OutOfSpace(st.talloc, g[i].size))
      <3> DEFINE k == allocate_node(g, st, i)
      <3>1. st' = k /\ phase' = "reserve"
        BY <1>1, <2>2, <2>4 DEF Place
      <3>2. \A x \in Reused(g, st, i) : ~Kept(g, g[i].src[x], i)
        BY <1>1, <1>2, <1>3, ReusedFree DEF N
      <3>3. /\ Work(g, k, i) /\ Live(g, k, i)
            /\ k.children = st.children /\ k.views = st.views
        BY <1>2, <1>3, <1>5, <2>4, <3>2, AllocatedNext
      <3>4. LastPlaced(g, i, call + 1) = i
        BY <1>1, <1>3, <2>1 DEF LastPlaced, N
      <3> HIDE DEF k
      <3> QED  BY <1>6, <3>1, <3>3, <3>4
    <2> QED  BY <2>3, <2>4
  <1> QED  BY <1>7, <1>8

LEMMA UpdateParentIntact ==
    ASSUME PlanInv, IntactInv, UpdateParent
    PROVE  IntactInv'
  <1> DEFINE N == Len(g[i].src)
             p == g[i].src[call - N - 1]
             r == Root(g, p)
             h == ParentUsed(g, st, p)
  <1>1. /\ phase = "reserve" /\ i <= Len(g) /\ call > N + 1 /\ g' = g /\ buffer' = buffer
        /\ \/ st' = h /\ phase' = phase
           \/ phase' = "aborted" /\ st' = st
           \/ LastUse(g, h, p) /\ st' = free_node(g, h, r) /\ phase' = phase
        /\ \/ call = 2 * N + 1 /\ i' = i + 1 /\ call' = 1
           \/ call # 2 * N + 1 /\ i' = i /\ call' = call + 1
    BY DEF UpdateParent, NSources
  <1>2. /\ GraphOK(g) /\ LeafsFirst(g) /\ Wired(g) /\ Len(g) \in Nat /\ buffer \in Nat
        /\ Complete(g) /\ Shape(st) /\ Exact(g, st)
    BY <1>1, Premises
  <1>3. /\ i \in 1 .. Len(g) /\ i \in Nat /\ N \in Nat \ {0}
        /\ call \in Nat /\ call >= 1 /\ call <= 2 * N + 1
        /\ \A k \in 1 .. N : g[i].src[k] \in 1 .. Len(g) /\ g[i].src[k] < i
        /\ LastPlaced(g, i, call) = IF call > N + 1 THEN i ELSE i - 1
        /\ Work(g, st, LastPlaced(g, i, call)) /\ Live(g, st, LastPlaced(g, i, call))
        /\ CountInv(g, st, i, call)
    BY <1>1, NodePremises
  <1>4. Work(g, st, i) /\ Live(g, st, i)
    <2>1. LastPlaced(g, i, call) = i
      BY <1>1, <1>3
    <2> QED  BY <1>3, <2>1
  <1>5. p \in 1 .. Len(g)
    <2>1. call - N - 1 \in 1 .. N
      <3> HIDE DEF N
      <3> QED  BY <1>1, <1>3
    <2> QED  BY <1>3, <2>1
  <1>6. /\ CountInv(g, h, i, call + 1)
        /\ h.offset = st.offset /\ h.allocated = st.allocated /\ h.talloc = st.talloc
    BY <1>1, <1>2, <1>3, ParentCounted
  <1>7. Shape(h) /\ Exact(g, h)
    BY <1>2, ParentUsedFacts
  <1>8. LastPlaced(g, i', call') = i
    <2>1. CASE call = 2 * N + 1 /\ i' = i + 1 /\ call' = 1
      <3>1. i + 1 <= Len(g) => Len(g[i + 1].src) \in Nat
        <4> SUFFICES ASSUME i + 1 <= Len(g)  PROVE Len(g[i + 1].src) \in Nat
          OBVIOUS
        <4>1. i + 1 \in 1 .. Len(g)
          BY <1>2, <1>3
        <4> QED  BY <1>2, <4>1, GraphFacts
      <3>2. ~(i + 1 <= Len(g) /\ 1 > Len(g[i + 1].src) + 1)
        BY <3>1
      <3>3. LastPlaced(g, i + 1, 1) = (i + 1) - 1
        BY <3>2 DEF LastPlaced
      <3> QED  BY <1>3, <2>1, <3>3
    <2>2. CASE call # 2 * N + 1 /\ i' = i /\ call' = call + 1
      <3>1. call + 1 > Len(g[i].src) + 1
        BY <1>1, <1>3
      <3> QED  BY <1>1, <2>2, <3>1 DEF LastPlaced
    <2> QED  BY <1>1, <2>1, <2>2
  <1>9. \A q : Pending(g, i', call', q) = Pending(g, i, call + 1, q)
    <2>1. CASE call = 2 * N + 1 /\ i' = i + 1 /\ call' = 1
      <3>1. GraphOK(g) /\ i \in 1 .. Len(g) /\ call \in Nat /\ call = 2 * Len(g[i].src) + 1
        BY <1>2, <1>3, <2>1
      <3>2. \A q : Pending(g, i + 1, 1, q) = Pending(g, i, call + 1, q)
        BY <3>1, PendingLast
      <3> QED  BY <2>1, <3>2
    <2>2. CASE call # 2 * N + 1 /\ i' = i /\ call' = call + 1
      BY <2>2
    <2> QED  BY <1>1, <2>1, <2>2
  <1>10. i' <= Len(g) + 1
    BY <1>1, <1>2, <1>3
  <1> HIDE DEF h, p, N
  <1>11. ASSUME NEW k, st' = k, phase' = "reserve", Work(g, k, i), Live(g, k, i),
                k.children = h.children, k.views = h.views
         PROVE  IntactInv'
    <2>1. CountInv(g, k, i', call')
      BY <1>6, <1>9, <1>11, CountSame
    <2>2. /\ i' <= Len(g') + 1 /\ Work(g', st', LastPlaced(g', i', call'))
          /\ Live(g', st', LastPlaced(g', i', call')) /\ CountInv(g', st', i', call')
      BY <1>1, <1>8, <1>10, <1>11, <2>1
    <2>3. Wired(g') /\ Complete(g') /\ buffer' \in Nat
      BY <1>1, <1>2
    <2> QED  BY <1>11, <2>2, <2>3 DEF IntactInv
  <1>12. Work(g, h, i) /\ Live(g, h, i)
    BY <1>4, <1>6, WorkSame
  <1>13. CASE st' = h /\ phase' = phase
    BY <1>1, <1>11, <1>12, <1>13
  <1>14. CASE phase' = "aborted"
    BY <1>1, <1>14, AbortedIntact
  <1>15. CASE LastUse(g, h, p) /\ st' = free_node(g, h, r) /\ phase' = phase
    <2>1. g[r].output \/ ~Kept(g, r, i)
      BY <1>2, <1>3, <1>5, <1>6, <1>15, LastUseFree
    <2>2. r \in 1 .. Len(g)
      BY <1>2, <1>5, RootFacts
    <2>3. g[r].output \in BOOLEAN
      BY <1>2, <2>2, GraphFacts
    <2> HIDE DEF r
    <2> DEFINE k == free_node(g, h, r)
    <2>4. Work(g, k, i) /\ Live(g, k, i) /\ k.children = h.children /\ k.views = h.views
      BY <1>7, <1>12, <2>1, <2>3, FreedLater
    <2> HIDE DEF k
    <2>5. st' = k
      BY <1>15 DEF k
    <2> QED  BY <1>1, <1>11, <1>15, <2>4, <2>5
  <1> QED  BY <1>1, <1>13, <1>14, <1>15

LEMMA SetPlanIntact ==
    ASSUME PlanInv, IntactInv, SetPlan
    PROVE  IntactInv'
  <1>1. /\ phase = "reserve" /\ i > Len(g) /\ plan' = PlanOf(g, st) /\ g' = g
        /\ buffer' = NewBuffer(buffer, st.talloc.max_size) /\ phase' = "planned"
    BY DEF SetPlan
  <1>2. /\ GraphOK(g) /\ Wired(g) /\ Len(g) \in Nat /\ buffer \in Nat
        /\ Complete(g) /\ Exact(g, st)
    BY <1>1, Premises
  <1>3. i \in Nat /\ i <= Len(g) + 1
    BY <1>1 DEF PlanInv, InNodes, IntactInv
  <1>4. LastPlaced(g, i, call) = Len(g)
    BY <1>1, <1>2, <1>3 DEF LastPlaced
  <1>5. Work(g, st, Len(g))
    BY <1>1, <1>4 DEF IntactInv
  <1>6. st.talloc.max_size \in Nat /\ st.offset \in [1 .. Len(g) -> Nat]
    BY <1>2 DEF Exact, Tallocr
  <1>7. buffer' \in Nat /\ st.talloc.max_size <= buffer'
    BY <1>1, <1>2, <1>6 DEF NewBuffer
  <1>8. \A t \in 1 .. Len(g) : Placed(g, t) =>
           plan'[t].offset = st.offset[t] /\ plan'[t].size_max = g[t].size
    BY <1>1, <1>2 DEF PlanOf, GraphOK
  <1>9. \A t \in 1 .. Len(g) : /\ g[t].size \in Nat /\ aligned(g[t].size) \in Nat
                               /\ g[t].size <= aligned(g[t].size)
                               /\ st.offset[t] \in Nat
    BY <1>2, <1>6, GraphFacts, AlignedCovers
  <1>10. ASSUME NEW t \in 1 .. Len(g), Placed(g, t)
         PROVE  /\ plan'[t].offset \in Nat /\ plan'[t].size_max \in Nat
                /\ g[t].size <= plan'[t].size_max
                /\ plan'[t].offset + plan'[t].size_max <= buffer'
    <2>1. st.offset[t] + aligned(g[t].size) <= st.talloc.max_size
      BY <1>2, <1>5, <1>10 DEF Work
    <2>2. /\ g[t].size \in Nat /\ aligned(g[t].size) \in Nat /\ st.offset[t] \in Nat
          /\ g[t].size <= aligned(g[t].size)
          /\ plan'[t].offset = st.offset[t] /\ plan'[t].size_max = g[t].size
      BY <1>8, <1>9, <1>10
    <2> QED  BY <1>6, <1>7, <2>1, <2>2
  <1>11. ASSUME NEW t \in 1 .. Len(g), NEW n \in 1 .. Len(g),
                Placed(g, t), Placed(g, n), Beside(g, st, t, n)
         PROVE  Clear(plan', t, n)
    <2>1. /\ g[t].size \in Nat /\ aligned(g[t].size) \in Nat /\ st.offset[t] \in Nat
          /\ g[t].size <= aligned(g[t].size)
          /\ g[n].size \in Nat /\ aligned(g[n].size) \in Nat /\ st.offset[n] \in Nat
          /\ g[n].size <= aligned(g[n].size)
      BY <1>9
    <2>2. /\ plan'[t].offset = st.offset[t] /\ plan'[t].size_max = g[t].size
          /\ plan'[n].offset = st.offset[n] /\ plan'[n].size_max = g[n].size
      BY <1>8, <1>11
    <2> QED  BY <1>11, <2>1, <2>2, SMTT(30) DEF Beside, Clear
  <1>12. ASSUME NEW t \in 1 .. Len(g), NEW n \in 1 .. Len(g),
                t < n, Placed(g, t), Placed(g, n)
         PROVE  /\ Kept(g, t, n) => Clear(plan', t, n)
                /\ Reads(g, n, t) => \/ Clear(plan', t, n)
                                     \/ /\ g[n].op = "inplace" /\ g[t].size = g[n].size
                                        /\ plan'[t].offset = plan'[n].offset
    <2>1. n <= Len(g)
      BY <1>2
    <2>2. Good(g, st, t, n)
      BY <1>5, <1>12, <2>1 DEF Work
    <2> QED  BY <1>8, <1>11, <1>12, <2>2 DEF Good
  <1>13. PlanFits(g, plan', buffer')
    BY <1>10, <1>12 DEF PlanFits
  <1>14. PlanFits(g', plan', buffer') /\ Wired(g') /\ Complete(g')
    BY <1>1, <1>2, <1>13
  <1> QED  BY <1>1, <1>7, <1>14 DEF IntactInv

-----------------------------------------------------------------------------
(***************************************************************************)
(* Computing with the plan.                                                  *)
(***************************************************************************)
LEMMA ClearFacts ==
    ASSUME NEW G, GraphOK(G), PlanFits(G, plan, buffer),
           NEW t \in 1 .. Len(G), NEW n \in 1 .. Len(G),
           Placed(G, t) /\ Placed(G, n) => Clear(plan, t, n)
    PROVE  ~Overlap(G, t, n) /\ ~Overlap(G, n, t)
  <1> SUFFICES ASSUME Placed(G, t), Placed(G, n)
               PROVE  Address(G, t) \cap Address(G, n) = {}
    BY DEF Overlap
  <1>1. /\ plan[t].offset \in Nat /\ plan[t].size_max \in Nat /\ G[t].size <= plan[t].size_max
        /\ plan[n].offset \in Nat /\ plan[n].size_max \in Nat /\ G[n].size <= plan[n].size_max
    BY DEF PlanFits
  <1>2. G[t].size \in Nat /\ G[n].size \in Nat
    BY GraphFacts
  <1>3. Clear(plan, t, n)
    OBVIOUS
  <1>4. ASSUME NEW x, x \in Address(G, t), x \in Address(G, n)  PROVE FALSE
    <2>1. /\ x \in Int /\ plan[t].offset <= x /\ x <= plan[t].offset + G[t].size - 1
          /\ plan[n].offset <= x /\ x <= plan[n].offset + G[n].size - 1
      BY <1>1, <1>2, <1>4 DEF Address
    <2> DEFINE a == plan[t].offset
               b == plan[n].offset
               sa == plan[t].size_max
               sb == plan[n].size_max
               ga == G[t].size
               gb == G[n].size
    <2>2. a + sa <= b \/ b + sb <= a
      BY <1>3 DEF Clear
    <2>3. a \in Nat /\ b \in Nat /\ sa \in Nat /\ sb \in Nat /\ ga <= sa /\ gb <= sb
      BY <1>1
    <2>4. ga \in Nat /\ gb \in Nat
      BY <1>2
    <2>5. x \in Int /\ a <= x /\ x <= a + ga - 1 /\ b <= x /\ x <= b + gb - 1
      BY <2>1
    <2> HIDE DEF a, b, sa, sb, ga, gb
    <2> QED  BY <2>2, <2>3, <2>4, <2>5
  <1> QED  BY <1>4

(* A graph with other sizes that fits the plan. *)
LEMMA SmallerFits ==
    ASSUME NEW G, GraphOK(G), GraphOK(g), Alike(g, G), Wired(g), Complete(G), Wired(G),
           LeafsFirst(G),
           \A t, n \in 1 .. Len(g) : g[t].size = g[n].size => G[t].size = G[n].size,
           PlanFits(g, plan, buffer), ~needs_realloc(G)
    PROVE  PlanFits(G, plan, buffer)
  <1>1. /\ Len(G) = Len(g) /\ Len(g) \in Nat /\ DOMAIN G = 1 .. Len(G)
        /\ \A t \in 1 .. Len(g) : G[t].op = g[t].op
    BY DEF Alike, GraphOK
  <1>2. /\ \A t \in 1 .. Len(g) : Placed(G, t) <=> Placed(g, t)
        /\ \A t, u \in 1 .. Len(g) : Reads(G, u, t) <=> Reads(g, u, t)
        /\ \A t \in 1 .. Len(g) : \A n : Kept(G, t, n) <=> Kept(g, t, n)
    BY AlikeFacts
  <1>3. ASSUME NEW t \in 1 .. Len(G), Placed(G, t)  PROVE G[t].size <= plan[t].size_max
    <2>1. t \in Nodes(G) \/ Used(G, t)
      <3>1. CASE G[t].src = <<>>
        <4>1. t < FirstNode(G)
          BY <3>1, FirstNodeFacts
        <4> QED  BY <4>1, LeafFacts
      <3>2. CASE G[t].src # <<>>
        BY <1>1, <3>2 DEF Nodes, Leafs
      <3> QED  BY <3>1, <3>2
    <2>2. ~(G[t].size > plan[t].size_max)
      BY <1>1, <1>3, <2>1 DEF needs_realloc
    <2>3. plan[t].size_max \in Nat /\ G[t].size \in Nat
      BY <1>1, <1>2, <1>3, GraphFacts DEF PlanFits
    <2> QED  BY <2>2, <2>3
  <1>4. ASSUME NEW t \in 1 .. Len(G), NEW n \in 1 .. Len(G),
               t < n, Placed(G, t), Placed(G, n)
        PROVE  /\ Kept(G, t, n) => Clear(plan, t, n)
               /\ Reads(G, n, t) => \/ Clear(plan, t, n)
                                    \/ /\ G[n].op = "inplace" /\ G[t].size = G[n].size
                                       /\ plan[t].offset = plan[n].offset
    <2>1. t \in 1 .. Len(g) /\ n \in 1 .. Len(g) /\ Placed(g, t) /\ Placed(g, n)
      BY <1>1, <1>2, <1>4
    <2>2. /\ Kept(g, t, n) => Clear(plan, t, n)
          /\ Reads(g, n, t) => \/ Clear(plan, t, n)
                               \/ /\ g[n].op = "inplace" /\ g[t].size = g[n].size
                                  /\ plan[t].offset = plan[n].offset
      BY <1>4, <2>1 DEF PlanFits
    <2> QED  BY <1>1, <1>2, <2>1, <2>2
  <1>5. \A t \in 1 .. Len(G) : Placed(G, t) =>
          /\ plan[t].offset \in Nat /\ plan[t].size_max \in Nat
          /\ plan[t].offset + plan[t].size_max <= buffer
    BY <1>1, <1>2 DEF PlanFits
  <1> QED  BY <1>3, <1>4, <1>5 DEF PlanFits

LEMMA AllocGraphIntact ==
    ASSUME ~NewTopology, PlanInv, IntactInv, AllocGraph
    PROVE  IntactInv'
  <1>1. phase \in {"planned", "compute"}
    BY DEF AllocGraph
  <1>2. PICK G \in LaterGraphs :
            IF needs_realloc(G)
            THEN graphs < MaxGraphs /\ BeginReserve(G) /\ UNCHANGED <<plan, buffer, intact>>
            ELSE BeginCompute(G)
    BY DEF AllocGraph
  <1>3. /\ GraphOK(g) /\ LeafsFirst(g) /\ Wired(g) /\ buffer \in Nat /\ Complete(g)
        /\ PlanFits(g, plan, buffer)
    BY <1>1, Premises DEF IntactInv
  <1>4. GraphOK(G) /\ LeafsFirst(G)
    BY <1>3, LaterFacts
  <1>5. G \in Resized(g)
    BY DEF LaterGraphs
  <1>6. /\ Alike(g, G)
        /\ \A t, n \in 1 .. Len(g) : g[t].size = g[n].size => G[t].size = G[n].size
    BY <1>3, <1>5, ResizedFacts
  <1>7. Wired(G) /\ Complete(G)
    BY <1>3, <1>4, <1>6, AlikeFacts
  <1>8. CASE needs_realloc(G)
    <2>1. BeginReserve(G) /\ buffer' = buffer
      BY <1>2, <1>8
    <2> QED  BY <1>3, <1>4, <1>7, <2>1, BeginReserveIntact
  <1>9. CASE ~needs_realloc(G)
    <2>1. /\ g' = G /\ i' = FirstNode(G) /\ phase' = "compute"
          /\ plan' = plan /\ buffer' = buffer
          /\ intact' = {t \in Leafs(G) : \A u \in Leafs(G) : ~Overlap(G, t, u)}
      BY <1>2, <1>9 DEF BeginCompute
    <2>2. PlanFits(G, plan, buffer)
      BY <1>3, <1>4, <1>6, <1>7, <1>9, SmallerFits
    <2>3. /\ Len(G) \in Nat \ {0} /\ FirstNode(G) \in 1 .. Len(G)
          /\ \A t \in 1 .. Len(G) : t < FirstNode(G) =>
                \A n \in Nat : n < FirstNode(G) => Kept(G, t, n)
      BY <1>4, <1>7, LeafFacts
    <2>4. DOMAIN G = 1 .. Len(G) /\ \A t \in 1 .. Len(G) : G[t].src = <<>> <=> t < FirstNode(G)
      BY <1>4, FirstNodeFacts DEF GraphOK
    <2>5. \A t : t \in Leafs(G) <=> t \in 1 .. Len(G) /\ t < FirstNode(G)
      BY <2>4 DEF Leafs
    <2>6. ASSUME NEW t \in Leafs(G), NEW u \in Leafs(G), t < u
          PROVE  ~Overlap(G, t, u) /\ ~Overlap(G, u, t)
      <3>1. t \in 1 .. Len(G) /\ u \in 1 .. Len(G) /\ t < FirstNode(G) /\ u < FirstNode(G)
        BY <2>5
      <3>2. Kept(G, t, u)
        BY <2>3, <3>1
      <3>3. Placed(G, t) /\ Placed(G, u) => Clear(plan, t, u)
        BY <2>2, <2>6, <3>1, <3>2 DEF PlanFits
      <3> QED  BY <1>4, <2>2, <3>1, <3>3, ClearFacts
    <2>7. \A t, u \in Leafs(G) : ~Overlap(G, t, u)
      <3> TAKE t, u \in Leafs(G)
      <3>1. t \in Nat /\ u \in Nat
        BY <2>3, <2>5
      <3>2. CASE t = u
        BY <3>2 DEF Overlap
      <3>3. CASE t # u
        <4>1. t < u \/ u < t
          BY <3>1, <3>3
        <4> QED  BY <2>6, <4>1
      <3> QED  BY <3>2, <3>3
    <2>8. intact' = Leafs(G)
      BY <2>1, <2>7
    <2>9. Computing(G, FirstNode(G), Leafs(G))
      BY <2>3, <2>5 DEF Computing
    <2>10. Computing(g', i', intact') /\ PlanFits(g', plan', buffer') /\ Wired(g')
           /\ Complete(g') /\ buffer' \in Nat
      BY <1>3, <1>7, <2>1, <2>2, <2>8, <2>9
    <2> QED  BY <2>1, <2>10 DEF IntactInv
  <1> QED  BY <1>8, <1>9

(* The last node is where its memory belongs, or it is a view of it and      *)
(* reads it.                                                                 *)
LEMMA LastReads ==
    ASSUME NEW G, GraphOK(G), Wired(G), Len(G) \in Nat \ {0}, NEW t,
           t = Root(G, Len(G)), t # Len(G)
    PROVE  Reads(G, Len(G), t) /\ is_view(G, Len(G))
  <1>1. Len(G) \in 1 .. Len(G)
    OBVIOUS
  <1>2. G[Len(G)].view # 0 /\ t = G[Len(G)].view
    BY DEF Root, is_view
  <1>3. Len(G[Len(G)].src) = 1 /\ G[Len(G)].view = Root(G, G[Len(G)].src[1])
    BY <1>1, <1>2 DEF Wired, WiredAt
  <1> QED  BY <1>2, <1>3 DEF Reads, is_view

LEMMA ComputeIntact ==
    ASSUME PlanInv, IntactInv, Compute
    PROVE  IntactInv'
  <1>1. /\ phase = "compute" /\ i <= Len(g) /\ i' = i + 1 /\ phase' = phase /\ g' = g
        /\ plan' = plan /\ buffer' = buffer
        /\ intact' = IF is_view(g, i) THEN intact
                     ELSE (intact \ {t \in DOMAIN g : Overlap(g, t, i)}) \cup {i}
    BY DEF Compute
  <1>2. /\ GraphOK(g) /\ Wired(g) /\ Len(g) \in Nat /\ buffer \in Nat /\ Complete(g)
        /\ FirstNode(g) \in 1 .. Len(g)
        /\ PlanFits(g, plan, buffer) /\ Computing(g, i, intact)
    BY <1>1, Premises DEF IntactInv
  <1>3. i \in 1 .. Len(g) /\ i \in Nat /\ i >= 1 /\ FirstNode(g) <= i /\ Len(g) \in Nat \ {0}
    BY <1>1, <1>2 DEF Computing
  <1>4. ASSUME NEW t \in 1 .. Len(g), t < i, ~is_view(g, t), Wanted(g, t, i + 1)
        PROVE  t \in intact /\ (~is_view(g, i) => ~Overlap(g, t, i))
    <2>1. Kept(g, t, i) \/ t = Root(g, Len(g))
      <3>1. (i + 1) - 1 = i
        BY <1>3
      <3> QED  BY <1>4, <3>1, Zenon DEF Wanted
    <2>2. Kept(g, t, i) => Kept(g, t, i - 1)
      <3>1. i - 1 \in Nat /\ i - 1 <= i
        BY <1>3
      <3> QED  BY <1>2, <1>3, <3>1, KeptFacts
    <2>3. t \in intact
      BY <1>2, <1>4, <2>1, <2>2 DEF Computing, Wanted
    <2>4. ASSUME ~is_view(g, i)  PROVE Kept(g, t, i)
      <3> SUFFICES ASSUME t = Root(g, Len(g))  PROVE Kept(g, t, i)
        BY <2>1
      <3>1. t # Len(g)
        BY <1>1, <1>2, <1>3, <1>4
      <3>2. Reads(g, Len(g), t) /\ is_view(g, Len(g))
        BY <1>2, <1>3, <3>1, LastReads
      <3>3. Len(g) # i
        BY <2>4, <3>2
      <3>4. Len(g) \in 1 .. Len(g) /\ Len(g) > i
        BY <1>1, <1>2, <1>3, <3>3
      <3> QED  BY <3>2, <3>4 DEF Kept
    <2>5. ASSUME ~is_view(g, i)  PROVE ~Overlap(g, t, i)
      <3>1. Placed(g, t) /\ Placed(g, i) => Clear(plan, t, i)
        BY <1>2, <1>3, <1>4, <2>4, <2>5 DEF PlanFits
      <3> QED  BY <1>2, <1>3, <3>1, ClearFacts
    <2> QED  BY <2>3, <2>5
  <1>5. ASSUME NEW t \in 1 .. Len(g), t < i + 1, ~is_view(g, t), Wanted(g, t, i + 1)
        PROVE  t \in intact'
    <2>1. CASE t = i
      BY <1>1, <1>5, <2>1
    <2>2. CASE t # i
      <3>1. t < i
        BY <1>3, <1>5, <2>2
      <3> QED  BY <1>1, <1>4, <1>5, <3>1
    <2> QED  BY <2>1, <2>2
  <1>6. i + 1 \in Nat /\ FirstNode(g) <= i + 1 /\ i + 1 <= Len(g) + 1
    BY <1>1, <1>2, <1>3
  <1>7. Computing(g, i + 1, intact')
    BY <1>5, <1>6 DEF Computing
  <1>8. /\ Computing(g', i', intact') /\ PlanFits(g', plan', buffer') /\ Wired(g')
        /\ Complete(g') /\ buffer' \in Nat /\ phase' = "compute"
    BY <1>1, <1>2, <1>7
  <1> QED  BY <1>8 DEF IntactInv

-----------------------------------------------------------------------------
LEMMA IntactInit == Init => IntactInv
  <1> SUFFICES ASSUME Init  PROVE IntactInv
    OBVIOUS
  <1>1. g = <<>> /\ phase = "build" /\ buffer = 0
    BY DEF Init
  <1>2. Wired(<<>>)
    BY DEF Wired
  <1> QED  BY <1>1, <1>2 DEF IntactInv

LEMMA IntactStep ==
    ASSUME ~NewTopology, PlanInv, IntactInv, [Next]_vars
    PROVE  IntactInv'
  <1>1. GraphOK(g) /\ Wired(g) /\ buffer \in Nat /\ (phase # "build" => Complete(g))
    BY Premises
  <1>2. CASE BuildLeaf
    <2>1. PICK e \in NewLeafs : g' = Append(g, e)
      BY <1>2 DEF BuildLeaf
    <2>2. phase' = "build" /\ buffer' = buffer
      BY <1>2 DEF BuildLeaf
    <2>3. Wired(g')
      BY <1>1, <2>1, LeafWired
    <2> QED  BY <1>1, <2>2, <2>3 DEF IntactInv
  <1>3. CASE BuildNode
    <2>1. PICK e \in NewNodes : g' = Append(g, e)
      BY <1>3 DEF BuildNode
    <2>2. phase' = "build" /\ buffer' = buffer
      BY <1>3 DEF BuildNode
    <2>3. Wired(g')
      BY <1>1, <2>1, NodeWired
    <2> QED  BY <1>1, <2>2, <2>3 DEF IntactInv
  <1>4. CASE Reserve
    BY <1>1, <1>4, BeginReserveIntact DEF Reserve
  <1>5. CASE UNCHANGED vars
    BY <1>5 DEF vars, IntactInv
  <1> QED
    BY <1>2, <1>3, <1>4, <1>5, PlaceLeafIntact, CountUsesIntact, PlaceNodeIntact,
       UpdateParentIntact, SetPlanIntact, AllocGraphIntact, ComputeIntact DEF Next

(* What the invariant says of a node that is computed, and of the end. *)
LEMMA IntactInvTensors ==
    ASSUME PlanInv, IntactInv
    PROVE  TensorsIntact
  <1> SUFFICES ASSUME phase = "compute"
               PROVE  /\ \A t \in DOMAIN g : Placed(g, t) => plan[t].offset + g[t].size <= buffer
                      /\ i <= Len(g) =>
                          \A s \in Range(g[i].src) :
                             LET r == Root(g, s)
                             IN  /\ r \in intact
                                 /\ Overlap(g, r, i) /\ ~is_view(g, i) =>
                                        /\ g[i].op = "inplace" /\ g[r].size = g[i].size
                                        /\ plan[r].offset = plan[i].offset
                      /\ i > Len(g) =>
                          \A t \in DOMAIN g : g[t].output \/ t = Len(g) => Root(g, t) \in intact
    BY DEF TensorsIntact
  <1>1. /\ GraphOK(g) /\ Wired(g) /\ Len(g) \in Nat /\ buffer \in Nat /\ Complete(g)
        /\ FirstNode(g) \in 1 .. Len(g)
        /\ PlanFits(g, plan, buffer) /\ Computing(g, i, intact)
        /\ DOMAIN g = 1 .. Len(g)
    BY Premises DEF IntactInv, GraphOK
  <1>2. i \in Nat /\ i >= 1 /\ i <= Len(g) + 1
    BY <1>1 DEF Computing
  <1>3. ASSUME NEW t \in 1 .. Len(g), Placed(g, t)
        PROVE  plan[t].offset + g[t].size <= buffer
    <2>1. /\ plan[t].offset \in Nat /\ plan[t].size_max \in Nat
          /\ g[t].size <= plan[t].size_max
          /\ plan[t].offset + plan[t].size_max <= buffer
      BY <1>1, <1>3 DEF PlanFits
    <2>2. g[t].size \in Nat
      BY <1>1, GraphFacts
    <2> QED  BY <1>1, <2>1, <2>2
  <1>4. ASSUME i <= Len(g), NEW s \in Range(g[i].src), NEW r, r = Root(g, s)
        PROVE  /\ r \in intact
               /\ Overlap(g, r, i) /\ ~is_view(g, i) =>
                      /\ g[i].op = "inplace" /\ g[r].size = g[i].size
                      /\ plan[r].offset = plan[i].offset
    <2>1. i \in 1 .. Len(g)
      BY <1>1, <1>2, <1>4
    <2>2. g[i].src \in Seq(Nat)
      BY <1>1, <2>1, GraphFacts
    <2>3. Reads(g, i, r)
      BY <1>4, <2>2 DEF Range, Reads
    <2>4. r \in 1 .. Len(g) /\ r < i /\ ~is_view(g, r)
      BY <1>1, <2>1, <2>3, ReadsFacts
    <2>5. Kept(g, r, i - 1)
      BY <1>2, <2>1, <2>3 DEF Kept
    <2>6. r \in intact
      BY <1>1, <2>4, <2>5 DEF Computing, Wanted
    <2>7. ASSUME Overlap(g, r, i)
          PROVE  /\ g[i].op = "inplace" /\ g[r].size = g[i].size
                 /\ plan[r].offset = plan[i].offset
      <3>1. Placed(g, r) /\ Placed(g, i)
        BY <2>7 DEF Overlap
      <3>2. ~Clear(plan, r, i)
        BY <1>1, <2>1, <2>4, <2>7, ClearFacts
      <3> QED  BY <1>1, <2>1, <2>3, <2>4, <3>1, <3>2 DEF PlanFits
    <2> QED  BY <2>6, <2>7
  <1>5. ASSUME i > Len(g), NEW t \in 1 .. Len(g), g[t].output \/ t = Len(g)
        PROVE  Root(g, t) \in intact
    <2>1. /\ Root(g, t) \in 1 .. Len(g) /\ ~is_view(g, Root(g, t))
          /\ ~is_view(g, t) <=> Root(g, t) = t
      BY <1>1, RootFacts
    <2>2. Root(g, t) < i
      <3>1. Len(g) \in Nat /\ i \in Nat /\ i > Len(g)
        BY <1>1, <1>2, <1>5
      <3>2. \A x \in 1 .. Len(g) : x < i
        BY <3>1
      <3> QED  BY <2>1, <3>2
    <2>3. Wanted(g, Root(g, t), i)
      <3>1. CASE g[t].output
        <4>1. ~is_view(g, t)
          BY <1>1, <3>1 DEF Wired, WiredAt, is_view
        <4> QED  BY <2>1, <3>1, <4>1 DEF Wanted, Kept
      <3>2. CASE t = Len(g)
        BY <3>2 DEF Wanted
      <3> QED  BY <1>5, <3>1, <3>2
    <2> QED  BY <1>1, <2>1, <2>2, <2>3 DEF Computing
  <1> QED  BY <1>1, <1>3, <1>4, <1>5

(***************************************************************************)
(* However a graph is planned, and for every later graph that differs in    *)
(* its sizes only and is computed with the same plan: every tensor lies in  *)
(* the buffer of ggml_gallocr, what a node reads still holds its values,    *)
(* through views too, the node overwrites a source only in place, and at    *)
(* the end the outputs and the result are there.                            *)
(***************************************************************************)
THEOREM NothingOverwritten == ASSUME ~NewTopology PROVE Spec => []TensorsIntact
  <1>1. PlanInv /\ IntactInv => TensorsIntact
    BY IntactInvTensors
  <1>2. Init => PlanInv /\ IntactInv
    BY PlanInit, IntactInit
  <1>3. PlanInv /\ IntactInv /\ [Next]_vars => (PlanInv /\ IntactInv)'
    BY PlanStep, IntactStep
  <1> QED  BY <1>1, <1>2, <1>3, PTL DEF Spec
=============================================================================
