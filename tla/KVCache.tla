------------------------------ MODULE KVCache -------------------------------
(***************************************************************************)
(* llama_kv_cache_unified with one stream (src/llama-kv-cache-unified.cpp) *)
(* under the calls of llama_context (src/llama-context.cpp): the memory    *)
(* operations of the API, and llama_decode as the sequence of its steps:   *)
(* pending updates, placing all ubatches on trial, then ubatch by ubatch   *)
(* committing the metadata and computing the graph that writes the data.   *)
(*                                                                         *)
(* The K data of a cell is abstracted to the token it was computed from    *)
(* and the position it is rotated to (RoPE); the V data moves with it.     *)
(* The calls of a context are sequential, so an operation of the API is    *)
(* one action; llama_decode is several, since an ubatch may fail.          *)
(*                                                                         *)
(* The variable cells, v_cells[0], and the bounds Shifts, Deltas and       *)
(* Divisors on the user's arguments are those of KVCellsCalls.             *)
(***************************************************************************)
EXTENDS KVCellsCalls, Sequences, FiniteSetsExt, Functions

CONSTANTS
    Toks,       (* tokens                                                  *)
    NUbatch,    (* cparams.n_ubatch                                        *)
    MaxBatch,   (* bound: tokens in a batch                                *)
    Cont,       (* slots are contiguous: no LLAMA_SET_ROWS                 *)
    SwaType,    (* "none", "standard" or "chunked"                         *)
    NSwa,       (* n_swa                                                   *)
    MaxMoves,   (* max_moves of defrag_prepare                             *)
    Ranges,     (* the <<p0, p1>> that the user passes, -1 = open          *)
    CpRanges,   (* those of seq_cp                                         *)
    Coupled,    (* whether a token of a batch may be in several sequences  *)
    CpInto,     (* seq_cp finds seq_id_dst "empty", without the tokens it  *)
                (* copies ("disjoint"), or in any state ("any")            *)
    CanFail,    (* whether computing an ubatch may fail or be aborted      *)
    Faults      (* which graphs of an update may fail: "shift", "defrag"   *)

ASSUME ParamsAssumption ==
    /\ NUbatch \in Nat \ {0} /\ MaxBatch \in Nat \ {0} /\ MaxMoves \in Nat \ {0}
    /\ SwaType \in {"none", "standard", "chunked"} /\ NSwa \in Nat \ {0}
    /\ {Cont, Coupled, CanFail} \subseteq BOOLEAN
    /\ CpInto \in {"empty", "disjoint", "any"}
    /\ Faults \subseteq {"shift", "defrag"}
    /\ IsFiniteSet(Positions) /\ Ranges \cup CpRanges \subseteq Int \X Int

VARIABLES
    head,    (* v_heads[0]                                                 *)
    data,    (* the K and V buffers, by cell                               *)
    todo,    (* the ubatches of the running llama_decode and their slots   *)
    op       (* the call that was answered last                            *)

vars == <<cells, head, data, todo, op>>

Mem == [cells |-> cells, head |-> head, data |-> data]

(* After a call: the memory is m, the ubatches t are left, o was answered. *)
Becomes(m, t, o) ==
    /\ cells' = m.cells /\ head' = m.head /\ data' = m.data
    /\ todo' = t /\ op' = o

Blank == [tok |-> "none", rope |-> 0]

Init == /\ cells = ResetCells /\ head = 0 /\ todo = <<>> /\ op = "clear"
        /\ data = [i \in Cells |-> Blank]

-----------------------------------------------------------------------------
(* Operations on the sequences: a loop over the cells of method calls. *)

Each(Call(_, _), c, K) ==
    LET a[n \in 0 .. NCells] ==
            IF n = 0 THEN c
            ELSE IF n - 1 \in K THEN Call(a[n - 1], n - 1) ELSE a[n - 1]
    IN  a[NCells]

(* p0 < 0 is 0, and p1 < 0 is numeric_limits<llama_pos>::max(). *)
Lo(r) == Max({0, r[1]})
Hi(r) == IF r[2] < 0 THEN 1 + Max(Positions) ELSE r[2]

Hits_EndIncluded(c, s, r) ==
    {i \in Cells : PosIn(c, i, Lo(r), Hi(r) + 1) /\ SeqHas(c, i, s)}

Hits(c, s, r) == {i \in Cells : PosIn(c, i, Lo(r), Hi(r)) /\ SeqHas(c, i, s)}

(* "If we freed up a slot, set head to it so searching can start there." *)
HeadToFreed(m, c) == LET freed == m.cells.used \ c.used
                     IN  IF freed # {} THEN Min(freed \cup {m.head}) ELSE m.head

(* seq_rm() of several sequences: R[i] are those that lose cell i. *)
RmAll(m, R) ==
    LET c == Each(LAMBDA a, i : SeqRmCell(a, i, R[i]), m.cells, {i \in Cells : R[i] # {}})
    IN  [m EXCEPT !.cells = c, !.head = HeadToFreed(m, c)]

Seq_rm(m, s, r) ==
    LET K == Hits(m.cells, s, r)
    IN  RmAll(m, [i \in Cells |-> IF i \in K THEN {s} ELSE {}])

Seq_cp(m, src, dst, r) ==
    [m EXCEPT !.cells = IF src = dst THEN @ ELSE
        Each(LAMBDA a, i : SeqAddCell(a, i, {dst}), @, Hits(@, src, r))]

Seq_keep(m, s) ==
    LET c == Each(LAMBDA a, i : SeqKeepCell(a, i, s), m.cells, Cells)
    IN  [m EXCEPT !.cells = c, !.head = HeadToFreed(m, c)]

Seq_add(m, s, r, d) ==
    LET c     == Each(LAMBDA a, i : PosAdd(a, i, d), m.cells, Hits(m.cells, s, r))
        freed == m.cells.used \ c.used
    IN  IF d = 0 \/ Lo(r) = Hi(r) THEN m
        ELSE [m EXCEPT !.cells = c, !.head = IF freed = {} THEN 0 ELSE Min(freed)]

Seq_div(m, s, r, d) ==
    [m EXCEPT !.cells = IF d = 1 THEN @ ELSE
        Each(LAMBDA a, i : PosDiv(a, i, d), @, Hits(@, s, r))]

Clear(wipe) ==
    /\ todo = <<>>
    /\ Becomes([cells |-> ResetCells, head |-> 0,
                data  |-> IF wipe THEN [i \in Cells |-> Blank] ELSE data],
               <<>>, "clear")

SeqRm(s, r) == todo = <<>> /\ Becomes(Seq_rm(Mem, s, r), <<>>, "seq_rm")

SeqCp(src, dst, r) ==
    /\ todo = <<>>
    /\ CASE CpInto = "empty"    -> SeqPosMax(cells, dst) = -1
         [] CpInto = "disjoint" -> \A i \in Hits(cells, src, r) :
                                      src = dst \/ ~SeqHas(cells, i, dst)
         [] CpInto = "any"      -> TRUE
    /\ Becomes(Seq_cp(Mem, src, dst, r), <<>>, "seq_cp")

SeqKeep(s) == todo = <<>> /\ Becomes(Seq_keep(Mem, s), <<>>, "seq_keep")

(* The positions and the shifts stay within the bounds. *)
SeqAdd(s, r, d) ==
    /\ todo = <<>>
    /\ \A i \in Hits(cells, s, r) : /\ cells.pos[i] + d < 0 \/ cells.pos[i] + d \in Positions
                                    /\ cells.shift[i] + d \in Shifts
    /\ Becomes(Seq_add(Mem, s, r, d), <<>>, "seq_add")

SeqDiv(s, r, d) ==
    /\ todo = <<>>
    /\ \A i \in Hits(cells, s, r) : cells.pos[i] \div d \in Positions
    /\ Becomes(Seq_div(Mem, s, r, d), <<>>, "seq_div")
    /\ \A i \in Cells : cells'.shift[i] \in Shifts

-----------------------------------------------------------------------------
(* Pending updates: the K-shift graph, then defragmentation. *)

(* The k-th element of S, from 0, in the order of the key. *)
Nth(S, key, k) == CHOOSE x \in S : Cardinality({y \in S : key[y] < key[x]}) = k

(* defrag_prepare: the free cells below n_used are filled from the used cells   *)
(* above.  The holes take theirs from the end, one hole after the other, and    *)
(* each keeps them in order: so the cells that take their data from further up  *)
(* than d does are those of earlier holes and the later ones of the same hole.  *)
(* Max_moves contiguous blocks are moved.  ids[isrc] = idst for the moved.      *)
Defrag_prepare(c) ==
    LET low    == 0 .. Cardinality(c.used) - 1
        free   == low \ c.used
        above  == c.used \ low
        Further(d) == {e \in free : IF e < d THEN ~(e .. d \subseteq free)
                                   ELSE e > d /\ d .. e \subseteq free}
        source == [d \in free |-> Nth(above, [i \in above |-> -i], Cardinality(Further(d)))]
        starts == {d \in free : d - 1 \in free => source[d - 1] + 1 # source[d]}
        moved  == {d \in free : Cardinality({e \in starts : e <= d}) <= MaxMoves}
    IN  [i \in {source[d] : d \in moved} |-> CHOOSE d \in moved : source[d] = i]

(* set_input_k_shift and build_graph_shift rotate the K data of each cell. *)
Kshift(m) ==
    [m EXCEPT !.cells = ResetShift(@),
              !.data  = [i \in Cells |->
                  IF IsEmpty(m.cells, i) THEN m.data[i]
                  ELSE [m.data[i] EXCEPT !.rope = @ + m.cells.shift[i]]]]

(* The metadata moves first; the graph that copies the data follows. *)
MoveCells(m, ids) ==
    [m EXCEPT !.cells = Each(LAMBDA a, i : Mv(a, i, ids[i]), @, DOMAIN ids),
              !.head  = 0]

MoveData_FirstOnly(m, ids) ==
    LET j == Min(DOMAIN ids) IN [m EXCEPT !.data[ids[j]] = m.data[j]]

MoveData(m, ids) ==
    [m EXCEPT !.data = [i \in Cells |->
        IF \E j \in DOMAIN ids : ids[j] = i
        THEN @[CHOOSE j \in DOMAIN ids : ids[j] = i] ELSE @[i]]]

Plan(m, optimize) == IF optimize THEN Defrag_prepare(m.cells) ELSE <<>>

HasUpdate(m, optimize) == m.cells.has_shift \/ Plan(m, optimize) # <<>>

Update_NoShift(m, optimize) ==
    LET ids == Plan(m, optimize)
    IN  {IF ids = <<>> THEN m ELSE MoveData(MoveCells(m, ids), ids)}

(* The outcomes of update().  A K-shift whose graph fails leaves everything, *)
(* a defragmentation whose graph fails leaves the metadata moved.            *)
Update(m, optimize) ==
    LET ids   == Plan(m, optimize)
        m1    == IF m.cells.has_shift THEN Kshift(m) ELSE m
        moved == MoveCells(m1, ids)
    IN  {IF ids = <<>> THEN m1 ELSE MoveData(moved, ids)}
          \cup {m     : f \in Faults \cap (IF m.cells.has_shift THEN {"shift"} ELSE {})}
          \cup {moved : f \in Faults \cap (IF ids # <<>> THEN {"defrag"} ELSE {})}

(* llama_kv_self_update; llama_kv_self_defrag asks for optimize. *)
UpdateCall(optimize) ==
    /\ todo = <<>>
    /\ \E m \in Update(Mem, optimize) : Becomes(m, <<>>, "update")

-----------------------------------------------------------------------------
(* Placing the ubatches of a batch. *)

(* The cell at p0 is out of the window of a token at p1. *)
IsMaskedSwa(p0, p1) ==
    \/ SwaType = "standard" /\ p1 - p0 >= NSwa
    \/ SwaType = "chunked"  /\ p0 < (p1 \div NSwa) * NSwa

CanUse_OneTooMany(c, i) ==
    \/ IsEmpty(c, i)
    \/ \E s \in Seqs : /\ c.seq[i] = {s}
                       /\ IsMaskedSwa(c.pos[i], SeqPosMax(c, s) + 2)

CanUse(c, i) ==
    \/ IsEmpty(c, i)
    \/ \E s \in Seqs : /\ c.seq[i] = {s}
                       /\ IsMaskedSwa(c.pos[i], SeqPosMax(c, s) + 1)

Find_slot_NoWrap(m, n) ==
    LET starts == {a \in Cells : /\ a >= m.head /\ a + n <= NCells
                                 /\ \A k \in a .. a + n - 1 : CanUse(m.cells, k)}
    IN  IF starts = {} THEN <<>> ELSE [k \in 1 .. n |-> Min(starts) + k - 1]

(* find_slot: the cells for n tokens, <<>> if there are none.  The search     *)
(* visits every cell once, from the head to the end and then from the start.  *)
Find_slot(m, n) ==
    LET h == IF m.head > Cardinality(m.cells.used) + 2 * n THEN 0 ELSE m.head
        usable == {i \in Cells : CanUse(m.cells, i)}
        turn   == [i \in Cells |-> IF i >= h THEN i - h ELSE i + NCells - h]
        starts == {a \in Cells : /\ a + n <= NCells
                                 /\ \A k \in a .. a + n - 1 : CanUse(m.cells, k)}
        ahead  == {a \in starts : a >= h}
        first  == Min(IF ahead = {} THEN starts ELSE ahead)
    IN  IF Cont THEN IF starts = {} THEN <<>> ELSE [k \in 1 .. n |-> first + k - 1]
        ELSE IF Cardinality(usable) < n THEN <<>>
             ELSE [k \in 1 .. n |-> Nth(usable, turn, k - 1)]

Place(c, i, t) ==
    SeqAddCell(PosSet(IF IsEmpty(c, i) THEN c ELSE RmCell(c, i), i, t.pos), i, t.seqs)

PlaceAll(c, idxs, toks) ==
    LET a[k \in 0 .. Len(idxs)] ==
            IF k = 0 THEN c ELSE Place(a[k - 1], idxs[k], toks[k])
    IN  a[Len(idxs)]

Apply_ubatch_NoPurge(m, idxs, toks) ==
    [m EXCEPT !.cells = PlaceAll(m.cells, idxs, toks), !.head = idxs[Len(idxs)] + 1]

(* The positions up to the last one that was overwritten are purged, so that *)
(* a sequence keeps all positions between its first and its last.            *)
Apply_ubatch(m, idxs, toks) ==
    LET over(s) == Max({-1} \cup {m.cells.pos[i] : i \in {x \in Range(idxs) :
                                                      m.cells.seq[x] = {s}}})
        c == PlaceAll(m.cells, idxs, toks)
        R == [i \in Cells |-> {s \in c.seq[i] : c.pos[i] <= over(s)}]
    IN  [RmAll([m EXCEPT !.cells = c], R) EXCEPT !.head = idxs[Len(idxs)] + 1]

TryPlace_NotApplied(p, toks) ==
    LET idxs == Find_slot(p.m, Len(toks))
    IN  [ok |-> idxs # <<>>, idxs |-> idxs, m |-> p.m]

(* One ubatch of prepare(): the slot that is found, and the memory after it. *)
TryPlace(p, toks) ==
    LET idxs == Find_slot(p.m, Len(toks))
    IN  IF ~p.ok \/ idxs = <<>> THEN [ok |-> FALSE, idxs |-> <<>>, m |-> p.m]
        ELSE [ok |-> TRUE, idxs |-> idxs, m |-> Apply_ubatch(p.m, idxs, toks)]

(* The cells idxs are set back to what they were in the memory old. *)
SetBack(m, idxs, old) ==
    [m EXCEPT !.cells = Each(LAMBDA a, i : SetCell(a, i, old.cells.pos[i], old.cells.seq[i]),
                             @, Range(idxs)),
              !.head = old.head]

(* prepare: every ubatch is placed on trial, and the cells that were          *)
(* overwritten are set back, last ubatch first.                               *)
Trial(m, ubatches) ==
    LET p[k \in 0 .. Len(ubatches)] ==
            IF k = 0 THEN <<[ok |-> TRUE, idxs |-> <<>>, m |-> m]>>
            ELSE LET done == p[k - 1] IN Append(done, TryPlace(done[k], ubatches[k]))
    IN  p[Len(ubatches)]

Undone(p, n) ==
    LET a[k \in 0 .. n] ==
            IF k = 0 THEN p[n + 1].m
            ELSE SetBack(a[k - 1], p[n - k + 2].idxs, p[n - k + 1].m)
    IN  a[n]

Prepare(m, ubatches) ==
    LET n == Len(ubatches)
        p == Trial(m, ubatches)
    IN  [ok    |-> p[n + 1].ok, m |-> Undone(p, n),
         slots |-> [k \in 1 .. n |-> [idxs |-> p[k + 1].idxs, toks |-> ubatches[k]]]]

-----------------------------------------------------------------------------
(* llama_decode *)

(* The tokens of a batch: the sequences of a token, and which comes first. *)
BatchToks == {t \in [tok : Toks, seqs : SUBSET Seqs, lead : Seqs] :
                 /\ t.lead \in t.seqs
                 /\ Coupled \/ t.seqs = {t.lead}}

(* The inputs: tokens that share a sequence come with ever fewer sequences, a  *)
(* common prefix and then the tokens of each, as callers build them.  init()   *)
(* means to refuse the others ("disallow partial sequence sub-sets") but lets  *)
(* many of them pass; they are not among the inputs here.                      *)
Batches == {b \in UNION {[1 .. n -> BatchToks] : n \in 1 .. MaxBatch} :
               \A i, j \in DOMAIN b : i < j /\ b[i].seqs \cap b[j].seqs # {}
                                          => b[j].seqs \subseteq b[i].seqs}

(* llama_batch_allocr::init without batch.pos: each token comes after the last *)
(* position of its first sequence, in the memory or earlier in the batch.      *)
Positioned(a, t) ==
    LET p == a.p0[t.lead]
    IN  [p0   |-> [s \in Seqs |-> IF s \in t.seqs THEN p + 1 ELSE a.p0[s]],
         toks |-> Append(a.toks, [tok |-> t.tok, seqs |-> t.seqs, lead |-> t.lead, pos |-> p])]

WithPos(c, batch) ==
    LET acc[k \in 0 .. Len(batch)] ==
            IF k = 0 THEN [p0 |-> [s \in Seqs |-> SeqPosMax(c, s) + 1], toks |-> <<>>]
            ELSE Positioned(acc[k - 1], batch[k])
    IN  acc[Len(batch)].toks

(* Its consistency checks: the positions of a sequence go on where the memory *)
(* ends and have no gap, and coupled sequences have the same range.           *)
Consistent(c, toks) ==
    /\ \A s \in Seqs :
         LET P == {t.pos : t \in {x \in Range(toks) : s \in x.seqs}}
         IN  P # {} => /\ SeqPosMax(c, s) >= 0 => Min(P) = SeqPosMax(c, s) + 1
                       /\ Max(P) - Min(P) + 1 <= Cardinality(P)
    /\ \A t \in Range(toks) : \A s \in t.seqs :
         /\ SeqPosMin(c, s) = SeqPosMin(c, t.lead)
         /\ SeqPosMax(c, s) = SeqPosMax(c, t.lead)

(* split_simple *)
Ubatches(toks) ==
    [k \in 1 .. (Len(toks) + NUbatch - 1) \div NUbatch |->
        SubSeq(toks, (k - 1) * NUbatch + 1, Min({k * NUbatch, Len(toks)}))]

(* The updates that are pending are applied (and a defragmentation if the     *)
(* threshold says so: defrag), then the ubatches are placed on trial; if that *)
(* fails, it is tried once more after a defragmentation.                      *)
Decode(batch, defrag) ==
    LET toks == WithPos(cells, batch)
        Placed(p) == Becomes(p.m, p.slots, "update")
        Full(p)   == Becomes(p.m, <<>>, "full")
    IN  /\ todo = <<>>
        /\ \A t \in Range(toks) : t.pos \in Positions
        /\ IF ~Consistent(cells, toks) THEN Becomes(Mem, <<>>, "invalid")
           ELSE \E m1 \in Update(Mem, defrag) :
                  LET p1 == Prepare(m1, Ubatches(toks))
                  IN  IF p1.ok THEN Placed(p1)
                      ELSE IF ~HasUpdate(p1.m, TRUE) THEN Full(p1)
                      ELSE \E m2 \in Update(p1.m, TRUE) :
                             LET p2 == Prepare(m2, Ubatches(toks))
                             IN  IF p2.ok THEN Placed(p2) ELSE Full(p2)

(* The cells in W hold the data of the ubatch u, which its graph wrote. *)
Written(u, W) ==
    [i \in Cells |->
        IF i \in W
        THEN LET t == u.toks[CHOOSE k \in DOMAIN u.idxs : u.idxs[k] = i]
             IN  [tok |-> t.tok, rope |-> t.pos]
        ELSE data[i]]

ProcessUbatch ==
    /\ todo # <<>>
    /\ LET u == Head(todo)
           m == Apply_ubatch(Mem, u.idxs, u.toks)
       IN  Becomes([m EXCEPT !.data = Written(u, Range(u.idxs))], Tail(todo), "decode")

(* The graph fails or is aborted after it wrote the cells W.  "remove all      *)
(* positions of that ubatch": from the first sequence of each of its tokens.   *)
RemoveFailed(m, toks) ==
    RmAll(m, [i \in Cells |-> {s \in m.cells.seq[i] :
                 \E t \in Range(toks) : t.lead = s /\ t.pos <= m.cells.pos[i]}])

FailUbatch ==
    /\ todo # <<>> /\ CanFail
    /\ LET u == Head(todo)
       IN  \E W \in SUBSET Range(u.idxs) :
             Becomes([RemoveFailed(Apply_ubatch(Mem, u.idxs, u.toks), u.toks)
                        EXCEPT !.data = Written(u, W)], <<>>, "failed")

Next ==
    \/ \E wipe \in BOOLEAN : Clear(wipe)
    \/ \E s \in Seqs : SeqKeep(s)
    \/ \E s \in Seqs, r \in Ranges :
         \/ SeqRm(s, r)
         \/ \E d \in Deltas : SeqAdd(s, r, d)
         \/ \E d \in Divisors : SeqDiv(s, r, d)
    \/ \E s, t \in Seqs, r \in CpRanges : SeqCp(s, t, r)
    \/ \E b \in BOOLEAN : UpdateCall(b)
    \/ \E batch \in Batches, b \in BOOLEAN : Decode(batch, b)
    \/ ProcessUbatch
    \/ FailUbatch

Spec == Init /\ [][Next]_vars

-----------------------------------------------------------------------------
TokType  == [tok : Toks, seqs : SUBSET Seqs, lead : Seqs, pos : Positions]
DataType == [Cells -> [tok : Toks \cup {"none"}, rope : Int]]

(* Metadata, data, the ubatches with their slots and the answer are of their  *)
(* types.                                                                     *)
TypeOK ==
    /\ cells \in CellsType /\ head \in 0 .. NCells /\ data \in DataType
    /\ todo \in Seq([idxs : Seq(Cells), toks : Seq(TokType)])
    /\ op \in {"clear", "seq_rm", "seq_cp", "seq_keep", "seq_add", "seq_div",
               "update", "invalid", "full", "decode", "failed"}

(* The indexes of the cells hold what they stand for, whatever the loops of   *)
(* the cache do with the methods of the cells: used is the set of the cells   *)
(* with a position, each of which belongs to a sequence, and seq_pos counts   *)
(* the cells of each sequence at each position.                               *)
IndexesExact ==
    /\ cells.used = {i \in Cells : ~IsEmpty(cells, i)}
    /\ \A i \in Cells : IsEmpty(cells, i) <=> cells.seq[i] = {}
    /\ \A s \in Seqs, p \in Positions :
         cells.seq_pos[s][p] =
            Cardinality({i \in Cells : SeqHas(cells, i, s) /\ cells.pos[i] = p})

(* "this array accumulates any applied shifts to the pos array since the last *)
(* reset_shift() call": the position of a cell is the one its K data has been *)
(* rotated to plus the shift that is still to be applied.                     *)
PhaseOK == \A i \in cells.used : cells.pos[i] = data[i].rope + cells.shift[i]

(* "lazily on next llama_decode()": while a batch is computed, no shift is    *)
(* pending, and every cell is rotated to its position.                        *)
ShiftsApplied ==
    todo # <<>> => \A i \in cells.used : cells.shift[i] = 0 /\ data[i].rope = cells.pos[i]

(* The positions of sequence s in the ubatches that are left, and those of    *)
(* the tokens that come to s: the first one, and the last one.                *)
Coming(t, s)     == {x.pos : x \in {y \in UNION {Range(t[k].toks) : k \in DOMAIN t} :
                                       s \in y.seqs}}
NextPos(c, t, s) == IF Coming(t, s) = {} THEN SeqPosMax(c, s) + 1 ELSE Min(Coming(t, s))
LastPos(c, t, s) == IF Coming(t, s) = {} THEN SeqPosMax(c, s) + 1 ELSE Max(Coming(t, s))

(* The slots that were found on trial, before the earlier ubatches of the     *)
(* batch were computed, may be written when their turn comes: a cell is free, *)
(* or holds a position of a single sequence that is out of the window of the  *)
(* next token that comes to it.  They are as many as the tokens and do not    *)
(* overlap.                                                                   *)
SlotsStillFree ==
    todo # <<>> =>
        LET u == todo[1]
        IN  /\ \A i \in Range(u.idxs) :
                 \/ IsEmpty(cells, i)
                 \/ \E s \in Seqs : /\ cells.seq[i] = {s}
                                    /\ IsMaskedSwa(cells.pos[i], NextPos(cells, todo, s))
            /\ Cardinality(Range(u.idxs)) = Len(u.toks)

(* The memory as the user of the API sees it. *)
Entries == {[tok |-> data[i].tok, pos |-> data[i].rope + cells.shift[i],
             seqs |-> cells.seq[i]] : i \in cells.used}

(* The tokens that were accepted and are not in the cells yet. *)
Due == [k \in 1 .. Len(todo) |-> {[tok |-> t.tok, pos |-> t.pos, seqs |-> t.seqs] :
                                      t \in Range(todo[k].toks)}]

Store == INSTANCE KVStore WITH store <- Entries, due <- Due, Window <- IsMaskedSwa,
                               Ranges <- Ranges \cup CpRanges

(* The cache implements the abstract store: every operation does to the       *)
(* tokens, with their data, what the API says, computing an ubatch adds its   *)
(* tokens with their positions and sequences and nothing else, and updates,   *)
(* trials and failed ubatches change nothing.                                 *)
ImplementsStore == Store!Spec

(* "Upon other return values, the memory state is restored to the state      *)
(* before this call": a batch that finds no slot changes no entry.            *)
RestoredWhenFull == [][op' = "full" => Entries' = Entries]_vars

(* "could not find a KV slot for the batch": that is never the answer while   *)
(* there is room for the largest batch, however fragmented the cells are.     *)
RoomFound ==
    [][op' = "full" => Cardinality({i \in Cells : CanUse(cells, i)}) < MaxBatch]_vars

(* All positions between the first and the last of a sequence are present. *)
Gapless(c) ==
    \A s \in Seqs : \A p \in SeqPosMin(c, s) .. SeqPosMax(c, s) :
        p >= 0 => \E i \in Cells : SeqHas(c, i, s) /\ c.pos[i] = p

(* The memory when the ubatches t that are left are placed. *)
Finished(m, t) ==
    LET a[k \in 0 .. Len(t)] ==
            IF k = 0 THEN m ELSE Apply_ubatch(a[k - 1], t[k].idxs, t[k].toks)
    IN  a[Len(t)]

(* "we want to preserve the invariant that all positions between [pos_min,    *)
(* pos_max] for each sequence will be present in the cache": from cells that  *)
(* have no gap, no call leads to one, an ubatch that fails makes none, and a  *)
(* batch that is placed leaves none when it is completed, although the trial  *)
(* purged cells that are not set back.                                        *)
StaysContiguous ==
    [][op' # "full" /\ Gapless(cells) =>
         \A m \in {Finished(Mem', todo')} : Gapless(m.cells)]_vars

(* The same invariant whatever becomes of a batch: TLC refutes it, since what *)
(* a trial purged is lost when the batch then fails or finds no slot.         *)
Contiguous == todo = <<>> => Gapless(cells)

(* Some cell holds after the step what cell i holds for sequence s before it. *)
Kept(i, s) == \E j \in cells'.used : /\ s \in cells'.seq[j]
                                     /\ cells'.pos[j] = cells.pos[i]
                                     /\ data'[j].tok = data[i].tok

(* Decoding, which reuses cells and purges positions, loses nothing that is   *)
(* needed.  Computing an ubatch, also one that fails, loses no token that the *)
(* next token of its sequence, in the batch or after it, attends to; an       *)
(* update, and placing a batch on trial, none that the last token of the      *)
(* batch attends to.                                                          *)
WindowKept ==
    [][op' \in {"update", "decode", "failed"} =>
         \A i \in cells.used : \A s \in cells.seq[i] :
            \/ IsMaskedSwa(cells.pos[i],
                           IF op' = "update" THEN LastPos(cells, todo', s)
                                             ELSE NextPos(cells, todo, s))
            \/ Kept(i, s)]_vars

(* "iterate backwards and restore the cells to their original state": placing *)
(* a batch on trial changes no entry.  TLC refutes it for a sliding window,   *)
(* where prepare() restores the slots but not what was purged for them.       *)
TrialRestores == [][op' = "update" => Entries' = Entries]_vars

=============================================================================
