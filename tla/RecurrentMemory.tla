-------------------------- MODULE RecurrentMemory --------------------------
(***************************************************************************)
(* llama_memory_recurrent of src/llama-memory-recurrent.cpp: the memory of  *)
(* models with a recurrent state (Mamba, RWKV).  A cell holds the state of  *)
(* a whole sequence, or of several that were copied from one another.  A    *)
(* ubatch needs neighbouring cells: find_slot() exchanges cells, and the    *)
(* graph moves the states after that, from src0 of each cell.               *)
(*                                                                         *)
(* A state is modelled by the tokens that it was computed from, each of     *)
(* them by the first of the sequences that it was decoded for, and by       *)
(* whether it began cleared.                                                *)
(***************************************************************************)
EXTENDS Integers, Sequences, FiniteSets, Functions

CONSTANTS
    Size,       (* cells, and sequences: size = n_seq_max                   *)
    MaxPos,     (* bound: positions, and tokens of a sequence               *)
    MaxOps,     (* bound: calls other than decodes that succeed             *)
    SeqSets     (* the lists of sequences that a token may be of            *)

Ids == 0 .. Size - 1     (* of cells and of sequences *)
Lists(S) == UNION {[1 .. n -> S] : n \in 1 .. Size}

ASSUME RecurrentAssumption ==
    /\ Size \in Nat \ {0} /\ MaxPos \in Nat /\ MaxOps \in Nat
    /\ SeqSets \subseteq Lists(Ids)

VARIABLES
    mem,        (* llama_memory_recurrent: cells, head and used             *)
    state,      (* [Ids -> state]: the tensors r_l and s_l                  *)
    saved,      (* what state_write() wrote for a sequence                  *)
    text,       (* history: [Ids -> the state that each sequence should have] *)
    ops

vars == <<mem, state, saved, text, ops>>

None == -1
NoCell == [pos |-> -1, src |-> None, seqs |-> {}]
is_empty(c) == c.seqs = {}
Used(m) == {i \in Ids : ~is_empty(m.cell[i])}
MinOf(S) == CHOOSE x \in S : \A y \in S : x <= y
MaxOf(S) == CHOOSE x \in S : \A y \in S : x >= y

(* clear().  cells[s].tail, which is about the sequence s and not about the  *)
(* cell, is tail[s]; ok is whether every assertion held so far.             *)
Cleared == [cell |-> [i \in Ids |-> NoCell], tail |-> [s \in Ids |-> None],
            head |-> 0, used |-> 0, ok |-> TRUE]
Empty == [known |-> TRUE, toks |-> <<>>]     (* a cleared state *)
Unknown == [known |-> FALSE, toks |-> <<>>]  (* what a failed graph left *)
NoTexts == [i \in Ids |-> Empty]
NothingSaved == [pos |-> -1, state |-> Empty]

Init ==
    /\ mem = Cleared
    /\ state = NoTexts /\ text = NoTexts
    /\ saved = NothingSaved
    /\ ops = 0

(***************************************************************************)
(* seq_rm, seq_cp, seq_keep, seq_add, seq_div                              *)
(***************************************************************************)

(* A cell without sequences is free again. *)
Without(c, s) == IF c.seqs \subseteq {s} THEN NoCell
                 ELSE [c EXCEPT !.seqs = @ \ {s}]
HeadAt(m, freed) ==
    IF freed # {} /\ MinOf(freed) < m.head THEN MinOf(freed) ELSE m.head

(* "models like Mamba or RWKV can't have a state partially erased": p0 and  *)
(* p1 are the ends of the range, and the sequence keeps its state.          *)
Partial(m, s, p0, p1) ==
    LET t == m.tail[s]
    IN  t # None /\ ((0 < p0 /\ p0 <= m.cell[t].pos) \/ (0 < p1 /\ p1 <= m.cell[t].pos))
InRange(c, p0, p1) == c.pos >= p0 /\ c.pos < p1

SeqRemoved(m, s, p0, p1) ==
    LET hit(i) == InRange(m.cell[i], p0, p1) /\ s \in m.cell[i].seqs
        freed  == {i \in Ids : hit(i) /\ m.cell[i].seqs = {s}}
        t      == m.tail[s]
        tail   == IF t # None /\ InRange(m.cell[t], p0, p1) THEN None ELSE t
        new    == [i \in Ids |-> IF hit(i) THEN Without(m.cell[i], s) ELSE m.cell[i]]
    IN  [m EXCEPT !.cell = new, !.tail[s] = tail,
                  !.used = @ - Cardinality(freed),
                  !.head = HeadAt(m, freed)]

End == MaxPos + 1     (* p1 = -1 *)
SeqRm(m, s, p0, p1) == IF Partial(m, s, p0, p1) THEN m ELSE SeqRemoved(m, s, p0, p1)

(* What is left of the history when some sequences are gone from m. *)
Remaining(m, ts) == [s \in Ids |-> IF m.tail[s] = None THEN Empty ELSE ts[s]]

seq_rm(s, p0, p1) ==
    /\ mem' = SeqRm(mem, s, p0, p1)
    /\ text' = Remaining(mem', text)
    /\ UNCHANGED <<state, saved>>

(* seq_cp ignores its range: the whole state is shared.                     *)
SeqCopied(m, src, dst) ==
    LET td   == m.tail[dst]
        m1   == IF td = None THEN m
                ELSE [m EXCEPT !.cell[td] = Without(@, dst),
                               !.used = @ - (IF m.cell[td].seqs = {dst} THEN 1 ELSE 0)]
        ts   == m1.tail[src]
    IN  IF ts = None THEN [m1 EXCEPT !.tail[dst] = None]
        ELSE [m1 EXCEPT !.cell[ts].seqs = @ \cup {dst}, !.tail[dst] = ts]
seq_cp(src, dst) ==
    /\ src # dst
    /\ mem' = SeqCopied(mem, src, dst)
    /\ text' = [text EXCEPT ![dst] = text[src]]
    /\ UNCHANGED <<state, saved>>

SeqKept(m, s) ==
    LET gone == {i \in Ids : s \notin m.cell[i].seqs}
    IN  [m EXCEPT !.cell = [i \in Ids |->
                        IF i \in gone THEN NoCell ELSE [m.cell[i] EXCEPT !.seqs = {s}]],
                  !.tail = [i \in Ids |-> IF i = s THEN m.tail[s] ELSE None],
                  !.used = @ - Cardinality({i \in gone : m.cell[i].pos >= 0}),
                  !.head = HeadAt(m, gone)]
seq_keep(s) ==
    /\ mem' = SeqKept(mem, s)
    /\ text' = Remaining(mem', text)
    /\ UNCHANGED <<state, saved>>

(* Only the position changes.  Callers keep positions from going below 0. *)
Moved(s, p0, p1, P(_)) ==
    LET t == mem.tail[s]
    IN  /\ t # None
        /\ s \in mem.cell[t].seqs /\ InRange(mem.cell[t], p0, p1)
        /\ P(mem.cell[t].pos) \in 0 .. MaxPos
        /\ mem' = [mem EXCEPT !.cell[t].pos = P(@)]
        /\ UNCHANGED <<state, saved, text>>
seq_add(s, p0, p1, shift) == shift # 0 /\ Moved(s, p0, p1, LAMBDA p : p + shift)
seq_div(s, p0, p1, d) == Moved(s, p0, p1, LAMBDA p : p \div d)

(***************************************************************************)
(* find_slot: a ubatch is a sequence of [ids, last]: the sequences that      *)
(* share the tokens, the first of which has the state, and the position of   *)
(* the last token.                                                           *)
(***************************************************************************)

(* The sequences after the first leave the cells that they have. *)
First(u, k) == u[k].ids[1]
Later(u) == UNION {Range(u[k].ids) \ {First(u, k)} : k \in DOMAIN u}
Detached(m, D) ==
    LET left(i) == {s \in D : m.tail[s] = i}
        freed   == {i \in Ids : left(i) # {} /\ m.cell[i].seqs \subseteq left(i)}
    IN  [m EXCEPT !.cell = [i \in Ids |-> IF i \in freed THEN NoCell
                                ELSE [m.cell[i] EXCEPT !.seqs = @ \ left(i)]],
                  !.tail = [s \in Ids |-> IF s \in D THEN None ELSE m.tail[s]],
                  !.used = @ - Cardinality(freed)]

Wrapped(i) == IF i >= Size THEN i - Size ELSE i
NextEmpty_Here(m, i) == Wrapped(i)
(* The first empty cell from i on, going round. *)
NextEmpty(m, i) ==
    LET free == {k \in 0 .. Size - 1 : is_empty(m.cell[Wrapped(i + k)])}
    IN  Wrapped(i + IF free = {} THEN 0 ELSE MinOf(free))

(* The cell of the sequence that comes first is its own, or an empty one     *)
(* that its state will be copied to.  a is [m, next, cells]; ok is whether   *)
(* the assertions hold.                                                      *)
Owns_Any(m, s) == m.tail[s] # None
Owns(m, s) == LET t == m.tail[s]
              IN  t # None /\ Cardinality(m.cell[t].seqs) = 1
Held(m, s) == m.tail[s] = None \/ s \in m.cell[m.tail[s]].seqs
MovedTo(m, s, e) ==
    LET t  == m.tail[s]
        m1 == IF t = None THEN m
              ELSE [m EXCEPT !.cell[e] = [m.cell[t] EXCEPT !.seqs = {s}],
                             !.cell[t].seqs = @ \ {s}]
    IN  [m1 EXCEPT !.tail[s] = e,
                   !.ok = @ /\ Held(m, s) /\ is_empty(m.cell[e])
                            /\ (t = None \/ m.cell[t].seqs # {s})]
PlaceSeq(a, s, last) ==
    LET n == MovedTo(a.m, s, a.next)
    IN  IF Owns(a.m, s)
        THEN [a EXCEPT !.m.ok = @ /\ Held(a.m, s), !.cells = @ \cup {a.m.tail[s]}]
        ELSE [m |-> n, cells |-> a.cells \cup {a.next},
              next |-> IF last THEN a.next ELSE NextEmpty(n, a.next + 1)]
PlaceAll(m, u) ==
    LET a[k \in 0 .. Len(u)] ==
            IF k = 0 THEN [m |-> m, next |-> NextEmpty(m, m.head), cells |-> {}]
            ELSE PlaceSeq(a[k - 1], First(u, k), k = Len(u))
    IN  a[Len(u)]

(* Gather and re-order: sequence k of the ubatch gets cell min + k - 1. *)
Exchanged(i, j, k) == IF k = i THEN j ELSE IF k = j THEN i ELSE k
Swap_Kept(m, i, j) == [m EXCEPT !.cell[i] = m.cell[j], !.cell[j] = m.cell[i]]
Swap(m, i, j) == [m EXCEPT !.cell[i] = m.cell[j], !.cell[j] = m.cell[i],
                           !.tail = [s \in Ids |-> Exchanged(i, j, m.tail[s])]]
Gathered(m, u, first) ==
    LET x[k \in 0 .. Len(u)] ==
            IF k = 0 THEN m
            ELSE Swap(x[k - 1], x[k - 1].tail[First(u, k)], (first + k) - 1)
    IN  x[Len(u)]

(* The cells now belong to all the sequences of their tokens. *)
PlaceOf(u, s) == {k \in DOMAIN u : s \in Range(u[k].ids)}
Assigned(m, u, first) ==
    LET k(i) == (i - first) + 1
    IN  [m EXCEPT
            !.cell = [i \in Ids |-> IF k(i) \in DOMAIN u
                        THEN [m.cell[i] EXCEPT !.pos = u[k(i)].last,
                                               !.seqs = Range(u[k(i)].ids)]
                        ELSE m.cell[i]],
            !.tail = [s \in Ids |-> IF PlaceOf(u, s) = {} THEN m.tail[s]
                                    ELSE (first + MinOf(PlaceOf(u, s))) - 1]]

(* The first cell that no state is copied from is cleared, and copied to    *)
(* every cell that has no state yet.                                        *)
Unreferenced(m, range) == {i \in range : \A j \in Ids : m.cell[j].src # i}
RsZ(m, range) ==
    IF Unreferenced(m, range) = {} THEN None ELSE MinOf(Unreferenced(m, range))

(* mem with the result that the graph uses: src0 of the cells from head on. *)
find_slot(m, u) ==
    LET m0 == [m EXCEPT !.head = IF @ > m.used + 2 * Len(u) THEN 0 ELSE @]
        a  == PlaceAll(Detached(m0, Later(u)), u)
        lo == MinOf(a.cells)
        range == lo .. MaxOf(a.cells)
        r  == Assigned(Gathered(a.m, u, lo), u, lo)
        z  == RsZ(r, range)
        src0 == [i \in range |-> IF r.cell[i].src = None THEN z ELSE r.cell[i].src]
    IN  [mem  |-> [cell |-> [i \in Ids |-> IF i \in range
                                THEN [r.cell[i] EXCEPT !.src = i] ELSE r.cell[i]],
                   tail |-> r.tail,
                   head |-> lo,
                   used |-> Cardinality(Used(r)),
                   ok   |-> r.ok /\ (\A i \in range : src0[i] # None)
                                 /\ Cardinality(range) >= Len(u)],
         rs_z |-> z, src0 |-> src0]

(***************************************************************************)
(* One ubatch of llama_decode: find_slot(), which prepare() has tried, and  *)
(* the graph.                                                               *)
(***************************************************************************)

(* External, llama_batch_allocr: each sequence goes on where the memory     *)
(* stopped, sequences that share tokens must be at one position, and no     *)
(* sequence is in two places of a ubatch.                                   *)
LastPos(s) == IF mem.tail[s] = None THEN -1 ELSE mem.cell[mem.tail[s]].pos
SeqSetLists == {u \in Lists(SeqSets) :
    \A j, k \in DOMAIN u : j # k => Range(u[j]) \cap Range(u[k]) = {}}
Ubatches ==
    {u \in SeqSetLists :
        \A k \in DOMAIN u : \A s \in Range(u[k]) :
            /\ LastPos(s) = LastPos(u[k][1])
            /\ LastPos(s) < MaxPos /\ Len(text[s].toks) <= MaxPos}
Placed(u) == find_slot(mem, [k \in DOMAIN u |->
                                [ids |-> u[k], last |-> LastPos(u[k][1]) + 1]])

(* One token more. *)
After(st, s) == [st EXCEPT !.toks = Append(@, s)]

(* build_rs: one state is cleared, then the states of the batch and of the  *)
(* other cells of the range come from src0, and those of the batch go on.   *)
Computed(f, u) ==
    LET z == IF f.rs_z = None THEN state ELSE [state EXCEPT ![f.rs_z] = Empty]
        k(i) == i - f.mem.head + 1
    IN  [i \in Ids |->
            IF i \notin DOMAIN f.src0 THEN z[i]
            ELSE IF k(i) \in DOMAIN u THEN After(z[f.src0[i]], u[k(i)][1])
            ELSE z[f.src0[i]]]

(* What sequence s should have after a token that it shares with f, whose    *)
(* state is used.  Sequences that share a token are meant to be the same:    *)
(* "coupled in the input batch, but have divereged" (sic) is an error, which *)
(* only compares their positions.  If s had a history of its own, it is lost.*)
Shared(tx, s, f) == [After(tx[f], f) EXCEPT !.known = @ /\ tx[s] = tx[f]]

Decode(u) ==
    LET f == Placed(u)
        of(s) == {k \in DOMAIN u : s \in Range(u[k])}
        first(s) == u[MinOf(of(s))][1]
    IN  /\ mem' = f.mem
        /\ state' = IF f.mem.ok THEN Computed(f, u) ELSE state
        /\ text' = [s \in Ids |-> IF of(s) = {} THEN text[s]
                                  ELSE Shared(text, s, first(s))]
        /\ UNCHANGED <<saved, ops>>

(* decode() takes a ubatch that failed out of the memory, for the first       *)
(* sequence of each token, which seq_rm() refuses when an earlier position   *)
(* is in it.                                                                 *)
TakenOut(n, firsts) ==
    LET m[k \in 0 .. Size] ==
            IF k = 0 THEN n
            ELSE IF k - 1 \notin firsts THEN m[k - 1]
            ELSE SeqRm(m[k - 1], k - 1, LastPos(k - 1) + 1, End)
    IN  m[Size]

(* The graph fails part way: nothing is known of the states of its range,    *)
(* and a sequence that is still there has lost its own.                      *)
DecodeFails(u) ==
    LET f == Placed(u)
    IN  /\ f.mem.ok
        /\ mem' = TakenOut(f.mem, {u[k][1] : k \in DOMAIN u})
        /\ state' = [i \in Ids |-> IF i \in DOMAIN f.src0 THEN Unknown ELSE state[i]]
        /\ text' = Remaining(mem', [s \in Ids |->
                        IF mem'.tail[s] \in DOMAIN f.src0 THEN Unknown ELSE text[s]])
        /\ UNCHANGED saved

(***************************************************************************)
(* state_write and state_read, of one sequence or of the whole memory.      *)
(***************************************************************************)

(* A sequence without a cell is not written here: reading it back indexes   *)
(* an empty ubatch.                                                         *)
StateWriteSeq(s) ==
    /\ mem.tail[s] # None
    /\ saved' = [pos |-> LastPos(s), state |-> state[mem.tail[s]]]
    /\ UNCHANGED <<mem, state, text>>

(* The sequence is removed, and gets the cell that find_slot() has for it.   *)
(* When the tensors do not match it is removed again.                        *)
StateReadSeq(s, good) ==
    LET m == find_slot(SeqRm(mem, s, 0, End), <<[ids |-> <<s>>, last |-> saved.pos]>>).mem
    IN  /\ saved # NothingSaved
        /\ mem' = IF good THEN m ELSE SeqRm(m, s, 0, End)
        /\ state' = IF good THEN [state EXCEPT ![m.head] = saved.state] ELSE state
        /\ text' = [text EXCEPT ![s] = IF good THEN saved.state ELSE Empty]
        /\ UNCHANGED saved

(* The whole memory is written, and read by a process that may have used it  *)
(* since: reading clears it first.  The cells in use, in their order, are     *)
(* restored from 0 on.                                                        *)
StateReadAll(good) ==
    LET n == Cardinality(Used(mem))
    IN  \E old \in [0 .. n - 1 -> Used(mem)] :
        /\ Range(old) = Used(mem)
        /\ \A i, j \in 0 .. n - 1 : i < j => old[i] < old[j]
        /\ mem' = IF ~good THEN Cleared
                  ELSE [Cleared EXCEPT
                    !.cell = [i \in Ids |->
                        IF i < n THEN [mem.cell[old[i]] EXCEPT !.src = i] ELSE NoCell],
                    !.used = n,
                    !.tail = [s \in Ids |->
                        LET holds == {i \in 0 .. n - 1 : s \in mem.cell[old[i]].seqs}
                        IN  IF holds = {} THEN None ELSE MinOf(holds)]]
        /\ state' = [i \in Ids |-> IF good /\ i < n THEN state[old[i]] ELSE Empty]
        /\ text' = IF good THEN text ELSE NoTexts
        /\ UNCHANGED saved

Clear(data) ==
    /\ mem' = Cleared
    /\ state' = IF data THEN NoTexts ELSE state
    /\ text' = NoTexts
    /\ UNCHANGED saved

SeqOps == \E s \in Ids :
    \/ \E p0 \in 0 .. MaxPos, p1 \in {1, End} : seq_rm(s, p0, p1)
    \/ \E t \in Ids : seq_cp(s, t)
    \/ seq_keep(s)
    \/ \E d \in {-1, 1} : seq_add(s, 0, End, d)
    \/ seq_div(s, 0, End, 2)

StateOps ==
    \/ \E s \in Ids : StateWriteSeq(s)
    \/ \E good \in BOOLEAN : StateReadAll(good) \/ \E s \in Ids : StateReadSeq(s, good)

Other == SeqOps \/ StateOps \/ (\E u \in Ubatches : DecodeFails(u))
            \/ \E data \in BOOLEAN : Clear(data)

Next ==
    /\ mem.ok     (* a failed assertion ends the process *)
    /\ \/ \E u \in Ubatches : Decode(u)
       \/ ops < MaxOps /\ ops' = ops + 1 /\ Other

Spec == Init /\ [][Next]_vars

-----------------------------------------------------------------------------
(***************************************************************************)
(* Properties.                                                             *)
(***************************************************************************)

Cells == [pos : -1 .. MaxPos, src : Ids \cup {None}, seqs : SUBSET Ids]
Memories == [cell : [Ids -> Cells], tail : [Ids -> Ids \cup {None}],
             head : Ids, used : 0 .. Size, ok : BOOLEAN]
States == [known : BOOLEAN, toks : Seq(Ids)]

(* The types of the cells, of the counters and of the states. *)
TypeOK ==
    /\ mem \in Memories
    /\ state \in [Ids -> States] /\ text \in [Ids -> States]
    /\ saved \in [pos : -1 .. MaxPos, state : States]
    /\ ops \in 0 .. MaxOps

(* The check that find_slot() makes in debug builds: tail says in which cell *)
(* a sequence is, and it is in no other.  And used counts the cells that     *)
(* have a sequence, which are those with a position: find_slot() starts from *)
(* the head or from the beginning by it.                                     *)
IndexesExact ==
    /\ TypeOK
    /\ \A s, i \in Ids : s \in mem.cell[i].seqs <=> mem.tail[s] = i
    /\ mem.used = Cardinality(Used(mem))
    /\ Used(mem) = {i \in Ids : mem.cell[i].pos >= 0}

(* The assertions of find_slot() hold: there is an empty cell for every      *)
(* sequence that needs one, "everything should fit if all seq_ids are        *)
(* smaller than the max", and a state to clear when one is needed.           *)
SlotsFound == mem.ok

(* The state st was computed from the tokens of tx, unless these were lost. *)
Agrees(st, tx) == tx.known => st.toks = tx.toks

(* Between two ubatches the state of each sequence was computed from exactly *)
(* the tokens that were decoded for it, in their order: wherever find_slot() *)
(* moved it, through copies, and whatever the cell held before.  Excepted    *)
(* are only the sequences in the range of a graph that failed, those that    *)
(* shared a token after they had diverged, and what is copied from these.    *)
(* How the state began is StateCleared.                                      *)
StateExact ==
    \A s \in Ids :
        LET t == mem.tail[s]
        IN  IF t = None THEN text[s] = Empty ELSE Agrees(state[t], text[s])

(* The tokens of a new sequence are added to a cleared state.  This is not   *)
(* so after a graph has failed: the empty cells of its range say that their  *)
(* state is in place ("avoid moving or clearing twice"), and a sequence that *)
(* had nothing to do with the failure goes on from what was left in one.     *)
StateCleared ==
    \A s \in Ids : mem.tail[s] # None /\ text[s].known => state[mem.tail[s]].known
=============================================================================
