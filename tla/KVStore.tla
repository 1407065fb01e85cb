------------------------------- MODULE KVStore ------------------------------
(***************************************************************************)
(* What the memory of a context promises the user of include/llama.h: a    *)
(* set of entries, each a token whose K and V data are stored, at a        *)
(* position, in a set of sequences.  No cells, no slots, no pending shifts *)
(* and no defragmentation: those are steps that change nothing here.       *)
(***************************************************************************)
EXTENDS Integers, Sequences

CONSTANTS
    Seqs,             (* sequence ids                                      *)
    Ranges,           (* the pairs <<p0, p1>> that callers pass, -1 = open *)
    Deltas, Divisors, (* the arguments of seq_add and seq_div              *)
    Window(_, _)      (* Window(p, q): position p is out of the attention  *)
                      (* window of a token at position q                   *)

VARIABLES
    store,
    due,     (* the entries of a batch that was accepted and is not stored *)
             (* yet, ubatch by ubatch                                      *)
    op       (* the call that was answered last                            *)

In(e, r)  == e.pos >= r[1] /\ (r[2] < 0 \/ e.pos < r[2])
At(s)     == {e.pos : e \in {x \in store : s \in x.seqs}}
Top(s)    == IF At(s) = {} THEN -1
             ELSE CHOOSE p \in At(s) : \A q \in At(s) : q <= p

After(e) == \A s \in e.seqs : e.pos > Top(s)

(* No batch is being computed, before the call or after it. *)
Idle == due = <<>> /\ due' = <<>>

Init == store = {} /\ due = <<>> /\ op = "clear"

Clear == Idle /\ op' = "clear" /\ store' = {}

(* Calls that leave the memory as it is: an update (pending shifts and        *)
(* defragmentation), and a batch that is invalid or finds no slot.            *)
Quiet == Idle /\ op' \in {"update", "full", "invalid"} /\ UNCHANGED store

(* A batch is accepted; its tokens come after the last position of each of    *)
(* their sequences.  Nothing is stored yet.                                   *)
Accept == /\ due = <<>> /\ op' = "update" /\ UNCHANGED store
          /\ \A k \in DOMAIN due' : \A e \in due'[k] : After(e)

(* The tokens of the next ubatch are stored, those and no others, after what  *)
(* their sequences hold.  Entries of a single sequence that its next token    *)
(* can not attend to any more may be forgotten on the way.                    *)
Extend ==
    /\ due # <<>> /\ due' = Tail(due) /\ op' = "decode"
    /\ \A e \in Head(due) : After(e)
    /\ Head(due) \subseteq store' /\ store' \subseteq store \cup Head(due)
    /\ \A e \in store \ store' : \E s \in Seqs : /\ s \in e.seqs
                                                /\ Window(e.pos, Top(s)' + 1)

(* An ubatch fails: it leaves nothing behind, and the rest is not computed.   *)
Fail == due # <<>> /\ due' = <<>> /\ op' = "failed" /\ UNCHANGED store

SeqRm(s, r) ==
    /\ Idle /\ op' = "seq_rm"
    /\ store' = {e \in {[x EXCEPT !.seqs = IF In(x, r) THEN @ \ {s} ELSE @]
                            : x \in store} : e.seqs # {}}

SeqCp(src, dst, r) ==
    /\ Idle /\ op' = "seq_cp"
    /\ store' = {[e EXCEPT !.seqs = IF src \in @ /\ In(e, r) THEN @ \cup {dst} ELSE @]
                    : e \in store}

SeqKeep(s) ==
    /\ Idle /\ op' = "seq_keep"
    /\ store' = {[e EXCEPT !.seqs = {s}] : e \in {x \in store : s \in x.seqs}}

(* The entry moves in all its sequences; below zero it is dropped. *)
SeqAdd(s, r, d) ==
    /\ Idle /\ op' = "seq_add"
    /\ store' = {e \in {[x EXCEPT !.pos = IF s \in x.seqs /\ In(x, r) THEN @ + d ELSE @]
                            : x \in store} : e.pos >= 0}

SeqDiv(s, r, d) ==
    /\ Idle /\ op' = "seq_div"
    /\ store' = {[e EXCEPT !.pos = IF s \in e.seqs /\ In(e, r) THEN @ \div d ELSE @]
                    : e \in store}

Next ==
    \/ Clear
    \/ Quiet
    \/ Accept
    \/ Extend
    \/ Fail
    \/ \E s \in Seqs :
         \/ SeqKeep(s)
         \/ \E r \in Ranges : \/ SeqRm(s, r)
                              \/ \E t \in Seqs : SeqCp(s, t, r)
                              \/ \E d \in Deltas   : SeqAdd(s, r, d)
                              \/ \E d \in Divisors : SeqDiv(s, r, d)

Spec == Init /\ [][Next]_<<store, due, op>>

=============================================================================
