----------------------------- MODULE DynTallocr -----------------------------
(***************************************************************************)
(* struct ggml_dyn_tallocr of ggml/src/ggml-alloc.c: the allocator that     *)
(* plans where the tensors of a graph go in one buffer.  It keeps a list of *)
(* free blocks, sorted by offset, and how much of the buffer was ever used. *)
(*                                                                         *)
(* The operators are the functions of the code, on a record                 *)
(*     [blocks : Seq([offset : Nat, size : Nat]), max_size : Nat]           *)
(***************************************************************************)
EXTENDS Integers, Sequences, FiniteSets, Folds, Functions, SequencesExt

CONSTANTS
    Alignment,   (* of the buffer type                                     *)
    Half,        (* SIZE_MAX / 2, the size of the block to start with      *)
    MaxFreeBlocks

ASSUME TallocrAssumption ==
    Alignment \in Nat \ {0} /\ Half \in Nat \ {0} /\ MaxFreeBlocks \in Nat \ {0}

aligned(size) == ((size + Alignment - 1) \div Alignment) * Alignment

tallocr_reset == [blocks |-> <<[offset |-> 0, size |-> Half]>>, max_size |-> 0]

(* The smallest block that is large enough, the later one of two; the last  *)
(* block, which has no end, only when no other is.                          *)
Fitting(a, size) ==
    {i \in 1 .. Len(a.blocks) - 1 : a.blocks[i].size >= size}
BestFit(a, size) ==
    IF Fitting(a, size) = {} THEN Len(a.blocks)
    ELSE CHOOSE i \in Fitting(a, size) : \A j \in Fitting(a, size) :
            \/ a.blocks[i].size < a.blocks[j].size
            \/ a.blocks[i].size = a.blocks[j].size /\ i >= j

(* "not enough space in the buffer": no block is large enough. *)
OutOfSpace(a, size) ==
    /\ Fitting(a, aligned(size)) = {}
    /\ a.blocks = <<>> \/ a.blocks[Len(a.blocks)].size < aligned(size)

(* ggml_dyn_tallocr_alloc: the start of the block.  The block that is used  *)
(* up goes.                                                                 *)
alloc_offset(a, size) == a.blocks[BestFit(a, aligned(size))].offset
tallocr_alloc(a, size) ==
    LET n     == aligned(size)
        i     == BestFit(a, n)
        block == a.blocks[i]
        end   == block.offset + n
    IN  [blocks   |-> IF block.size = n THEN RemoveAt(a.blocks, i)
                      ELSE [a.blocks EXCEPT ![i] =
                                [offset |-> end, size |-> block.size - n]],
         max_size |-> IF end > a.max_size THEN end ELSE a.max_size]

(* ggml_dyn_tallocr_free_tensor: merged with the first block that it        *)
(* touches, and that one with its neighbour on the other side; or inserted  *)
(* in the order of the offsets.                                             *)
End(b) == b.offset + b.size
Touching(a, offset, n) ==
    {i \in DOMAIN a.blocks : End(a.blocks[i]) = offset
                             \/ offset + n = a.blocks[i].offset}
First(S) == CHOOSE i \in S : \A j \in S : i <= j

Grown(bs, i, offset, n) ==
    [bs EXCEPT ![i] = [offset |-> IF @.offset < offset THEN @.offset ELSE offset,
                       size |-> @.size + n]]
MergedWithNext_Never(bs, i) == bs
MergedWithNext(bs, i) ==
    IF i >= 1 /\ i < Len(bs) /\ End(bs[i]) = bs[i + 1].offset
    THEN RemoveAt([bs EXCEPT ![i].size = @ + bs[i + 1].size], i + 1)
    ELSE bs
InsertPos(a, offset) ==
    First({i \in 1 .. Len(a.blocks) + 1 :
              i <= Len(a.blocks) => a.blocks[i].offset >= offset})

(* "out of free blocks" *)
OutOfBlocks(a, offset, size) ==
    Touching(a, offset, aligned(size)) = {} /\ Len(a.blocks) >= MaxFreeBlocks

tallocr_free(a, offset, size) ==
    LET n == aligned(size)
        T == Touching(a, offset, n)
        i == First(T)
        atEnd == End(a.blocks[i]) = offset
    IN  [a EXCEPT !.blocks =
            IF T = {}
            THEN InsertAt(@, InsertPos(a, offset), [offset |-> offset, size |-> n])
            ELSE MergedWithNext(Grown(@, i, offset, n), IF atEnd THEN i ELSE i - 1)]
=============================================================================
