---------------------------- MODULE ServerSlots ----------------------------
(***************************************************************************)
(* server_context::update_slots() of tools/server/server.cpp: how the       *)
(* slots turn prompts and sampled tokens into batches, reuse what the       *)
(* memory of the context (the KV cache) still holds of an earlier prompt,   *)
(* shift a full context, speculate, and recover from a decode that fails.   *)
(*                                                                         *)
(* A slot keeps in cache_tokens what it believes the memory holds for its   *)
(* sequence; the next prompt is only computed from where it differs.  The   *)
(* memory is modelled by what it promises (KVStore): the tokens at the      *)
(* positions of each sequence.  llama_decode stores the tokens, finds no    *)
(* room, fails, or refuses a batch that does not continue the sequence.     *)
(* With a sliding window it may forget what is behind it.                   *)
(*                                                                         *)
(* The main thread runs all of this; each step is one slot in one of the    *)
(* loops of update_slots().                                                 *)
(***************************************************************************)
EXTENDS Integers, Sequences, FiniteSets, Folds, Functions, SequencesExt

CONSTANTS
    Toks,        (* tokens                                                  *)
    NCtx,        (* n_ctx of a slot                                         *)
    NBatch,      (* llama_n_batch and llama_n_ubatch                        *)
    AddBos,      (* add_bos_token, 0 or 1                                   *)
    Requests,    (* the tasks that may be launched                          *)
    Configs,     (* the command lines the server may have been started with *)
    MaxLaunches, (* bound: how many tasks one slot is given; with n slots,  *)
                 (* n - 1 fewer in all                                      *)
    MaxFailures  (* bound: how often llama_decode finds no room or fails    *)

(* A task; lora stands for the adapters that it uses. *)
Request == [type : {"completion", "embedding"}, prompt : Seq(Toks),
            cache_prompt : BOOLEAN, lora : Nat, n_predict : Nat,
            n_keep : Int]

(* The number of slots, ctx_shift, n_cache_reuse and the draft length are    *)
(* options; whether the memory can remove a part of a sequence, and its      *)
(* window, depend on the model.  A memory that can not (a recurrent one)     *)
(* would keep in its state what a context shift discards: not modelled.      *)
Config == {c \in [n_parallel : Nat \ {0}, ctx_shift : BOOLEAN, n_cache_reuse : Nat,
                  n_draft : Nat, partial_rm : BOOLEAN, n_swa : Nat] :
              c.ctx_shift => c.partial_rm}

ASSUME SlotsAssumption ==
    /\ NCtx \in Nat /\ NCtx >= 4 /\ NBatch \in Nat \ {0}
    /\ AddBos \in {0, 1} /\ MaxLaunches \in Nat /\ MaxFailures \in Nat
    /\ \A r \in Requests : r \in Request
    /\ \A c \in Configs : c \in Config

VARIABLES
    config,    (* the command line                                          *)
    slot,      (* [Slots -> server_slot]                                    *)
    mem,       (* [Slots -> position -> token], the memory of the context   *)
    saved,     (* the file that slot save wrote                             *)
    clean,     (* clean_kv_cache                                            *)
    phase, at, (* where update_slots is, and the slot it is at              *)
    batch,     (* the batch: token, position, sequence                      *)
    batched,   (* slot_batched, 0 for none                                  *)
    head, n_batch, (* i of the loop over the batch, and its n_batch         *)
    tainted,   (* history: slots whose tokens did not all reach the memory  *)
    launches, fails

Slots == 1 .. config.n_parallel
loop  == <<phase, at, batch, batched, head, n_batch>>
bound == <<launches, fails>>
vars  == <<config, slot, mem, saved, clean, loop, tainted, bound>>

Min2(a, b) == IF a <= b THEN a ELSE b
Max2(a, b) == IF a >= b THEN a ELSE b

(***************************************************************************)
(* The memory of a sequence: llama_memory_seq_rm, _seq_add, _seq_pos_min.  *)
(***************************************************************************)
Empty == <<>>
Positions(m) == DOMAIN m
seq_rm(m, p0, p1) == Restrict(m, {p \in Positions(m) : p < p0 \/ p >= p1})
seq_add(m, p0, p1, d) ==
    LET moved == {p \in Positions(m) : p0 <= p /\ p < p1}
        kept  == Positions(m) \ moved
    IN  [q \in kept \cup {p + d : p \in moved} |->
            IF q - d \in moved THEN m[q - d] ELSE m[q]]
pos_min(m) == IF Positions(m) = {} THEN -1
              ELSE CHOOSE p \in Positions(m) : \A q \in Positions(m) : p <= q
pos_max(m) == IF Positions(m) = {} THEN -1
              ELSE CHOOSE p \in Positions(m) : \A q \in Positions(m) : p >= q
End == 1000000   (* p1 = -1: to the end *)

(* The positions that a token at position n attends to, before itself. *)
WindowStart(n) == IF config.n_swa = 0 THEN 0 ELSE Max2(0, n - config.n_swa + 1)

(***************************************************************************)
(* server_slot                                                             *)
(***************************************************************************)
NoRequest == [type |-> "completion", prompt |-> <<>>, cache_prompt |-> TRUE,
              lora |-> 0, n_predict |-> 0, n_keep |-> 0]
IdleSlot == [state |-> "idle", params |-> NoRequest, prompt |-> <<>>,
             n_past |-> 0, cache |-> <<>>, lora |-> 0, sampled |-> <<>>,
             n_decoded |-> 0,
             text |-> <<>>]  (* history: what the memory is meant to hold,  *)
                             (* and the token that was sampled last         *)

is_processing(s) == slot[s].state # "idle"
can_split(s) == slot[s].params.type = "completion"
can_batch_with(s, t) == /\ slot[s].params.type = slot[t].params.type
                        /\ slot[s].lora = slot[t].lora

(* release(): the slot keeps its cache_tokens, and the memory its tokens;   *)
(* task_type and adapters stay for can_batch_with.  What only the next      *)
(* launch overwrites is forgotten at once.                                  *)
Released(sl) == [IdleSlot EXCEPT !.cache = sl.cache, !.lora = sl.lora,
                                 !.params.type = sl.params.type]

Init ==
    /\ config \in Configs
    /\ slot = [s \in Slots |-> IdleSlot]
    /\ mem = [s \in Slots |-> Empty]
    /\ saved = [cache |-> <<>>, mem |-> Empty, ok |-> TRUE]
    /\ clean = TRUE
    /\ phase = "tasks" /\ at = 1
    /\ batch = <<>> /\ batched = 0 /\ head = 0 /\ n_batch = NBatch
    /\ tainted = {} /\ launches = 0 /\ fails = 0

(***************************************************************************)
(* Tasks, between two calls of update_slots(): the slot side of            *)
(* process_single_task().                                                  *)
(***************************************************************************)
Tasks(s) == phase = "tasks" /\ ~is_processing(s)

(* launch_slot_with_task: other adapters make the cached tokens useless. *)
Launch(s) ==
    /\ Tasks(s)
    /\ launches + config.n_parallel <= MaxLaunches
    /\ \E r \in Requests :
          slot' = [slot EXCEPT ![s] =
                    [IdleSlot EXCEPT
                        !.state = "started", !.params = r, !.prompt = r.prompt,
                        !.lora = r.lora,
                        !.cache = IF r.lora = slot[s].lora
                                  THEN slot[s].cache ELSE <<>>]]
    /\ launches' = launches + 1
    /\ UNCHANGED <<config, mem, saved, clean, loop, tainted, fails>>

(* The client has gone: SERVER_TASK_TYPE_CANCEL *)
CancelSlot(s) ==
    /\ phase = "tasks"
    /\ is_processing(s)
    /\ slot' = [slot EXCEPT ![s] = Released(@)]
    /\ UNCHANGED <<config, mem, saved, clean, loop, tainted, bound>>

SlotSave(s) ==
    /\ Tasks(s)
    /\ saved' = [cache |-> slot[s].cache, mem |-> mem[s], ok |-> s \notin tainted]
    /\ UNCHANGED <<config, slot, mem, clean, loop, tainted, bound>>

(* A restore that fails has left the memory alone or has emptied it. *)
SlotRestore(s) ==
    /\ Tasks(s)
    /\ \/ /\ slot' = [slot EXCEPT ![s].cache = saved.cache]
          /\ mem' = [mem EXCEPT ![s] = saved.mem]
          /\ tainted' = IF saved.ok THEN tainted \ {s} ELSE tainted \cup {s}
       \/ /\ slot' = [slot EXCEPT ![s].cache = <<>>]
          /\ \E m \in {mem[s], Empty} : mem' = [mem EXCEPT ![s] = m]
          /\ UNCHANGED tainted
    /\ UNCHANGED <<config, saved, clean, loop, bound>>

SlotErase(s) ==
    /\ Tasks(s)
    /\ slot' = [slot EXCEPT ![s].cache = <<>>]
    /\ mem' = [mem EXCEPT ![s] = Empty]
    /\ tainted' = tainted \ {s}
    /\ UNCHANGED <<config, saved, clean, loop, bound>>

(***************************************************************************)
(* update_slots()                                                          *)
(***************************************************************************)

(* All slots are idle.  The first time that this happens the whole memory   *)
(* is cleared; the cache_tokens of the slots are not.                       *)
UpdateIdle ==
    /\ phase = "tasks"
    /\ clean
    /\ \A s \in Slots : ~is_processing(s)
    /\ mem' = [s \in Slots |-> Empty]
    /\ clean' = FALSE
    /\ tainted' = tainted \cup {s \in Slots : slot[s].cache # <<>>}
    /\ UNCHANGED <<config, slot, saved, loop, bound>>

UpdateBegin ==
    /\ phase = "tasks"
    /\ \E s \in Slots : is_processing(s)
    /\ phase' = "shift" /\ at' = 1
    /\ UNCHANGED <<config, slot, mem, saved, clean, batch, batched, head,
                   n_batch, tainted, bound>>

(* The next slot of a loop over all slots, or the first of the next loop. *)
NextSlot(following) ==
    IF at < config.n_parallel THEN phase' = phase /\ at' = at + 1
                   ELSE phase' = following /\ at' = 1

(* Context shift: the tokens after n_keep lose their older half.  When it   *)
(* is disabled the code says "we should never get here": BatchesAccepted.   *)
NDiscard(sl) == (sl.n_past - (sl.params.n_keep + AddBos)) \div 2
Discard(ts, keep, n) == SubSeq(ts, 1, keep) \o SubSeq(ts, keep + n + 1, Len(ts))

MustShift(s) == is_processing(s) /\ slot[s].n_past + 1 >= NCtx
ShiftMemory_NoAdd(m, sl, keep, n) == seq_rm(m, keep, keep + n)
ShiftMemory(m, sl, keep, n) ==
    seq_add(seq_rm(m, keep, keep + n), keep + n, sl.n_past, -n)

ContextShift ==
    LET s    == at
        sl   == slot[s]
        keep == sl.params.n_keep + AddBos
        n    == NDiscard(sl)
    IN  /\ phase = "shift"
        /\ \/ /\ ~MustShift(s)
              /\ UNCHANGED <<slot, mem>>
           \/ /\ MustShift(s) /\ config.ctx_shift
              /\ mem' = [mem EXCEPT ![s] = ShiftMemory(@, sl, keep, n)]
              /\ slot' = [slot EXCEPT ![s] =
                    [sl EXCEPT !.cache = Discard(@, keep, n),
                               !.text = Discard(@, keep, n),
                               !.n_past = @ - n]]
        /\ NextSlot("sampled")
        /\ UNCHANGED <<config, saved, clean, batch, batched, head, n_batch,
                       tainted, bound>>

(* A slot is added to the batch if it can be batched with the first one. *)
FitsBatch(s) == IF batched = 0 THEN TRUE ELSE can_batch_with(batched, s)
Token(tok, pos, s) == [tok |-> tok, pos |-> pos, seq |-> s]

AddSampled ==
    LET s  == at
        sl == slot[s]
    IN  /\ phase = "sampled"
        /\ IF sl.state = "generating" /\ FitsBatch(s)
           THEN /\ batch' = Append(batch, Token(sl.sampled, sl.n_past, s))
                /\ batched' = IF batched = 0 THEN s ELSE batched
                /\ slot' = [slot EXCEPT ![s] =
                        [sl EXCEPT !.n_past = @ + 1,
                                   !.cache = Append(@, sl.sampled)]]
           ELSE UNCHANGED <<batch, batched, slot>>
        /\ NextSlot("prompts")
        /\ UNCHANGED <<config, mem, saved, clean, head, n_batch, tainted, bound>>

(* A prompt that is too long keeps its first n_keep tokens and its end. *)
Truncated(p, keep) ==
    LET block  == (NCtx - keep) \div 2
        erased == (Len(p) - keep - block) \div block
    IN  SubSeq(p, 1, keep) \o SubSeq(p, keep + erased * block + 1, Len(p))

(* How many tokens of c from position i equal those of p from position j. *)
Matching(c, i, p, j) ==
    LET most == Min2(Len(c) - i, Len(p) - j)
        same(n) == \A k \in 1 .. n : c[i + k] = p[j + k]
    IN  CHOOSE n \in 0 .. most : same(n) /\ (n = most \/ ~same(n + 1))

(* The chunks of the cache, after the common prefix of n tokens, that the   *)
(* prompt has too, in this order: they are long enough to be moved.         *)
Chunks(c, p, n) ==
    LET from[i \in 0 .. Len(c), j \in 0 .. Len(p)] ==
            IF i = Len(c) \/ j = Len(p) THEN <<>>
            ELSE LET len == Matching(c, i, p, j)
                 IN  IF len >= config.n_cache_reuse
                     THEN <<[old |-> i, new |-> j, len |-> len]>>
                             \o from[i + len, j + len]
                     ELSE from[i + 1, j]
    IN  IF config.n_cache_reuse = 0 THEN <<>> ELSE from[n, n]

(* One chunk is moved: in the memory, and in the cache_tokens. *)
MoveChunk_Kept(st, ch) ==
    [cache  |-> [i \in DOMAIN st.cache |->
                    IF ch.new < i /\ i <= ch.new + ch.len
                    THEN st.cache[i - ch.new + ch.old] ELSE st.cache[i]],
     mem    |-> seq_rm(st.mem, ch.new, ch.old),
     n_past |-> st.n_past + ch.len]
MoveChunk(st, ch) ==
    [cache  |-> [i \in DOMAIN st.cache |->
                    IF ch.new < i /\ i <= ch.new + ch.len
                    THEN st.cache[i - ch.new + ch.old] ELSE st.cache[i]],
     mem    |-> seq_add(seq_rm(st.mem, ch.new, ch.old),
                        ch.old, ch.old + ch.len, ch.new - ch.old),
     n_past |-> st.n_past + ch.len]

(* What of the memory the prompt p of slot s can use.  A cache without the  *)
(* tokens just before n_past (the window has moved on) cannot be used.      *)
Reused(s, p) ==
    LET sl == slot[s]
        n  == Matching(sl.cache, 0, p, 0)
    IN  IF can_split(s) /\ sl.params.cache_prompt
        THEN FoldLeft(MoveChunk, [cache |-> sl.cache, mem |-> mem[s], n_past |-> n],
                      Chunks(sl.cache, p, n))
        ELSE [cache |-> sl.cache, mem |-> mem[s], n_past |-> 0]

(* pos_min == -1, but n_past > 0: GGML_ABORT, "should not happen" *)
Aborts(r) == 0 < r.n_past /\ r.n_past < Len(r.cache) /\ Positions(r.mem) = {}

WindowLost(r) ==
    /\ 0 < r.n_past /\ r.n_past < Len(r.cache)
    /\ pos_min(r.mem) > Max2(0, r.n_past - config.n_swa)

(* "need to evaluate at least 1 token for each active slot" *)
StartAt_All(p, n) == n
StartAt(p, n) == IF n = Len(p) /\ n > 0 THEN n - 1 ELSE n

(* The slot's prompt is refused, or there is nothing to do for it. *)
Refused(s) ==
    LET n == Len(slot[s].prompt)
    IN  \/ n = 0
        \/ ~can_split(s) /\ (n > NBatch \/ n > NCtx)
        \/ can_split(s) /\ ~config.ctx_shift /\ n >= NCtx

NKeep(sl) == Min2(NCtx - 4, IF sl.params.n_keep < 0 THEN Len(sl.prompt)
                                                    ELSE sl.params.n_keep)
NewPrompt(s) ==
    LET sl == slot[s]
    IN  IF can_split(s) /\ Len(sl.prompt) >= NCtx
        THEN Truncated(sl.prompt, NKeep(sl)) ELSE sl.prompt

(* llama_memory_seq_rm(n_past, -1); a memory that cannot remove a part of   *)
(* a sequence loses all of it, and there is no common part left.            *)
KeepFirst(m, n) ==
    IF config.partial_rm \/ n = 0 \/ pos_max(m) < n
    THEN [mem |-> seq_rm(m, n, End), n |-> n]
    ELSE [mem |-> Empty, n |-> 0]

(* The prompt of slot sl is added from n_past, as far as the batch goes. *)
Room == NBatch - Len(batch)
Batched(s, sl) ==
    LET n == Max2(0, Min2(Room, Len(sl.prompt) - sl.n_past))
    IN  [i \in 1 .. n |-> Token(sl.prompt[sl.n_past + i], sl.n_past + i - 1, s)]
Added(s, sl) ==
    LET new == Batched(s, sl)
        n   == sl.n_past + Len(new)
    IN  [sl EXCEPT !.cache = @ \o [i \in DOMAIN new |-> new[i].tok],
                   !.n_past = n,
                   !.state = IF n = Len(sl.prompt) THEN "done_prompt" ELSE "prompt"]

(* The slot is at a prompt: what is in hand before tokens are added. *)
Prepared(s) ==
    LET sl == slot[s]
        p  == NewPrompt(s)
        r  == Reused(s, p)
        n  == StartAt(p, IF WindowLost(r) THEN 0 ELSE r.n_past)
    IN  IF sl.state = "started"
        THEN [sl |-> [sl EXCEPT !.state = "prompt", !.prompt = p, !.text = p,
                                !.n_past = n, !.cache = r.cache,
                                !.params.n_keep = IF can_split(s) THEN NKeep(sl) ELSE @],
              mem |-> r.mem]
        ELSE [sl |-> sl, mem |-> mem[s]]

HasPrompt(s) == slot[s].state \in {"started", "prompt"} /\ FitsBatch(s)
PromptRefused(s) == slot[s].state = "started" /\ Refused(s)

(* After a slot the loop ends early when the batch is full, unless the      *)
(* slot's turn ended with continue.                                         *)
NextPrompt(continue, len) ==
    IF at < config.n_parallel /\ (continue \/ len < NBatch)
    THEN phase' = phase /\ at' = at + 1
    ELSE phase' = "decode" /\ at' = 1

BatchedWith(s) == IF batched = 0 /\ is_processing(s) THEN s ELSE batched

PromptNone ==
    /\ phase = "prompts"
    /\ ~HasPrompt(at)
    /\ batched' = BatchedWith(at)
    /\ NextPrompt(is_processing(at) /\ ~FitsBatch(at), Len(batch))
    /\ UNCHANGED <<config, slot, mem, saved, clean, batch, head, n_batch,
                   tainted, bound>>

PromptRelease ==
    /\ phase = "prompts"
    /\ HasPrompt(at)
    /\ PromptRefused(at)
    /\ batched' = BatchedWith(at)
    /\ slot' = [slot EXCEPT ![at] = Released(@)]
    /\ NextPrompt(TRUE, Len(batch))
    /\ UNCHANGED <<config, mem, saved, clean, batch, head, n_batch, tainted,
                   bound>>

PromptAborts ==
    /\ phase = "prompts"
    /\ HasPrompt(at)
    /\ ~PromptRefused(at)
    /\ slot[at].state = "started"
    /\ Aborts(Reused(at, NewPrompt(at)))
    /\ phase' = "aborted"
    /\ UNCHANGED <<config, slot, mem, saved, clean, at, batch, batched, head,
                   n_batch, tainted, bound>>

(* A slot whose memory is emptied is as good as new. *)
PromptAdd ==
    LET s == at
        p == Prepared(s)
        k == KeepFirst(p.mem, p.sl.n_past)
        sl == [p.sl EXCEPT !.n_past = k.n, !.cache = SubSeq(@, 1, k.n)]
        waits == ~can_split(s) /\ Len(batch) + Len(p.sl.prompt) > NBatch
    IN  /\ phase = "prompts"
        /\ HasPrompt(s)
        /\ ~PromptRefused(s)
        /\ slot[s].state = "started" => ~Aborts(Reused(s, NewPrompt(s)))
        /\ batched' = BatchedWith(s)
        /\ IF waits
           THEN /\ slot' = [slot EXCEPT ![s] = p.sl]
                /\ mem' = [mem EXCEPT ![s] = p.mem]
                /\ UNCHANGED <<batch, tainted>>
           ELSE /\ slot' = [slot EXCEPT ![s] = Added(s, sl)]
                /\ mem' = [mem EXCEPT ![s] = k.mem]
                /\ batch' = batch \o Batched(s, sl)
                /\ tainted' = IF k.n = 0 THEN tainted \ {s} ELSE tainted
        /\ NextPrompt(waits, Len(batch'))
        /\ UNCHANGED <<config, saved, clean, head, n_batch, bound>>

(***************************************************************************)
(* The loop over the batch.                                                *)
(***************************************************************************)
View == SubSeq(batch, head + 1, Min2(head + n_batch, Len(batch)))
Undecoded == {batch[i].seq : i \in head + 1 .. Len(batch)}
Stored(m, toks) == [s \in Slots |->
    LET mine == {i \in DOMAIN toks : toks[i].seq = s}
    IN  [p \in Positions(m[s]) \cup {toks[i].pos : i \in mine} |->
            IF \E i \in mine : toks[i].pos = p
            THEN toks[CHOOSE i \in mine : toks[i].pos = p].tok
            ELSE m[s][p]]]

(* llama_batch_allocr::init: a batch must continue the sequences   *)
(* that the memory holds, or llama_decode returns -1.                        *)
Consistent(m, toks) ==
    \A i \in DOMAIN toks :
        LET s == toks[i].seq
        IN  \/ pos_max(m[s]) = -1
            \/ \E j \in 1 .. i : toks[j].seq = s /\ toks[j].pos = pos_max(m[s]) + 1

(* The sliding window: the new tokens may be written over those    *)
(* that are n_swa behind the next token of their sequence, oldest first.     *)
Forgotten(m) == {q \in 0 .. NCtx : config.n_swa > 0
                                    /\ q <= pos_max(m) + 2 - config.n_swa}
Forget(m) == {f \in [Slots -> {m[s] : s \in Slots}
                        \cup {seq_rm(m[s], 0, q) : s \in Slots, q \in 0 .. NCtx}] :
                \A s \in Slots : \E q \in {0} \cup Forgotten(m[s]) :
                                    f[s] = seq_rm(m[s], 0, q)}

DecodeNone ==
    /\ phase = "decode"
    /\ head = Len(batch)
    /\ phase' = "tasks" /\ batch' = <<>> /\ batched' = 0 /\ head' = 0
    /\ UNCHANGED <<config, slot, mem, saved, clean, at, n_batch, tainted, bound>>

DecodeOK ==
    /\ phase = "decode"
    /\ View # <<>>
    /\ Consistent(mem, View)
    /\ mem' \in {Stored(f, View) : f \in Forget(mem)}
    /\ phase' = "sample" /\ at' = 1
    /\ UNCHANGED <<config, slot, saved, clean, batch, batched, head, n_batch,
                   tainted, bound>>

(* No room: the view is halved and tried again. *)
DecodeRetry ==
    /\ phase = "decode"
    /\ View # <<>>
    /\ Consistent(mem, View)
    /\ n_batch > 1
    /\ fails < MaxFailures
    /\ fails' = fails + 1
    /\ n_batch' = n_batch \div 2
    /\ UNCHANGED <<config, slot, mem, saved, clean, phase, at, batch, batched,
                   head, tainted, launches>>

(* An error: every slot is released.  Some tokens of the view may have been  *)
(* stored when the computation failed, none when there was no room for one   *)
(* token or the batch was refused.                                           *)
DecodeFails ==
    /\ phase = "decode"
    /\ View # <<>>
    /\ \/ /\ Consistent(mem, View)
          /\ fails < MaxFailures
          /\ fails' = fails + 1
          /\ \E k \in 0 .. Len(View) - 1 : mem' = Stored(mem, SubSeq(View, 1, k))
       \/ /\ ~Consistent(mem, View)
          /\ UNCHANGED <<fails, mem>>
    /\ slot' = [s \in Slots |-> IF is_processing(s) THEN Released(slot[s])
                                                    ELSE slot[s]]
    /\ tainted' = tainted \cup Undecoded
    /\ phase' = "tasks" /\ batch' = <<>> /\ batched' = 0 /\ head' = 0
    /\ n_batch' = NBatch
    /\ UNCHANGED <<config, saved, clean, at, launches>>

(* Slot s has its output in the view: its last token is there. *)
HasOutput(s) ==
    /\ slot[s].state \in {"done_prompt", "generating"}
    /\ \E i \in DOMAIN View : View[i].seq = s
    /\ \A i \in head + Len(View) + 1 .. Len(batch) : batch[i].seq # s

(* process_token: the slot must stop when its budget or the context is used *)
(* up, and may stop at any token (end of generation, stop word).            *)
MustStop(sl) ==
    \/ ~config.ctx_shift /\ sl.n_past + 1 >= NCtx
    \/ sl.n_decoded >= sl.params.n_predict
    \/ sl.n_past >= NCtx

Sample ==
    LET s  == at
        sl == slot[s]
    IN  /\ phase = "sample"
        /\ \/ /\ ~HasOutput(s)
              /\ UNCHANGED slot
           \/ /\ HasOutput(s)
              /\ ~can_split(s)     (* the embedding is sent *)
              /\ slot' = [slot EXCEPT ![s] = Released(@)]
           \/ /\ HasOutput(s)
              /\ can_split(s)
              /\ \E tok \in Toks, stop \in BOOLEAN :
                    LET new == [sl EXCEPT !.state = "generating", !.sampled = tok,
                                          !.n_decoded = @ + 1,
                                          !.text = Append(@, tok)]
                    IN  /\ MustStop(new) => stop
                        /\ slot' = [slot EXCEPT ![s] =
                                        IF stop THEN Released(new) ELSE new]
        /\ NextSlot("speculate")
        /\ UNCHANGED <<config, mem, saved, clean, batch, batched, head, n_batch,
                       tainted, bound>>

(***************************************************************************)
(* Speculative decoding: the sampled token and a draft are decoded, and the  *)
(* tokens of the draft up to the first that differs from what is sampled     *)
(* are accepted, with that one.  The outcome of llama_decode is ignored.     *)
(* The loop does not ask whether the slot has sampled in this view.          *)
(***************************************************************************)
MaxDraft(sl) ==
    Min2(Min2(config.n_draft, NCtx - sl.n_past - 2),
         sl.params.n_predict - sl.n_decoded - 1)
CanSpeculate(s) ==
    /\ slot[s].state = "generating"
    /\ slot[s].params.cache_prompt
    /\ config.n_draft > 0
    /\ MaxDraft(slot[s]) >= 0     (* speculative.n_min is 0 by default *)

(* The slot that has decoded its sampled token and a draft, of which ids[1]  *)
(* .. ids[k] were accepted.                                                  *)
SpecBatch(s, draft) ==
    [i \in 1 .. Len(draft) + 1 |->
        Token(IF i = 1 THEN slot[s].sampled ELSE draft[i - 1],
              slot[s].n_past + i - 1, s)]
Accepted_Last(sl, ids) ==
    [sl EXCEPT !.n_past = @ + Len(ids), !.n_decoded = @ + Len(ids),
               !.sampled = Last(ids),
               !.cache = Append(@, sl.sampled) \o ids,
               !.text = @ \o ids]
Accepted(sl, ids) ==
    [sl EXCEPT !.n_past = @ + Len(ids), !.n_decoded = @ + Len(ids),
               !.sampled = Last(ids),
               !.cache = Append(@, sl.sampled) \o Front(ids),
               !.text = @ \o ids]
KeepAccepted(m, n) == seq_rm(m, n, End)

NextSpeculation ==
    IF at < config.n_parallel THEN at' = at + 1 /\ UNCHANGED <<phase, head, n_batch>>
    ELSE /\ phase' = "decode" /\ at' = 1
         /\ head' = head + Len(View) /\ n_batch' = NBatch

Speculate ==
    LET s == at
    IN  /\ phase = "speculate"
        /\ CanSpeculate(s)
        /\ \E d \in 0 .. MaxDraft(slot[s]) :
           \E draft \in [1 .. d -> Toks], k \in 0 .. d, tok \in Toks,
              stop \in BOOLEAN, ok \in BOOLEAN, f \in Forget(mem) :
              LET toks == SpecBatch(s, draft)
                  new  == Accepted(slot[s], Append(SubSeq(draft, 1, k), tok))
                  m    == IF ok THEN Stored(f, toks) ELSE mem
              IN  /\ k < d => tok # draft[k + 1]
                  /\ MustStop(new) => stop
                  /\ ok => Consistent(mem, toks)
                  /\ IF ok \/ ~Consistent(mem, toks) THEN UNCHANGED fails
                     ELSE fails < MaxFailures /\ fails' = fails + 1
                  /\ slot' = [slot EXCEPT ![s] = IF stop THEN Released(new) ELSE new]
                  /\ mem' = [m EXCEPT ![s] = KeepAccepted(@, new.n_past)]
                  /\ tainted' = IF ok THEN tainted ELSE tainted \cup {s}
        /\ NextSpeculation
        /\ UNCHANGED <<config, saved, clean, batch, batched, launches>>

SpeculateNot ==
    /\ phase = "speculate"
    /\ ~CanSpeculate(at)
    /\ NextSpeculation
    /\ UNCHANGED <<config, slot, mem, saved, clean, batch, batched, tainted,
                   bound>>

TaskStep == \E s \in Slots :
    Launch(s) \/ CancelSlot(s) \/ SlotSave(s) \/ SlotRestore(s) \/ SlotErase(s)

UpdateStep ==
    \/ UpdateIdle \/ UpdateBegin \/ ContextShift \/ AddSampled
    \/ PromptNone \/ PromptRelease \/ PromptAborts \/ PromptAdd
    \/ DecodeNone \/ DecodeOK \/ DecodeRetry \/ DecodeFails
    \/ Sample \/ Speculate \/ SpeculateNot

Next == TaskStep \/ UpdateStep

Spec == Init /\ [][Next]_vars

-----------------------------------------------------------------------------
(***************************************************************************)
(* Properties.                                                             *)
(***************************************************************************)

(* The types of the slots, the memory, the batch and the loops. *)
TypeOK ==
    /\ config \in Configs
    /\ \A s \in Slots :
          /\ slot[s].state \in {"idle", "started", "prompt", "done_prompt",
                                "generating"}
          /\ slot[s].n_past \in 0 .. NCtx
          /\ \A ts \in {slot[s].cache, slot[s].prompt, slot[s].text} :
                ts \in Seq(Toks)
          /\ Len(slot[s].cache) <= NCtx
          /\ Positions(mem[s]) \subseteq 0 .. NCtx - 1
    /\ phase \in {"tasks", "shift", "sampled", "prompts", "decode", "sample",
                  "speculate", "aborted"}
    /\ at \in Slots /\ batched \in {0} \cup Slots
    /\ head \in 0 .. Len(batch) /\ n_batch \in 1 .. NBatch
    /\ tainted \subseteq Slots /\ clean \in BOOLEAN

(* From start on, the memory m holds the first n of the tokens ts. *)
Holds(m, ts, start, n) ==
    \A p \in start .. n - 1 : p \in Positions(m) /\ m[p] = ts[p + 1]

(* cache_tokens is what the next prompt is compared with: between two       *)
(* updates the memory really holds these tokens for the slot, at these      *)
(* positions (those in the window, if there is one), unless a decode has    *)
(* failed or the memory was cleared under the slot.                         *)
CacheInMemory ==
    \A s \in Slots \ tainted :
        phase = "tasks" =>
            Holds(mem[s], slot[s].cache, WindowStart(Len(slot[s].cache)),
                  Len(slot[s].cache))

(* A token is only sampled from the whole context: when slot s samples, the *)
(* memory holds the prompt (truncated, reused, moved or computed in several *)
(* batches) and every token generated so far, in order, and nothing after,  *)
(* unless a decode of its tokens has failed or the memory was cleared under *)
(* the slot.  With a window, what is in it (one slot: a second one may take *)
(* the cells of the first).                                                 *)
ContextComplete ==
    \A s \in Slots \ tainted :
        phase = "sample" /\ at = s /\ HasOutput(s) =>
            /\ slot[s].n_past = Len(slot[s].text)
            /\ Holds(mem[s], slot[s].text, WindowStart(slot[s].n_past - 1),
                     slot[s].n_past)
            /\ \A p \in Positions(mem[s]) : p < slot[s].n_past

(* The sampled token of slot s is in a view that is still to be decoded. *)
Later(s) == \E i \in head + Len(View) + 1 .. Len(batch) : batch[i].seq = s

(* llama_decode refuses no token of a slot, in a batch or in a draft, and   *)
(* the GGML_ABORT for a cached prompt without memory is not met, unless an  *)
(* earlier decode of that slot has failed or the memory was cleared under   *)
(* it; and but for a draft of a slot whose own token is yet to be decoded   *)
(* (that one is refused, and what is sampled then is of no use).  The       *)
(* context is shifted in time and a prompt truncated enough: n_past stays   *)
(* below the context.  Without context shift a slot has stopped before its  *)
(* context is full: "we should never get here, because generation should    *)
(* already stopped in process_token()".                                     *)
BatchesAccepted ==
    /\ phase = "decode" => Consistent(mem, SelectSeq(View, LAMBDA t : t.seq \notin tainted))
    /\ phase = "speculate" /\ CanSpeculate(at) /\ at \notin tainted /\ ~Later(at)
            => Consistent(mem, SpecBatch(at, <<>>))
    /\ phase = "aborted" => at \in tainted
    /\ \A s \in Slots : slot[s].n_past < NCtx
    /\ ~config.ctx_shift /\ phase = "shift" => ~MustShift(at)

(* No draft is refused at all: TLC refutes it. *)
DraftsAccepted ==
    phase = "speculate" /\ CanSpeculate(at) /\ at \notin tainted
        => Consistent(mem, SpecBatch(at, <<>>))

(* "pos_min == -1, but n_past > 0 - should not happen" *)
NeverAborts == phase # "aborted"

(* No update is wasted: when nothing is to be decoded, there is no slot with *)
(* a task left, or the slot that the others had to be batched with was       *)
(* released in this update.  So the server never turns round with an empty  *)
(* batch, whatever the sizes of the prompt, batch and context are.           *)
UpdatesProgress ==
    phase = "decode" /\ batch = <<>> =>
        \/ \A s \in Slots : ~is_processing(s)
        \/ batched # 0 /\ ~is_processing(batched)
=============================================================================
