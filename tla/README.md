# Verification of llama.cpp's stateful core

TLA+ modules, TLC configurations and TLAPS proofs for the parts of the
repository whose correctness depends on *sequences of steps*: threads that
interleave, metadata that is kept incrementally, work that is placed on trial
and rolled back. Paths below are relative to the repository's root. Line
numbers for every definition are in `PROJECT.json` under `map`.

## 1. Inventory

llama.cpp is a C/C++ inference engine: `ggml` (tensors, graphs, backends),
`libllama` (models, context, memory, sampling), `common` (helpers of the
programs) and `tools` (the HTTP server and command-line programs).

| Component | State | Operations | Talks to | What is hard |
|---|---|---|---|---|
| Thread pool, `ggml/src/ggml-cpu/ggml-cpu.c` | `n_graph`, `n_threads_cur`, `n_barrier`, `n_barrier_passed`, `current_chunk`, `abort`, `pause`, `stop`; `last_graph` per worker | compute, kickoff, pause, resume, free; worker loop | context (compute), user's abort callback | atomics read outside of the mutex, spinning barrier reused at once, sleep against wake-up |
| KV cells, `src/llama-kv-cells.h` | `pos`, `shift`, `seq` per cell; indexes `used`, `seq_pos`, `has_shift` | `mv`, `cp`/`set`, `rm`, `seq_rm`, `seq_keep`, `seq_add`, `pos_set`, `pos_add`, `pos_div`, `reset`, `reset_shift` | KV cache | indexes updated by increments in nine methods |
| Unified KV cache, `src/llama-kv-cache-unified.cpp` | cells, `head`, K and V buffers | `clear`, `seq_*`, `prepare`, `find_slot`, `apply_ubatch`, `update` (K-shift, defragmentation) | cells, context, graphs | trial placement and restore, lazily applied shifts, interrupted defragmentation, sliding windows |
| Context, `src/llama-context.cpp` | memory, pending updates, outputs | `decode`, `encode`, `kv_self_update`, `synchronize` | memory, scheduler | an ubatch fails or is aborted after its metadata is committed; retry after defragmentation |
| Batch allocation, `src/llama-batch.cpp` | positions and sequence sets of a batch | `init`, `split_simple`, `split_equal`, `split_seq` | memory (`seq_pos_min/max`) | consistency of generated and given positions |
| Log, `common/log.cpp` | ring of entries, `head`, `tail`, `running`, file, colours | `add`, `pause`, `resume`, `set_*`, destructor; worker thread | every thread | full ring, expansion, end-of-stream entry, worker reading outside of the mutex |
| Server, `tools/server/server.cpp` | task queue, deferred queue, results, waiting ids, slots | `post`, `defer`, `pop_deferred_task`, `start_loop`, `recv`, `send`, `cancel`, `update_slots` | HTTP threads, context | cancellation against results, deferral, termination, failed batches |
| Graph allocator, `ggml/src/ggml-alloc.c` | free blocks, offsets and sizes planned, children and views per tensor, buffer | `reserve`, `alloc_graph`, `needs_realloc`; `ggml_dyn_tallocr` alloc, free | scheduler, backends | overlapping lifetimes, in-place operations through views, a plan used for another graph |
| Backend scheduler, `ggml/src/ggml-backend.cpp` | `cur_copy`, copies of inputs, events, `is_alloc` | split, alloc, reserve, compute async, synchronize | graph allocator, devices, context | several graphs in flight: copies overwritten or read too early, outputs fetched late |
| Recurrent memory, `src/llama-memory-recurrent.cpp` | cells with sequences, `tail`, `src`, `head`, `used`; states | `seq_*`, `find_slot`, `clear`, state read and write | context, graphs | cells exchanged before the states move; shared states |
| Hybrid and interleaved-window memories, `src/llama-memory-hybrid.cpp`, `llama-kv-cache-unified-iswa.cpp` | pairs of memories | as their parts | context | both of two memories succeed or none |
| RPC backend, grammar, samplers, vocabulary, model loader, model graphs, kernels, GPU backends, converters | | | | mostly functions or I/O, see section 8 |

What makes each modelled component correct:

* **Log** - everything accepted is printed once, in order; after `pause()`
  nothing is left behind; the worker never uses a file that is being replaced;
  calls return.
* **Barrier** - nobody passes before everybody has arrived, in every round; all
  pass.
* **Thread pool** - phases of a node never overlap, every chunk is computed
  exactly once, an abort stops all threads at the same place, nobody computes
  outside of a call, calls return.
* **KV cells** - the incremental indexes equal what they stand for after any
  legal sequence of calls.
* **KV cache** - to its user it is a set of tokens with positions and
  sequences. Slots, shifts, defragmentation, trial placement and failures do
  not show.
* **Recurrent memory** - the state of a sequence was computed from exactly the
  tokens decoded for it, wherever its cell was moved and whoever shared it.
* **Server queue** - a task is in one place, is answered once, and stops when
  its client has left; requests and the shutdown end.
* **Server slots** - what a slot believes to be cached is in the memory, a token
  is sampled from a complete context, no token of a slot is refused unless an
  earlier decode of it failed, no update is wasted.
* **Graph allocator** - a tensor's memory holds its values until the last node
  that reads it, directly or through a view; free blocks are exactly the free
  memory.
* **Backend scheduler** - every part of a graph is computed from the tensors of
  that graph, and the outputs arrive in their rows.

`PROJECT.json` lists every component, also those that are not modelled, and
under `hazards` every place that is hard to test, with the properties that
watch it.

## 2. Modules

| Module | Stands for | Role |
|---|---|---|
| `CommonLog` | `common/log.cpp` | component; messages, worker, controlling thread |
| `CommonLogProofs` | | theorems about `CommonLog` |
| `Rendezvous` | what a barrier promises | abstract specification |
| `GgmlBarrier` | `ggml_barrier` | component, and the barrier part of `ThreadPool` |
| `GgmlBarrierProofs` | | `GgmlBarrier` implements `Rendezvous` |
| `ThreadPool` | pool, graph compute, chunks of `mul_mat` | composes `GgmlBarrier` (INSTANCE) with the worker and caller loops |
| `ThreadPoolProofs` | | theorems about `ThreadPool` |
| `KVCells` | `llama_kv_cells_unified` | the methods as operators on a value of the class |
| `KVCellsCalls`, `MCKVCells` | any legal sequence of calls of one object | component, values for TLC |
| `KVStore` | what `include/llama.h` promises about the memory | abstract specification |
| `KVCache`, `MCKVCache` | unified cache, its use by `decode`, batch allocation | extends `KVCellsCalls` (the object, the arguments of the calls) with placement, updates and decoding; values for TLC |
| `KVProofs` | | theorems about `KVCellsCalls` and `KVCache` |
| `RecurrentMemory`, `MCRecurrentMemory` | `llama_memory_recurrent` | component; values for TLC |
| `RecurrentMemoryProofs` | | theorems about `RecurrentMemory` |
| `ServerQueue`, `MCServerQueue` | `server_queue`, `server_response`, the handlers that wait, `process_single_task` | composes HTTP threads, main thread and signal handler; values for TLC |
| `ServerQueueProofs` | | theorems about `ServerQueue` |
| `ServerSlots`, `MCServerSlots` | `update_slots`, slot save, restore, erase | component over the memory's promise; values for TLC |
| `DynTallocr` | `ggml_dyn_tallocr` | the methods as operators on a value of the structure |
| `GraphAlloc` | `ggml_gallocr` | composes `DynTallocr` with the plan, the graph and its computation |
| `GraphAllocProofs` | | the free blocks are exact; no tensor is overwritten while it is needed |
| `BackendSched`, `MCBackendSched` | `ggml_backend_sched` and its use by `decode` | composes the host with the streams of the devices; values for TLC |
| `BackendSchedProofs` | | theorems about `BackendSched` |

Operators named `X_Something` in front of `X` are wrong variants of `X`, one
plausible slip each; every property is shown to fail for one of them.

### CommonLog

A critical section of `mtx` is one action: `AddDiscarded` and `AddStored`
(`add`, with the expansion of a full ring in `Expanded`), `WorkerTake` (wait and
copy an entry), `WorkerPrint` (outside of the mutex), `PauseBegin`
(`running = false`, push the end entry), `PauseJoin`, `Reconfigure` (`set_file`,
`set_colors`), `Resume`. Messages are numbers in the order of acceptance; their
text is left out. `log.h` declares the controlling calls "not thread-safe", so
one thread makes them, one after the other.

### GgmlBarrier and ThreadPool

The build without OpenMP. Each access to an atomic that can interleave with a
conflicting one is an action. Thread 0 is the caller. A worker goes through
`Top`, `PauseLock`, `StopCheck`, `PollEnter`, `Poll`, `PollActive`,
`LockedReady` and then computes; `Poll` and `PollActive` are the two reads
(`n_graph`, then `n_threads_cur`) of `ggml_graph_compute_thread_ready` without
the mutex. Every node is a matrix multiplication: thread 0 sets `current_chunk`,
a barrier, then a loop that computes a chunk and fetches the next. What a chunk
computes is left out; the history variable `done` counts how often it was
computed. A disposable pool is the same pool used for one graph.

### KVCells and KVCellsCalls

A record with the fields of the class. `seq_pos[s]` is a function from positions
to counts; a position is a key of the code's map when its count is not zero.
`KVCellsCalls` calls the methods in any order that respects what they assert
("note: call only if ..."); this specification is `CallsSpec`.

### KVCache and KVStore

One stream. The data of a cell is abstracted to the token it was computed from
and the position that its K vector is rotated to (`rope`): enough to tell
whether metadata and data still belong together. API operations are one action
each. `llama_decode` is several: `Decode` (positions and consistency checks of
the batch, pending updates, placing all ubatches on trial, restoring, once more
after a defragmentation), then `ProcessUbatch` or `FailUbatch` for each ubatch,
the latter with any subset of the ubatch's data written. `Ubatches` is `split_simple`.
A loop over the cells that calls one method is `Each`. `Prepare` keeps the stack
of the code: `Trial` is the memory after each ubatch, `Undone` takes the cells
back, last ubatch first. Two searches are stated by their result instead of step
by step. `Find_slot` without contiguous slots takes the first usable cells in the
order in which the search passes them (`turn`), with contiguous slots the first
start from the head on, round the end. `Defrag_prepare` says which cell each
hole is filled from: the holes take the used cells from the end, hole by hole, and
a hole keeps them in their order; `max_moves` counts the contiguous blocks.

`KVStore` has a set of entries (token, position, sequences), the entries that
are `due` of the batch that is being computed, ubatch by ubatch, and an action for
each call. A batch is `Accept`ed, then each ubatch `Extend`s the store by exactly
the entries that are due next, after what their sequences hold, or `Fail`s and
changes nothing. `Due` maps `todo`, the ubatches with their slots, to `due`. The refinement mapping `Entries` reads an entry off each used cell:
the token of the *data*, the position the data is rotated to *plus* the pending
shift, the sequences of the metadata. So a token whose data was not written, or
was not moved with its cell, or is rotated wrongly, is not an entry of the
store, and the step that made it so is no step of `KVStore`.

### RecurrentMemory

A state is the sequence of the tokens it was computed from since it was cleared
(`toks`; a token is named by the first of the sequences that it was decoded for),
and whether it began as a cleared one (`known`). `text` is the history: the state
that each sequence should have; it is not `known` for a sequence that stayed in the
range of a failed graph, or that shared a token after it had diverged: it is
given the state of the first sequence, and its own is dropped (`Shared`). `Decode(u)` is
`prepare`, `find_slot` (`PlaceAll` and what follows: the first cells of the
sequences, the exchange of cells with the tails of all their sequences, `src0`
and the cell to clear) and the graph, which copies the states. `DecodeFails`
stops after `find_slot`, makes the states of the range `Unknown` and then
removes what `decode` removes. `mem.ok` records whether the assertions of
`find_slot` held. `seq_rm`, `seq_cp`, `seq_keep`, `seq_add`, `seq_div`, `clear`,
`StateWriteSeq`, `StateReadSeq` and `StateReadAll` (with readers that fail) are
the other calls.

### ServerQueue

Each critical section of `mutex_tasks` or `mutex_results` is one action; a
condition variable is a pair of actions, the test of the predicate and the sleep
(`RecvTest`, `RecvSleep`). The main thread goes through `start_loop`: `TakeTask`,
one of the `Process...` actions of `process_single_task`, `NoMoreTasks`, the
actions of `update_slots` seen from the queue (`SlotAdvances`, `SlotStops`,
`DecodeFails`), `Wait`. A client posts, receives with or without a time-out,
may disconnect, cancels its tasks one after the other, and leaves. A request has
a mode (streamed, not streamed, rerank, a slot operation, a monitor), a number of
tasks, perhaps a slot, which may be one that does not exist (`id_slot` is taken
from the request unchecked), and tasks that are refused. `Signal`, `CleanUp` and `Join`
are the shutdown. The history variables are `finals` (final results sent per
task), `ghosts` and `unreleased`, for the exceptions the properties name. What
`erase` and `remove_if` leave of a queue is `At(q, I)`, the elements at the
indexes `I` in their order: written with a cardinality, not with a recursive
filter, so that the prover can reason about it.

### ServerSlots

One action per slot and loop of `update_slots`: `ContextShift`, `AddSampled`,
`PromptAdd` and its early exits, `DecodeOK`, `DecodeRetry`, `DecodeFails`,
`Sample`, `Speculate`; between updates `Launch`, `CancelSlot`, `SlotSave`,
`SlotRestore`, `SlotErase`. The memory is `mem[s]`, tokens at positions, as
`KVStore` promises it, less what a sliding window may forget (`Forget`, of every
decode, drafts included); `llama_decode` refuses a batch that does not continue the
sequences (`Consistent`), which is what `llama_batch_allocr` checks. `text` is
the history of what a slot's context has to be, `tainted` the slots whose tokens
a failed decode has lost.

### DynTallocr and GraphAlloc

`DynTallocr` has `tallocr_alloc` (best fit, the last block only if nothing else
fits) and `tallocr_free` (merge with neighbours or insert) on a record of the
free blocks. `GraphAlloc` enumerates graphs (`BuildLeaf`, `BuildNode`: operations,
in-place operations, views, the dependencies that the scheduler adds, tensors
that are allocated elsewhere, outputs), plans them as
`ggml_gallocr_alloc_graph_impl` does, one call of the allocator per step
(`PlaceLeaf`, `CountUses`, `PlaceNode` for the sources of a node and the node,
`UpdateParent` for each source), and computes them: `intact` is the set of
tensors whose memory still holds their values, and computing a node removes
everything it overwrites. The process aborts where the allocator does: no
block is large enough (`OutOfSpace`, `ggml-alloc.c:182`), or a freed tensor needs
a new block and there are `MAX_FREE_BLOCKS` (`OutOfBlocks`, line 279). With the
code's `SIZE_MAX/2` bytes the first does not happen and the list of blocks is
never empty; the small buffer of the run reaches both. Later graphs with other sizes use the plan if
`needs_realloc` allows it.

### BackendSched

A tensor is the number of the graph whose values it holds. The host takes one
action per input and per split of `compute_splits`: `CopyUserInput`, `CopyAsync`,
`CopySync`, `ComputeSplit`, `ComputeFails`; before that `ReuseGraph` or
`AllocGraph` (with or without moving the tensors), after it `Extract` and
`OrderOutputs`. A device executes its queue in order: compute, copy to another
device, wait for such a copy, record an event, fetch outputs. `node_copy` is the
copy the nodes of the allocated graph read, which is not always `cur_copy`.

## 3. Runs

Every run ends with no error and with every property refuted for its
wrong variant.

| Run | Question | Instance |
|---|---|---|
| `log` | Does the log print everything once, in order, and do calls return? | ring of 2 entries, 5 messages |
| `barrier` | Is the spinning barrier a rendezvous? Do all pass? | 4 threads, 3 rounds |
| `pool` | Phases, chunks, aborts, returning calls | 3 threads of which 2 compute, 2 nodes, 4 chunks, 2 graphs, pauses, aborts |
| `kv_cells` | Are the indexes exact after any legal calls? | 3 cells, 2 sequences, 3 positions |
| `kv_ops` | Does the cache implement the store? Is a batch refused only for lack of cells? | 3 cells, 2 sequences, 2 tokens, batches of up to 2, tokens of both sequences, all operations |
| `kv_frag` | The same with contiguous slots, every fragmentation, defragmentation of one block per update, failing ubatches | 6 cells, batches of up to 4 in ubatches of 2 |
| `kv_swa` | Does a sliding window keep what is attended to, and leave no gap? May slots found on trial still be written when their turn comes? | 4 cells, window of 3, batches of up to 3 in ubatches of 1, positions up to 5, shared prefixes, failing ubatches |
| `recurrent` | Does each sequence keep its own state, and are the indexes exact? | 3 cells and sequences, tokens of one sequence or of two, 2 positions, 2 calls besides decodes |
| `server_queue` | Is every task in one place and answered once? Do requests and the shutdown end? | 2 clients, 5 pairs of requests, two of them with a slot that does not exist, 2 slots, a failing decode |
| `server_slots` | Is what a slot believes cached there? Is every token sampled from its whole context? Is any refused? | 1 or 2 slots, which may generate together, context of 5, batches of 2, 6 requests, 5 configurations |
| `graph_alloc` | Is a tensor intact when it is read? Are the free blocks exact? | every graph of up to 5 tensors with up to 3 features, 2 sizes, 2 graphs |
| `backend_sched` | Does each split read its own graph's tensors? Do outputs arrive, and decodes return? | 2 devices and the CPU, 2 copies, 4 graphs, 5 configurations |

`TypeOK` of every module holds on the same instances; it can be added to any
configuration.

### What the models show that the repository says otherwise

Each of these has a configuration that reproduces it: TLC refutes the property
named. The runs above leave the case out, by the constants they choose or by an
exception that the property states.

* **`pause()` can hang** (`common/log.cpp:286`; `CommonLog_full.cfg`,
  `PauseReturns`). `add()` expands the ring when it becomes full, `pause()` does
  not. If exactly `size - 1` entries wait, the end entry makes `tail == head`,
  which the worker reads as empty; it waits for ever, and so does `join()`,
  although line 281 says "push an entry to signal the worker thread to stop".
  `PauseReturnsUnlessFull` shows that this is the only way for `pause()` not to
  return.
* **A worker may compute a graph twice** (`ggml-cpu.c:2880-2882`;
  `ThreadPool_resize.cfg`, `ResetAlone`) when consecutive graphs use different
  numbers of threads: the polling worker reads `n_graph` of one and
  `n_threads_cur` of the next. Line 3102 says "No worker threads should be
  accessing the parameters below at this stage". `pool` shows that with one
  number of threads this does not happen.
* **`pos_div` accumulates the shift with the wrong sign**
  (`llama-kv-cells.h:412`, against the comment at 427; `KVCache_div.cfg`,
  `PhaseOK`).
* **A failed ubatch leaves coupled tokens behind** (`llama-context.cpp:1062`;
  `KVCache_failed.cfg`, `ImplementsStore`): only `seq_id[i][0]` is cleaned up,
  while line 1055 says "remove all positions of that ubatch from the KV cache".
* **A batch without a slot can shorten a sequence**
  (`llama-kv-cache-unified.cpp:596`; `KVCache_swafull.cfg`, `RestoredWhenFull`):
  what `apply_ubatch` purged for the window on trial is not restored, although
  `include/llama.h:913` says that "the memory state is restored to the state
  before this call".
* **So can a batch with a slot** (`llama-kv-cache-unified.cpp:596-607`;
  `KVCache_swatrial.cfg`, `TrialRestores`), although the comment is "iterate
  backwards and restore the cells to their original state": only the cells of the
  slots are put back, not those that were purged because a later ubatch of the
  batch reuses a cell of their sequence. With a window of 3, positions 0 and 1, and
  a batch of 2 to 4, TLC purges position 0 on a trial that succeeds, and the
  token at position 2 attends to it. What `WindowKept` states instead is that
  such a step loses nothing that the *last* token of the batch attends to.
* **A gap can stay in a sequence** (`llama-kv-cache-unified.cpp:968`;
  `KVCache_swagap.cfg`, `Contiguous`), where the comment says "we want to preserve
  the invariant that all positions between [pos_min, pos_max] for each sequence will
  be present in the cache". The trial has purged what the later ubatches would
  have closed; when an earlier one fails, they never come. `StaysContiguous` says
  that nothing else makes a gap: every other call keeps a memory without one, and a
  batch that is placed has none once it is completed.
* **The plan of another graph is used** (`ggml-alloc.c:828`;
  `GraphAlloc_topology.cfg`, `TensorsIntact`): `needs_realloc` compares counts and
  sizes, so that a graph with the same sizes but other operations is computed
  with tensors that overlap. `include/ggml-alloc.h:63` promises "automatic
  reallocation if the topology changes when using a single buffer".
* **A split input can be overwritten while it is read** (`ggml-backend.cpp:1386`;
  `BackendSched_peer.cfg`, `InputsCurrent`): the comment is "wait for the split
  backend to finish using the input before overwriting it", but the wait is put
  on the stream of the split's backend, and `ggml_backend_cuda_cpy_tensor_async`
  copies on the stream of the source (`ggml-cuda.cu:2550`). A device that is two
  graphs behind reads the later graph's values. Where a user's input is copied
  first, the host has waited for the event already; `backend_sched` has that case.
* **A reused graph reads the copies of another** (`llama-context.cpp:711`;
  `BackendSched_reuse.cfg`, `InputsCurrent`): with `n_copies > 1`, `cur_copy`
  advances after each graph, and the inputs are copied to the new copy, while
  the nodes still read the one from when the graph was split.
  `ggml-backend.h:263` calls graphs "multi-use in terms of computation".
* **Rows are swapped before they have arrived** (`llama-context.cpp:1212`;
  `BackendSched_unsorted.cfg`, `OutputsOrdered`): when the outputs are to be put
  in "the same order they had in the user-provided batch" (line 1189), the
  asynchronous fetches may still be under way (`//synchronize()`, line 1231).

* **A sequence can begin with a state that is not cleared**
  (`llama-memory-recurrent.cpp:631`; `RecurrentMemory_leftover.cfg`,
  `StateCleared`): `find_slot` marks every cell of its range, the empty ones too,
  as its own source, to "avoid moving or clearing twice". When the graph fails,
  nothing was cleared. A sequence that had no part in it and is given such an
  empty cell goes on from what was left there. `StateExact` states that its tokens
  since are the right ones; how the state began is `StateCleared`.
* **A draft can be refused** (`server.cpp:3537`; `ServerSlots_draft.cfg`,
  `DraftsAccepted`): the code relies on "n_past is not yet increased for the `id`
  token sampled above", but the loop over the slots does not ask whether the slot has
  sampled in this view. When a view was halved, a slot whose own token is in a later
  view has `n_past` increased and its token not decoded: its draft leaves a
  position out, `llama_decode` refuses it, the outcome is ignored (3583), and a
  token is sampled from what is not there. `BatchesAccepted` excepts this case
  (`Later`).

### Observed, without a configuration of their own

KV cache and batches:

* `seq_cp` onto a sequence that already holds one of the tokens breaks
  `cells.seq_add`'s "call only if" (`llama-kv-cache-unified.cpp:303`) and, without
  assertions, counts the position twice. With `CpInto = "any"` TLC refutes
  `IndexesExact`. The runs use `"disjoint"` or `"empty"`.
* `decode()` ignores whether `kv_self_update` succeeded
  (`llama-context.cpp:977`). With `Faults = {"shift"}` TLC refutes
  `ShiftsApplied`; with `{"defrag"}`, `ImplementsStore`.
* With contiguous slots `RoomFound` does not hold (6 cells, ubatches of 2,
  batches of 4): the first ubatch may take the middle of the only range that
  would hold both. The runs state it for non-contiguous slots
  (`LLAMA_SET_ROWS`).
* The checks at `llama-batch.cpp:328-355` for partial sequence sets and
  decreasing positions can not fail: `cur_seq_pos` is never updated, and
  `cur_seq_set[s]` always contains `s`. `Batches` enumerates the batches that
  the comment there allows.
* `include/llama.h:603` says that `seq_id < 0` matches any sequence in
  `llama_memory_seq_rm`; the unified cache asserts `seq_id >= 0`. The model
  passes sequence ids only.
* With several streams `prepare()` restores the head of one of them
  (`llama-kv-cache-unified.cpp:605`); streams are not modelled.

Server queue (`tools/server/server.cpp`):

* Cancelling a task that is queued or deferred does not remove it: the clean-up
  compares `id_target`, which only cancellations set (1740, called at 1605 and
  1628). TLC refutes `CancelledNotPending`; `NoGhostWork` keeps such tasks apart.
* One deferred task is moved per released slot (1670). If it is refused, or only
  saves, restores or erases a slot, it releases nothing, and the tasks behind it
  wait until something else does (`Stranded`).
* A task whose `id_slot`, taken from the request as it is (4260), names no slot is
  deferred for ever (`get_slot_by_id` finds none, 2755-2762), its client waits as
  long as the server runs, and each release that moves it to the main queue is one
  less for the tasks behind it. Saving, restoring and erasing answer "Invalid slot
  ID". `server_queue` has both; `Stranded` covers the first.
* A thread between its test and its sleep in `recv()` misses the notification of
  `terminate()`, which clears `running` without the mutex (1878); `ShutdownEnds`
  excepts it. A signal that arrives before `start_loop` is lost (1692), and the
  handler takes a mutex (4945).
* `remove_waiting_task_ids` leaves results of its ids in the queue (1794), and
  the handler of rerank does not unregister its ids when it ends early.

Server slots (`tools/server/server.cpp`):

* After one failed decode a slot keeps tokens that the memory has lost; a later
  prompt that shares them meets `GGML_ABORT("pos_min == -1, but n_past > 0 -
  should not happen")` (3254). TLC refutes `NeverAborts`.
* With a sliding window and two slots, a prompt that is cached as a whole is
  evaluated from a position whose window may be gone, since the check is skipped
  for it (3250, 3267). TLC refutes `ContextComplete`; the run has a window with
  one slot.
* The result of the `llama_decode` for a draft is ignored (3583), also when it
  failed; the slot then counts as `tainted`.
* `n_batch` is halved after any error that is not final, an abort included
  (3440).
* A slot whose task cannot be batched with the others waits as long as they get
  new tasks (3080).

Graph allocator: an output flag on a view does not protect what the view shows
from later in-place operations; more than `MAX_FREE_BLOCKS` free blocks abort
(`ggml-alloc.c:279`).

Recurrent memory (`src/llama-memory-recurrent.cpp`): `seq_rm` of all sequences
leaves tails behind (176); sequences that diverged and are coupled in a batch are
refused by a comparison of their positions only (`llama-batch.cpp:299-302`), so
that one of them loses its state when these agree; the removal after a failed ubatch is refused if the
sequence has earlier positions (`llama-context.cpp:1074`); `seq_cp` ignores its
range; reading the state of a sequence saved empty uses the position before the
first (873), and a truncated one leaves the metadata of the sequence (851).

## 4. Bounds

Bounds are constants, and guards name them.

* *Log*: a ring of 2 entries is full with the second message, so 5 messages
  expand it twice, with the indices in every position; the proofs remove the
  bound.
* *Barrier*: the interesting case is a thread in round r + 1 while another has
  not left round r; three rounds show the counters reused twice. The proof
  removes the bound.
* *Pool*: two threads that compute and one that the graph does not use give
  every pair of roles; two nodes give a barrier between nodes and one that is
  skipped after the last; four chunks for two threads make each of them fetch;
  two graphs give a worker that is late for the second.
* *Cells and cache*: two sequences are what sharing needs, three cells give a
  hole between two used ones, positions are as many as the cells can hold.
  Shifts of -1, 1 reach a negative position, a pending shift and its opposite.
  `Positions`, `Shifts` bound the user's calls only. In `kv_frag` six cells
  give up to three holes, `max_moves` 1 interrupts a defragmentation after its
  first block and in the middle of a hole.

* *Sliding windows*: a window of 3 with batches of 3 in single ubatches is the
  smallest in which a trial purges what an earlier token of the same batch attends to;
  four cells make the trial of the third ubatch go round. Six cells, batches of 4
  and positions up to 7 were simulated (700000 states) and agree.
* *Recurrent memory*: as many cells as sequences, the code's own assertion;
  three give a cell that is exchanged with one of a third sequence. `SeqSets` are
  the single sequences and one pair, in decreasing order, which keeps the run small;
  the code leaves the order to the caller, and the proof admits every list. One token
  per sequence and ubatch is what the placement depends on.
* *Server queue*: two slots and two clients with up to two tasks each give a task
  that waits for a slot, one that is deferred behind it, and a cancellation of
  either; the pairs of requests are chosen so that each mode meets another one.
  `id_slot` is 0 for any slot, and `NSlots + 1` for all that name none: they differ
  in nothing.
* *Server slots*: a context of 5 fills after three generated tokens, is shifted
  or stops; a batch of 2 splits a prompt over three updates; two tokens give
  prompts that share prefixes and chunks; three launches give a slot that reuses
  what a reusing slot left, and two slots that generate in one batch. The five configurations vary slots, context shift,
  chunk reuse, drafts, partial removal and the window.
* *Graph allocator*: with five tensors a parent, its view, a consumer of each and
  an output meet; sizes 2 and 3 with an alignment of 2 give blocks that fit with
  and without a remainder. `Half` = 16 holds all graphs but the largest, and
  `MaxFreeBlocks` = 2 is too few for some, so both aborts happen; graphs that need
  less are planned and computed as if there were no bound. The proof removes the
  bounds for `FreeBlocksExact`.
* *Backend scheduler*: with two copies the third graph in flight uses the first
  one's copies again, the fourth makes the second ones meet a re-allocation; two
  ubatches per decode give two rows. More copies only delay the reuse.

`MCView` leaves out `op`, which no action reads, and the data of empty cells,
which no step reads before it is written; properties of steps are evaluated on
every step that TLC generates. `MCSymmetry` permutes tokens and sequences: no
definition tells them apart (loops over sequences are independent per
sequence). `kv_frag`, with one token and one sequence, uses none.

Deadlock is not reported where the system may rest: a freed log or pool, a
server that has ended, an idle context, or a bound that was reached.

## 5. Fairness

* *Log*: weak fairness of the worker, and of a controlling call that has begun:
  threads are scheduled, the mutex is free again after each section. Nobody is
  obliged to log or to call `pause()`.
* *Barrier and pool*: weak fairness of each thread's own steps and of the
  caller inside a call: the code spins or sleeps on a condition variable, and
  the operating system runs every runnable thread. No fairness of calls.
* *Server queue*: weak fairness of the main thread and of each HTTP thread's own
  steps. Nothing makes a client call or disconnect, or a signal arrive. A decode
  that fails and a slot that stops are outcomes of a step of the main thread; a
  slot generates at most `MaxRounds` tokens, as `n_predict` or the context makes
  it stop.
* *Backend scheduler*: weak fairness of the host inside a decode and of each
  device, which works off its stream. Nobody has to call `decode`.
* *Caches, recurrent memory, slots, graph allocator*: safety only, no fairness.

## 6. Theorems

Checked by TLAPS, for every value of the constants.

* **`CommonLogProofs`** - `TypeCorrect`, `InOrder`, `NoLoss`, `Alone`
  for every capacity of at least two entries and any number of messages. `PrintedInOrder`
  alone is not inductive: what is printed next depends on what the ring holds.
  `IInv` says that from `head` on the ring holds the messages after the ones
  taken (`RunQueued`), that the end entry is behind them or has filled the ring
  (`StopQueued`), and who may be where (`ControlInv`). `HoldsTake`, `HoldsPush`
  and `HoldsExpanded` are the facts about the ring, the last one about the loop
  that moves a full ring into one of twice the size.
* **`GgmlBarrierProofs`** - `TypeCorrect`, and `Refinement`: the barrier
  implements `Rendezvous` for every finite set of threads and any number of
  rounds. The invariant says of each waiting thread whether it waits in the
  current round or has been released from the last one (`RoundInv`), and that
  `n_barrier` counts the former (`CountInv`); who resets or releases finds all
  others waiting.
* **`KVProofs`**, the cells - `TypeCorrect`, `UsedCorrect`, `CountsCorrect`,
  `ShiftCorrect`, `RangeCorrect` for any number of cells, any sequences and
  positions, and any legal sequence of calls. The invariant (`Inv`) is stated of a
  *value* of the class, so that each method is a lemma about constants. The
  central lemma, `OneCell`: a method that changes one cell keeps all counts if
  it adds to each what the cell gains and subtracts what it loses. `mv`, which
  changes two cells, has a bijection of its own. `RangeCorrect` needs that a
  finite set of integers has a first and a last element (`FirstAndLast`), from
  the well-foundedness of strict inclusion.
* **`KVProofs`**, the cache - `IndexesStayExact` (`IndexesExact`),
  `ShiftsStayApplied` (`ShiftsApplied`), `SlotsStayFree` (`SlotsStillFree`) and
  `CacheTypeCorrect`, for any number of cells, sequences, tokens and batches,
  contiguous slots or not. The invariant `KVInv` has the cells' `Inv`, that a used
  cell belongs to a sequence (`Owned`: without it the loops could not call
  `seq_rm`, `seq_keep` and `mv`, which assert it), and `TodoOK`: the slots of the
  ubatches that are left are distinct cells, one for each token, and without a
  window they are free and no two ubatches share one. Each loop over the cells has
  a lemma that says what becomes of every cell (`Same`, `Thinner`, ...) and that
  `CInv` holds after every call of it, which is where the assertions of the methods
  are discharged. `Prepare` is the long one: after `k` trials the cells of
  the slots found so far are taken and the others unchanged or purged, and undoing
  them from the last leaves no cell with a position it did not have before, and
  without a window exactly the old one. `ShiftsStayApplied` needs `PhaseInv` on top:
  the data of each used cell is rotated to its position less the pending shift
  (`Phased`), whether or not a batch is running, and no shift is pending while one
  is. The hypotheses are limits that runs have too; TLC refutes the property
  without any of the first four:
  - `CpInto # "any"`, of all: `seq_cp` onto a sequence that already has one of the
    tokens breaks the assertion of `seq_add` (`llama-kv-cells.h:285`), and the
    count goes wrong where assertions are compiled out;
  - `Divisors` within {1}, of `ShiftsStayApplied`: the sign in `pos_div`;
  - `Faults = {}`, of the same: `decode` goes on after an update whose graph failed;
  - not both `Coupled` and `CanFail`, of the same: what a failed ubatch leaves
    behind in the second sequence has no data (`KVCache_failed.cfg`);
  - `SwaType = "none"`, of `SlotsStayFree`: with a window a slot may hold masked
    cells that are in use, and that they stay masked until their turn comes needs
    an argument about the last positions of all sequences. This one is not known to
    be needed: `kv_swa` checks the property with a window.
* **`KVProofs`**, the refinement - `StoreImplemented` (`ImplementsStore`): without a
  window, and under the hypotheses of `ShiftsStayApplied`, the cache implements
  `KVStore`; with it `FullRestores` (`RestoredWhenFull`, which needs the hypothesis
  on windows: `KVCache_swafull.cfg`) and `TokensKept` (`WindowKept`). The mapping
  reads the position of an entry off its data (`Entries`); by `PhaseInv` it is
  the position of the cell, so the entries are what the cells hold (`Held`,
  `StoreHeld`). Each call has a lemma that says what it does to `Held` (`RmHeld`,
  `CpHeld`, `KeepHeld`, `AddHeld`; two cells may hold the same entry, so these are
  equations of sets). Updates, trials and their undoing leave it alone
  (`UpdateKeeps`, `PrepareFacts`). `StoreImplemented` says that what is stored are
  exactly the tokens of the ubatch, with the positions and sequences that the
  accepted batch gave them: `todo` with its slots maps to the entries that are due
  (`Due`, `DueFacts`). That an ubatch is stored *after* the last
  position of each of its sequences is decided when the batch starts and used
  ubatch by ubatch, so the invariant `RefInv` adds `AheadInv`: in each sequence the
  tokens of the ubatches that are left come after all entries and after those of
  earlier ubatches. It rests on the order in which `init()` gives out
  positions (`PosOrder`), on its consistency checks (`BatchAfterMem`) and on
  `split_simple` (`UbatchOrder`); it is also why a failed ubatch, which removes
  everything from its positions on, removes nothing else (`FailStore`).
* **`KVProofs`**, the room - `RoomAlwaysFound` (`RoomFound`), without a window and
  with slots that need not be contiguous (the run `KVCache_ops.cfg`), also when
  graphs fail: the free cells are counted (`NFree`) along `llama_decode`. The moves
  of a defragmentation free as many cells as they take (`MovesFree`), a trial takes
  as many as the ubatch has tokens (`TriedFree`), `split_simple` makes no ubatch
  larger than what is left (`UbatchSize`), and the search, from any head, fails
  only if too few cells are usable (`NoSlot`); so a trial that starts with enough
  free cells never runs out (`TrialRoom`).

* **`ThreadPoolProofs`** - `PhasesApart` (`SamePhase`), `ComputesOnce`
  (`ComputedOnce`), `AbortsTogether` (`AbortTogether`), `ResetsAlone`
  (`ResetAlone`) and `TypeCorrect`, for any number of threads, nodes, chunks and
  graphs, under the hypothesis `OneSize`: all calls ask for the same number of
  threads. `ThreadPool_resize.cfg` shows that it is needed. None of the
  properties is inductive. `IInv` says which threads belong to the team of the
  current graph and which have yet to notice it (`TeamInv`), which barrier round
  each thread of the team is in and at which node and stage (`RoundInv`,
  `StageInv`: a thread in front of the barrier is at most one round behind one
  that has passed it), that `n_barrier` counts those that wait (`CountInv`), and
  what the abort flag may be while the team reads it (`FlowInv`). `ComputesOnce`
  needs a second layer on top: who has claimed which chunk (`ClaimInv`), and that
  what was claimed is computed once the claimant has passed on (`DoneInv`).
* **`BackendSchedProofs`** - `ReadsOwnGraph` (`InputsCurrent`), `OutputsArrive`
  (`OutputsOrdered`) and `TypeCorrect`, for any devices, splits, inputs, copies
  and decodes. The hypothesis `AllSafe` describes the machines: the splits are as
  `split_graph` makes them (`Split_graph`), there is no copy from device to
  device, and with several copies no graph is reused and every device split has
  an input, so that its event is recorded. `OrderSafe`, for `OutputsArrive` only:
  rows are sorted only if the last split runs on the CPU.
  `BackendSched_peer.cfg`, `BackendSched_reuse.cfg` and
  `BackendSched_unsorted.cfg` show what happens without each. The property is
  about what a device *will* read, so the invariant is about what is queued:
  `QueueInv` says for every queued operation that the tensors it reads hold, or
  will hold when its turn comes (`Comes`), the values of its own graph, and that
  the operations of a stream are in the order of the graphs and splits;
  `HostInv` says the same of the split the host is submitting. The step that
  needs it all is the overwriting of an input copy, after the event of the graph
  that used the copy before. `RowInv` and `FetchInv` (`Arrives`) are the same
  argument for the rows of the output buffer.
* **`ServerQueueProofs`** - `NothingLost` (`NoTaskLost`), `AnswersOnce`
  (`AnsweredOnce`), `NoGhosts` (`NoGhostWork`) and `TypeCorrect`, for any clients,
  requests, slots, rounds and decode errors, with no hypothesis but
  `ServerAssumption`. None of the three is inductive. `Inv` says that a task is in
  one place (`PlaceInv`), that only tasks of posted requests are anywhere or
  waited for (`OwnerInv`), that a task that is waited for and not answered is
  somewhere (`KeptInv`), that the slots of a batch are processing (`SlotInv`),
  that a cancelled task runs only while its cancellation is on its way
  (`CancelInv`), and that only tasks of clients that have left are cancelled
  (`GoneInv`): without the last one `ProcessCancel` could release a slot whose
  client still waits. `AnsweredOnce` needs a second layer, which holds until a
  decode fails (`DecodeFails` sends an error for the last task of an idle slot
  too): an answered task is nowhere (`AnswerInv`), the answer is the last queued
  result of its task (`ResultInv`), and a handler has counted exactly the tasks
  whose answers were queued and are no longer (`FinishInv`). The handlers of
  completions and embeddings unregister without removing queued results, and
  `handle_rerank` unregisters nothing; that nothing stays behind follows from
  this count (`NothingLeft`): who has counted one answer per task has left none.
  `AtFacts` says what `At` keeps, and in which order; each action then has a
  lemma of its own.
* **`GraphAllocProofs`** - `BlocksExact` (`FreeBlocksExact`), for graphs of any
  length with any tensors, any alignment, size of the buffer and
  `MAX_FREE_BLOCKS`. The first half is about `ggml_dyn_tallocr` alone: `AllocFacts`
  says that what `tallocr_alloc` gives away was free and nothing else changes,
  `FreeFacts` that `tallocr_free` adds exactly what is given back, when that was
  not free, whether it is inserted, grows a block or joins two. Both are stated of
  single bytes (`Free(bs, x)`), and blocks are kept apart pairwise (`Sorted`)
  where the code compares neighbours. The second half carries this through
  `allocate_node` and `free_node` (`Allocated`, `Freed`): when a node takes over
  the memory of a source nothing is allocated or freed and the bytes change
  hands. The invariant `PlanInv` adds that sources come before the tensors that
  use them, that leafs come first, and which call of the allocator is next.
  The second part, `NothingOverwritten` (`TensorsIntact`), is about the same
  graphs, under `~NewTopology`: later graphs differ in their sizes. With other
  operations the property is false, as `GraphAlloc_topology.cfg` shows. The
  property is about computing, and what makes it true happens while the plan is
  made, so `IntactInv` goes through the whole life of a plan. While it is made
  the counts are exact (`CountInv`): `n_children` of a tensor is the number of its
  uses that are yet to be counted off, `n_views` that of its views with such a use.
  A node that comes later and reads memory of a tensor is therefore counted, on
  the tensor or on a view (`StillCounted`), so neither reuse in place (`ReusedFree`)
  nor the last use of a source (`LastUseFree`) takes away what it reads (`Live`),
  and, by `BlocksExact`, what is placed next goes beside it (`Work`). `SetPlan`
  turns this into a statement about any two tensors of the plan (`PlanFits`),
  which a graph that passes `needs_realloc` inherits (`SmallerFits`); and
  computing a node then leaves alone what is still wanted (`Computing`).
  The provers need the graphs to be closed under `view_src` (`Wired`): a view
  is never of a view, and the memory of its source is its own.

* **`RecurrentMemoryProofs`** - `IndexesStayExact` (`IndexesExact`),
  `SlotsAlwaysFound` (`SlotsFound`), `StatesStayExact` (`StateExact`) and
  `TypeCorrect`, for any number of cells, positions and operations, and any lists
  of sequences that tokens share, with no hypothesis but `RecurrentAssumption`.
  `StateExact` is not inductive: `RInv` adds that a cell in use has its state in
  place (`InPlace`: `src` is the cell itself) and that a free cell which says so
  too holds a state without tokens, cleared or left by a failed graph
  (`FreeCleared`, `Fresh`), because `find_slot` may copy it as the state of a new
  sequence. The property compares the tokens of a state with the history
  (`Agrees`), and excepts the sequences whose history is not `known`; a state
  that began as a leftover one has its own property, `StateCleared`, which is false. Most of the proof is
  `find_slot`, stage by stage. Between the stages hold `Staged` (who is in which
  cell, with `X` the sequences that already have one to themselves, and that `src`
  names where the state of a cell is) and `Frame` (outside of the range nothing
  was moved). `PlaceStep` follows the loop that places the sequences; the empty
  cell it needs exists because the tails of the others, one of which is shared or
  missing, cannot cover all cells (`FreeCell`), and the search finds it because it
  goes round: the cells it has passed are taken (`Ring`). `GatherStep` follows the
  exchanges: a tail that is in place is not touched again. `BatchedExact` says that
  after the assignment the tails are exact, and `RsZFacts` that a cell to clear
  exists: all sources of the range are in the range, and one cell has none, so one
  cell is no source. `DecodeStep` then compares what the graph copies with the
  history.

Loops of the code are recursive functions over an interval, `a[k]` for what holds
after `k` rounds. A recursive function is a `CHOOSE`; a lemma for each loop shows
that one exists (`PlaceAllLoop`, `GatheredLoop`, `TakenOutLoop`), and `Induct`, from
the well-foundedness of the natural numbers, carries an invariant along it. The
induction is over a *set* of numbers, so that no operator has to be instantiated.

Assumptions: the named `ASSUME`s of the component modules, which TLC evaluates in
each run: at least two entries in the log's ring, a finite set of threads,
positions are natural numbers and finitely many (`llama_pos` is an `int32_t`), the
ends of ranges are integers, divisors are positive, at least one slot and
requests that are well formed, a positive alignment and tensors of at least one
byte. The hypotheses `OneSize`,
`~NewTopology`, `AllSafe`, `OrderSafe` and those of the cache are stated in the theorems
themselves; `kv_ops` satisfies those of the cache. The
constants of `ThreadPool.cfg` satisfy the first, those of `GraphAlloc.cfg` the
second; of the five machines of `MCConfigs` the two
without peer copies satisfy the others, and the other three, where a peer copy
happens to be harmless, are only model-checked.

`TypeCorrect` of each module and `ShiftCorrect` are about definitions that no
run lists any more; the inductive invariants contain them.

Only model-checked: liveness (`AllPass`, `CallsReturn`, `DecodeCompletes`,
`Answered`, ...), which the prover does not reach; of `KVCache`
what is special to sliding windows (`StaysContiguous`; `WindowKept` and
`SlotsStillFree` there); and `ServerSlots`, whose
`update_slots` is a chain of folds over slots and tokens. Its invariants hold
between whole passes of that chain, so an inductive argument would need one for
each of its loops.

## 7. What the models abstract from

* Atomics are sequentially consistent. The barrier's relaxed accesses with
  fences, and the visibility of tensor data, rest on the C memory model and are
  not examined.
* Integers are unbounded; positions are far from 2^31 and `n_barrier_passed`
  wraps only after 2^31 rounds, where the comparison is for equality.
* Tensor data, text of messages, affinity, priorities and the NUMA strategies.
* Users' positions in a batch (`batch.pos`): positions are generated.
* `split_equal` and `split_seq`, several streams of the unified cache, and its
  state files.
* Recurrent memory: one token per sequence and ubatch, and `size = n_seq_max`. A
  token of several sequences is known by the first of them.
* Server: `cont_batching` is on, `n_discard` has its default, there is no
  multimodal input, `speculative.n_min` is 0 and `n_ubatch = n_batch`; sampling
  chooses any token. As an ubatch is a whole view, a window forgets what the view
  overwrites, not what a trial of later ubatches purges (`kv_swa` has these). Context
  shift with a memory that cannot remove a part of a sequence, whose refusal line
  3017 ignores, is left out (`Config`). Which idle slot is preferred is left open in `ServerQueue`.
* Graph allocator: one buffer, no input flag on nodes, no empty tensors (a tensor
  of no bytes that is freed may leave a free block of none), and the backend's
  allocator does not fail.
* Scheduler: a device's stream is executed in order and a split is computed in
  one step; the assignment of nodes to backends (passes 1 to 4 of
  `split_graph`) is a parameter, the splits of a configuration; allocations do
  not fail, and a callback does not break off. Every ubatch has one output:
  ubatches without (`llama-context.cpp:1098`), and the re-allocation of the output
  buffer for a larger batch (`output_reserve`, 1272-1290) while earlier fetches
  may be under way, are left out. The order of the rows is changed for an output
  that the CPU computed (section 3).
* `SeqDiv` by more than 1 is taken cell by cell in `kv_cells`; the runs of the
  cache use 1, for the reason `KVCache_div.cfg` shows.

## 8. Not modelled

Kernels, quantization, samplers: floating-point functions. Vocabulary, chat
templates, JSON schema, argument parsing: functions of long texts. Model
loader, `gguf`, converters: file formats. Model graphs: straight-line code. GPU
backends: drivers. Vendored libraries, examples and the web UI: not part of the
core. `PROJECT.json` gives the reason for each.

These parts are most of the repository: of some 260000 lines of implementation,
the kernels and GPU backends, the model graphs and the tables of Unicode and of
vocabularies are the bulk, and none of them keeps state between calls or runs
against another thread. The modelled share is small in lines and is most of what
does.

## 9. Plan

1. *Done*: log, barrier, pool, cells, unified cache with one stream, recurrent
   memory, server queue and slots, graph allocator, backend scheduler; the
   proofs above.
2. Proofs left: `SlotsStillFree`, `StaysContiguous` and `WindowKept` with a window; the
   invariants of `ServerSlots`; `InputsCurrent` with copies from device to device.
3. **KVStreams**: several streams, copies between streams, restoring of heads
   (`llama-kv-cache-unified.cpp:605`); the interleaved-window and hybrid pairs.
4. **BatchInit**: given positions, `split_equal` and `split_seq`, against a
   definition of what a split is.
5. **RPC**: requests and answers over a stream that may break; the grammar's
   stacks against a reference derivation.

Each further run replaces one that it subsumes: the project keeps one run per question.
