---------------------------- MODULE BackendSched ----------------------------
(***************************************************************************)
(* ggml_backend_sched of ggml/src/ggml-backend.cpp, as llama_context uses   *)
(* it: a graph is split into parts that run on different backends, the      *)
(* tensors that a part needs from elsewhere are copied to its backend, and  *)
(* the parts are computed asynchronously.  With pipeline parallelism        *)
(* (n_copies > 1) the next graph is submitted while earlier ones run: every *)
(* copied tensor exists n_copies times, and an event for each backend and   *)
(* copy says when the backend has read it.                                  *)
(*                                                                         *)
(* Devices are external: each one executes its queue in order (a stream).   *)
(* The CPU backend, backend 0, computes while the host waits.  A tensor is  *)
(* modelled by the graph whose values it holds.                             *)
(***************************************************************************)
EXTENDS Integers, Sequences, FiniteSets, SequencesExt

CONSTANTS
    Configs,      (* machines and models, see Config                        *)
    MaxUbatches,  (* bound: how many ubatches a decode has                  *)
    MaxGraphs,    (* bound: how many graphs are computed                    *)
    MaxFailures   (* bound: how many of them fail                           *)

(* Tensor 0 is the graph's input that the user sets (tokens, positions,     *)
(* mask), tensor s > 0 the output of split s.  inputs are those that are    *)
(* copied for the split, in this order, reads all that it reads.            *)
Split == [backend : Nat, inputs : Seq(Nat), reads : SUBSET Nat]

(* peer: cpy_tensor_async copies from device to device; reuse: a graph may  *)
(* be computed again; callback: there is an eval callback; unsorted: the    *)
(* ubatches have the tokens in another order than the batch.                *)
Config == [splits : Seq(Split), n_copies : Nat \ {0}, peer : BOOLEAN,
           reuse : BOOLEAN, callback : BOOLEAN, unsorted : BOOLEAN]

ASSUME SchedAssumption ==
    /\ MaxUbatches \in Nat \ {0} /\ MaxGraphs \in Nat /\ MaxFailures \in Nat
    /\ \A c \in Configs :
          /\ c \in Config
          /\ \A s \in DOMAIN c.splits :
                /\ Range(c.splits[s].inputs) \subseteq c.splits[s].reads
                /\ c.splits[s].reads \subseteq 0 .. s - 1

VARIABLES
    config,
    cur_copy, is_alloc,   (* of the scheduler                               *)
    node_copy,  (* the copy that the nodes of the allocated graph read      *)
    user,       (* [copy -> graph]: the input tensor, in the CPU's memory   *)
    copies,     (* [backend, tensor, copy -> graph]: tensor_copy            *)
    out,        (* [split -> graph]: its output tensor                      *)
    queue,      (* [device -> what it has to do]                            *)
    phase, todo, graph, split, input,  (* the host                          *)
    logits, row,                       (* the output buffer of the context  *)
    due,        (* history: what the rows of this decode are to hold        *)
    fails

sched == <<cur_copy, is_alloc, node_copy>>
mem   == <<user, copies, out>>
host  == <<phase, todo, graph, split, input>>
outp  == <<logits, row, due>>
vars  == <<config, sched, mem, queue, host, outp, fails>>

CPU == 0
Splits == DOMAIN config.splits
Backend(s) == config.splits[s].backend
Devices == {Backend(s) : s \in Splits} \ {CPU}
Copies == 0 .. config.n_copies - 1
Rows == 1 .. MaxUbatches
Lost == 0     (* memory that was never written, or has moved *)
Wrong == -1   (* computed from something else than this graph's tensors *)

NoValues ==
    /\ copies' = [x \in DOMAIN copies |-> Lost]
    /\ out' = [s \in Splits |-> Lost]

Init ==
    /\ config \in Configs
    /\ cur_copy = 0 /\ is_alloc = FALSE /\ node_copy = 0
    /\ user = [c \in Copies |-> Lost]
    /\ copies = [x \in (Devices \cup {CPU}) \X ({0} \cup Splits) \X Copies |-> Lost]
    /\ out = [s \in Splits |-> Lost]
    /\ queue = [b \in Devices |-> <<>>]
    /\ phase = "idle" /\ todo = 0 /\ graph = 0 /\ split = 0 /\ input = 0
    /\ logits = [r \in Rows |-> Lost] /\ row = 1
    /\ due = [r \in Rows |-> Lost]
    /\ fails = 0

(***************************************************************************)
(* Devices (external).                                                      *)
(***************************************************************************)
Op(op, t, g, c, to) == [op |-> op, tensor |-> t, graph |-> g, copy |-> c, to |-> to]

(* What the nodes of a split on backend b find as tensor t: the original    *)
(* if it is on the same backend, or the copy made for the backend.          *)
Value(b, t, c) ==
    IF t = 0 /\ b = CPU THEN user[c]
    ELSE IF t # 0 /\ Backend(t) = b THEN out[t]
    ELSE copies[<<b, t, c>>]
Right(s, g, c) == \A t \in config.splits[s].reads : Value(Backend(s), t, c) = g
Computed(s, g, c) == IF Right(s, g, c) THEN g ELSE Wrong

Device(b) ==
    LET x == Head(queue[b])
    IN  /\ queue[b] # <<>>
        /\ x.op = "wait" => ~Contains(queue[x.to], Op("copy", x.tensor, x.graph, x.copy, b))
        /\ out' = IF x.op = "compute"
                  THEN [out EXCEPT ![x.tensor] = Computed(x.tensor, x.graph, x.copy)]
                  ELSE out
        /\ copies' = IF x.op = "copy"
                     THEN [copies EXCEPT ![<<x.to, x.tensor, x.copy>>] = out[x.tensor]]
                     ELSE copies
        /\ logits' = IF x.op = "fetch" THEN [logits EXCEPT ![x.copy] = out[x.tensor]]
                     ELSE logits
        /\ queue' = [queue EXCEPT ![b] = Tail(@)]
        /\ UNCHANGED <<config, sched, user, host, row, due, fails>>

(* ggml_backend_synchronize returns, for one backend and for all.           *)
Synchronized(b) == IF b = CPU THEN TRUE ELSE queue[b] = <<>>
Quiet == \A b \in Devices : Synchronized(b)

(* events[b][c] exists, and what was recorded in it last is done.           *)
HasEvent(b) == config.n_copies > 1 /\ b # CPU
EventDone(b, c) == \A k \in DOMAIN queue[b] :
                       ~(queue[b][k].op = "record" /\ queue[b][k].copy = c)

-----------------------------------------------------------------------------
(***************************************************************************)
(* llama_context: decode, process_ubatch, kv_self_update, synchronize.      *)
(***************************************************************************)
Decode(n) ==
    /\ phase = "idle"
    /\ graph + n <= MaxGraphs
    /\ phase' = "ubatch" /\ todo' = n
    /\ row' = 1 /\ due' = [r \in Rows |-> Lost]
    /\ UNCHANGED <<config, sched, mem, queue, graph, split, input, logits, fails>>

(* res->set_inputs(&ubatch), and then graph_compute. *)
BeginGraph(c) ==
    /\ graph' = graph + 1
    /\ user' = [user EXCEPT ![c] = graph']
    /\ phase' = "split" /\ split' = 1 /\ input' = 1
    /\ UNCHANGED <<config, todo, cur_copy, queue, outp, fails>>

ReuseGraph ==
    /\ phase = "ubatch"
    /\ config.reuse /\ is_alloc
    /\ BeginGraph(node_copy)
    /\ UNCHANGED <<is_alloc, node_copy, copies, out>>

(* ggml_backend_sched_reset, split_graph and alloc_splits.  When the graph  *)
(* does not fit the allocation of the last one, all backends are            *)
(* synchronized and the tensors move.                                       *)
Realloc == Quiet /\ NoValues
AllocGraph(moves) ==
    /\ phase = "ubatch"
    /\ is_alloc' = TRUE /\ node_copy' = cur_copy
    /\ IF moves THEN Realloc ELSE UNCHANGED <<copies, out>>
    /\ BeginGraph(cur_copy)

(* graph_reserve, after kv_self_update has changed the memory: the          *)
(* scheduler is reset, and sched_reserve synchronizes, which takes copy 0   *)
(* again because nothing is allocated.  Doing it twice changes nothing.     *)
GraphReserve ==
    /\ phase = "idle"
    /\ is_alloc
    /\ Quiet
    /\ cur_copy' = 0 /\ is_alloc' = FALSE
    /\ NoValues
    /\ UNCHANGED <<config, node_copy, user, queue, host, outp, fails>>

(***************************************************************************)
(* ggml_backend_sched_compute_splits                                        *)
(***************************************************************************)
MoreInputs == phase = "split" /\ input <= Len(config.splits[split].inputs)
Input == config.splits[split].inputs[input]

(* The host waits until the backend does not read the copy any more. *)
InputUnused_Assumed(b) == TRUE
InputUnused(b) == IF HasEvent(b) THEN EventDone(b, cur_copy) ELSE Synchronized(b)

CopyNow(b, t, v) ==
    /\ copies' = [copies EXCEPT ![<<b, t, cur_copy>>] = v]
    /\ input' = input + 1
    /\ UNCHANGED <<config, sched, user, out, queue, phase, todo, graph, split, outp,
                   fails>>

(* "inputs from the user must be copied immediately" *)
CopyUserInput ==
    LET b == Backend(split)
    IN  /\ MoreInputs
        /\ Input = 0
        /\ InputUnused(b)
        /\ CopyNow(b, 0, user[node_copy])

(* cpy_tensor_async of ggml-cuda: the source's stream makes the copy, the   *)
(* stream of the split's backend waits for it.                              *)
CanCopyAsync(b, t) == config.peer /\ b # CPU /\ Backend(t) # CPU
AsyncCopied_WaitsFirst(b, t) ==
    [queue EXCEPT ![b] = @ \o <<Op("wait", t, graph, cur_copy, b),
                                Op("copy", t, graph, cur_copy, b)>>]
AsyncCopied(b, t) ==
    LET src == Backend(t)
    IN  [queue EXCEPT ![src] = Append(@, Op("copy", t, graph, cur_copy, b)),
                      ![b]   = Append(@, Op("wait", t, graph, cur_copy, src))]

(* Before, the stream of the split's backend waits for its own event, which *)
(* a stream that is executed in order has always passed; without events the *)
(* host waits for the backend.                                              *)
CopyAsync ==
    LET b == Backend(split)
    IN  /\ MoreInputs
        /\ Input # 0
        /\ CanCopyAsync(b, Input)
        /\ HasEvent(b) \/ Synchronized(b)
        /\ queue' = AsyncCopied(b, Input)
        /\ input' = input + 1
        /\ UNCHANGED <<config, sched, mem, phase, todo, graph, split, outp, fails>>

CopySync ==
    LET b == Backend(split)
    IN  /\ MoreInputs
        /\ Input # 0
        /\ ~CanCopyAsync(b, Input)
        /\ Synchronized(Backend(Input))
        /\ InputUnused(b)
        /\ CopyNow(b, Input, out[Input])

(* ggml_backend_graph_compute_async; with a callback the host waits for     *)
(* every part of the split.  Then the event of this copy is recorded.       *)
Recorded(b) ==
    IF HasEvent(b) /\ config.splits[split].inputs # <<>>
    THEN <<Op("record", 0, 0, cur_copy, b)>> ELSE <<>>
NextSplit ==
    IF split < Len(config.splits)
    THEN /\ split' = split + 1 /\ input' = 1
         /\ UNCHANGED <<phase, cur_copy>>
    ELSE /\ phase' = "extract" /\ cur_copy' = (cur_copy + 1) % config.n_copies
         /\ UNCHANGED <<split, input>>

ComputeSplit ==
    LET b == Backend(split)
    IN  /\ phase = "split" /\ ~MoreInputs
        /\ IF b = CPU \/ config.callback
           THEN /\ Synchronized(b)
                /\ out' = [out EXCEPT ![split] = Computed(split, graph, node_copy)]
                /\ queue' = IF b = CPU THEN queue
                            ELSE [queue EXCEPT ![b] = @ \o Recorded(b)]
           ELSE /\ queue' = [queue EXCEPT ![b] =
                        Append(@, Op("compute", split, graph, node_copy, b)) \o Recorded(b)]
                /\ UNCHANGED out
        /\ NextSplit
        /\ UNCHANGED <<config, is_alloc, node_copy, user, copies, todo, graph, outp,
                       fails>>

(* An error ends the graph and the decode; cur_copy stays. *)
ComputeFails ==
    /\ phase = "split" /\ ~MoreInputs
    /\ fails < MaxFailures
    /\ fails' = fails + 1
    /\ phase' = "idle"
    /\ due' = [r \in Rows |-> Lost]
    /\ UNCHANGED <<config, sched, mem, queue, todo, graph, split, input, logits, row>>

(***************************************************************************)
(* The outputs of the ubatch go to the next rows, asynchronously; after the *)
(* last ubatch the rows are put in the order of the batch.                  *)
(***************************************************************************)
NextRow_Same == row
NextRow == row + 1

Extract ==
    LET s == Len(config.splits)
    IN  /\ phase = "extract"
        /\ IF Backend(s) = CPU
           THEN logits' = [logits EXCEPT ![row] = out[s]] /\ UNCHANGED queue
           ELSE /\ queue' = [queue EXCEPT ![Backend(s)] =
                                Append(@, Op("fetch", s, graph, row, Backend(s)))]
                /\ UNCHANGED logits
        /\ due' = [due EXCEPT ![1 + Cardinality({r \in Rows : due[r] # Lost})] = graph]
        /\ row' = NextRow
        /\ todo' = todo - 1
        /\ phase' = IF todo = 1 THEN "order" ELSE "ubatch"
        /\ UNCHANGED <<config, sched, mem, graph, split, input, fails>>

(* std::swap of the rows, for the first two. *)
Swapped(f) == [f EXCEPT ![1] = f[2], ![2] = f[1]]
OrderOutputs ==
    /\ phase = "order"
    /\ phase' = "idle"
    /\ IF config.unsorted /\ row > 2
       THEN logits' = Swapped(logits) /\ due' = Swapped(due)
       ELSE UNCHANGED <<logits, due>>
    /\ UNCHANGED <<config, sched, mem, queue, todo, graph, split, input, row, fails>>

HostStep ==
    \/ ReuseGraph \/ (\E moves \in BOOLEAN : AllocGraph(moves))
    \/ CopyUserInput \/ CopyAsync \/ CopySync
    \/ ComputeSplit \/ ComputeFails \/ Extract \/ OrderOutputs

Next ==
    \/ \E n \in 1 .. MaxUbatches : Decode(n)
    \/ GraphReserve
    \/ HostStep
    \/ \E b \in Devices : Device(b)

(* A decode goes on once it was called, and each device works off its       *)
(* queue; nobody has to call decode.                                        *)
AllDevices ==
    UNION {{c.splits[s].backend : s \in DOMAIN c.splits} : c \in Configs} \ {CPU}
Spec == Init /\ [][Next]_vars
             /\ WF_vars(HostStep)
             /\ \A b \in AllDevices : WF_vars(b \in Devices /\ Device(b))

-----------------------------------------------------------------------------
(***************************************************************************)
(* Properties.                                                             *)
(***************************************************************************)

(* The types of the scheduler, the memory, the queues and the host; the     *)
(* rows and the graphs that are counted fit the decode.                     *)
Values == Wrong .. MaxGraphs
Ops == [op : {"compute", "copy", "wait", "record", "fetch"},
        tensor : Nat, graph : Nat, copy : Nat, to : Nat]
TypeOK ==
    /\ config \in Configs
    /\ cur_copy \in Copies /\ node_copy \in Copies /\ is_alloc \in BOOLEAN
    /\ user \in [Copies -> Values] /\ out \in [Splits -> Values]
    /\ copies \in [(Devices \cup {CPU}) \X ({0} \cup Splits) \X Copies -> Values]
    /\ queue \in [Devices -> Seq(Ops)]
    /\ phase \in {"idle", "ubatch", "split", "extract", "order"}
    /\ graph \in 0 .. MaxGraphs /\ todo \in 0 .. MaxUbatches /\ row \in 1 .. MaxUbatches + 1
    /\ split \in Nat /\ input \in Nat /\ fails \in 0 .. MaxFailures
    /\ logits \in [Rows -> Values] /\ due \in [Rows -> Values]

(* Whatever else is in flight, a split is computed from the tensors of its  *)
(* own graph: from the moment a device comes to it, each of them holds this *)
(* graph's values, not yet overwritten by a later graph, and no longer the  *)
(* ones of an earlier one.                                                  *)
InputsCurrent ==
    /\ \A b \in Devices :
          LET x == Head(queue[b])
          IN  queue[b] # <<>> /\ x.op = "compute" => Right(x.tensor, x.graph, x.copy)
    /\ \A s \in Splits : out[s] # Wrong

(* After llama_synchronize, output i of the last decode is in row i of the  *)
(* buffer, whether it was fetched from a device or computed by the host;    *)
(* also when the rows are swapped, if the CPU computed them.                *)
OutputsOrdered ==
    phase = "idle" /\ Quiet => \A r \in Rows : due[r] # Lost => logits[r] = due[r]

(* Streams that wait for each other, and a host that waits for events, get  *)
(* on: every decode returns, and all that it submitted is computed.         *)
DecodeCompletes == phase # "idle" ~> (phase = "idle" /\ Quiet)
=============================================================================
