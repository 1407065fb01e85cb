------------------------- MODULE BackendSchedProofs -------------------------
(***************************************************************************)
(* A split is computed from the tensors of its own graph, and the outputs  *)
(* arrive in their rows, for every number of backends, splits, copies and  *)
(* graphs in flight, on machines that are safe in the sense below.         *)
(*                                                                         *)
(* The argument is about every entry of a device's queue, not only about   *)
(* the one that is executed next.  An operation waits behind the ones that *)
(* compute what it reads from its own backend; what it reads from other    *)
(* backends has been copied, and is not overwritten because the record of  *)
(* the copy's event is still behind it.                                    *)
(***************************************************************************)
EXTENDS BackendSched, FiniteSetTheorems, SequenceTheorems, TLAPS

Foreign(c, s, t) == ~(t = 0 /\ c.splits[s].backend = CPU)
                    /\ ~(t # 0 /\ c.splits[t].backend = c.splits[s].backend)

(* What split_graph makes: there is a part, and what a part reads from     *)
(* elsewhere is an input of the part or of an earlier one on its backend.  *)
Split_graph(c) ==
    /\ Len(c.splits) > 0
    /\ \A s \in DOMAIN c.splits : \A t \in c.splits[s].reads : Foreign(c, s, t) =>
          \E r \in 1 .. s : /\ c.splits[r].backend = c.splits[s].backend
                            /\ \E i \in DOMAIN c.splits[r].inputs : c.splits[r].inputs[i] = t

(* The machines that need nothing but the events: no copies from device to *)
(* device, and with several copies no graph is computed again and every    *)
(* part on a device has inputs, so that its event is recorded.  Without    *)
(* the first two a split may read another graph's tensors: see             *)
(* BackendSched_peer.cfg and BackendSched_reuse.cfg.                       *)
Safe(c) ==
    /\ Split_graph(c)
    /\ ~c.peer
    /\ c.n_copies > 1 => /\ ~c.reuse
                         /\ \A s \in DOMAIN c.splits :
                               c.splits[s].backend # CPU => c.splits[s].inputs # <<>>

AllSafe == \A c \in Configs : Safe(c)

-----------------------------------------------------------------------------
Computes(x, s) == x.op = "compute" /\ x.tensor = s

(* In front of position k of queue q, the output of split s, which holds v *)
(* now, is or will be the one of graph g.                                  *)
Comes(q, k, s, g, v) ==
    \/ \E j \in 1 .. k - 1 : Computes(q[j], s) /\ q[j].graph = g
    \/ v = g /\ \A j \in 1 .. k - 1 : ~Computes(q[j], s)

Reads(s) == config.splits[s].reads
Inputs(s) == config.splits[s].inputs
Final == Len(config.splits)

(* The operations of a queue come in the order of the graphs and splits.   *)
Before(x, y) == x.op # "record" /\ y.op # "record" =>
                    /\ x.graph <= y.graph
                    /\ x.op = "compute" /\ y.op = "compute" /\ x.graph = y.graph
                          => x.tensor < y.tensor

ComputeOK(b, k) ==
    LET q == queue[b]  x == q[k]
    IN  x.op = "compute" =>
          /\ x.tensor \in Splits /\ Backend(x.tensor) = b
          /\ phase = "split" /\ x.graph = graph => x.tensor < split
          /\ \A t \in Reads(x.tensor) :
                IF Foreign(config, x.tensor, t) THEN copies[<<b, t, x.copy>>] = x.graph
                ELSE Comes(q, k, t, x.graph, out[t])
          /\ config.n_copies > 1 =>
                \E j \in k + 1 .. Len(q) : q[j].op = "record" /\ q[j].copy = x.copy

FetchOK(b, k) ==
    LET q == queue[b]  x == q[k]
    IN  x.op = "fetch" => /\ x.tensor = Final /\ Backend(Final) = b /\ x.copy \in Rows
                          /\ Comes(q, k, Final, x.graph, out[Final])

EntryOK(b, k) ==
    /\ queue[b][k].op \in {"compute", "record", "fetch"}
    /\ queue[b][k].op # "record" => queue[b][k].graph \in 1 .. graph
    /\ ComputeOK(b, k)
    /\ FetchOK(b, k)
    /\ \A j \in 1 .. k - 1 : Before(queue[b][j], queue[b][k])

QueueInv == \A b \in Devices : \A k \in 1 .. Len(queue[b]) : EntryOK(b, k)

(* Split s of this graph has been submitted. *)
Submitted(s) == phase = "extract" \/ (phase = "split" /\ s < split)

(* What the host has made of this graph. *)
HostInv ==
    /\ phase \in {"split", "extract"} => graph > 0
    /\ phase = "split" => /\ node_copy = cur_copy /\ split \in Splits
                          /\ input \in 1 .. Len(Inputs(split)) + 1
                          /\ user[node_copy] = graph
    /\ \A s \in Splits : Submitted(s) =>
          IF Backend(s) = CPU THEN out[s] = graph
          ELSE Comes(queue[Backend(s)], Len(queue[Backend(s)]) + 1, s, graph, out[s])
    /\ phase = "split" =>
          \A s \in Splits : \A i \in 1 .. Len(Inputs(s)) :
              s < split \/ (s = split /\ i < input)
                  => copies[<<Backend(s), Inputs(s)[i], node_copy>>] = graph

NoWrong == \A s \in Splits : out[s] # Wrong

(* The bounds on what is counted. *)
CountInv ==
    /\ phase = "ubatch" => todo > 0 /\ graph + todo <= MaxGraphs
    /\ phase \in {"split", "extract"} => todo > 0 /\ graph + todo <= MaxGraphs + 1
    /\ phase \in {"ubatch", "split", "extract"} => row + todo <= MaxUbatches + 1

IInv == TypeOK /\ QueueInv /\ HostInv /\ NoWrong /\ CountInv

-----------------------------------------------------------------------------
(***************************************************************************)
(* What the configuration and the types give.                              *)
(***************************************************************************)
LEMMA ConfigFacts ==
    ASSUME AllSafe, config \in Configs
    PROVE  /\ config.splits \in Seq(Split) /\ config.n_copies \in Nat /\ config.n_copies > 0
           /\ Final \in Nat /\ Final > 0 /\ Splits = 1 .. Final
           /\ \A s \in Splits : /\ Backend(s) \in Nat
                                /\ Inputs(s) \in Seq(Nat)
                                /\ Reads(s) \subseteq 0 .. s - 1
                                /\ \A i \in 1 .. Len(Inputs(s)) : Inputs(s)[i] \in Reads(s)
           /\ ~config.peer
           /\ config.n_copies > 1 =>
                 ~config.reuse /\ \A s \in Splits : Backend(s) # CPU => Inputs(s) # <<>>
<1>1. config \in Config BY SchedAssumption
<1>2. config.splits \in Seq(Split) /\ config.n_copies \in Nat /\ config.n_copies > 0
  BY <1>1 DEF Config
<1>3. Final \in Nat /\ Splits = 1 .. Final
  BY <1>2, LenProperties DEF Final, Splits
<1>4. Safe(config) BY DEF AllSafe
<1>5. \A s \in Splits : config.splits[s] \in Split
  BY <1>2, <1>3, ElementOfSeq DEF Final
<1>6. ASSUME NEW s \in Splits
      PROVE  /\ Backend(s) \in Nat /\ Inputs(s) \in Seq(Nat)
             /\ Reads(s) \subseteq 0 .. s - 1
             /\ \A i \in 1 .. Len(Inputs(s)) : Inputs(s)[i] \in Reads(s)
  <2>1. Backend(s) \in Nat /\ Inputs(s) \in Seq(Nat)
    BY <1>5 DEF Split, Backend, Inputs
  <2>2. Reads(s) \subseteq 0 .. s - 1 /\ Range(Inputs(s)) \subseteq Reads(s)
    BY SchedAssumption DEF Reads, Inputs, Splits
  <2>3. DOMAIN Inputs(s) = 1 .. Len(Inputs(s)) BY <2>1, LenProperties
  <2>4. \A i \in 1 .. Len(Inputs(s)) : Inputs(s)[i] \in Reads(s)
    BY <2>2, <2>3 DEF Range
  <2> QED BY <2>1, <2>2, <2>4
<1>7. ~config.peer /\ Final > 0
  BY <1>4, <1>3 DEF Safe, Split_graph, Final
<1>8. config.n_copies > 1 =>
          ~config.reuse /\ \A s \in Splits : Backend(s) # CPU => Inputs(s) # <<>>
  BY <1>4 DEF Safe, Splits, Backend, Inputs
<1> QED BY <1>2, <1>3, <1>6, <1>7, <1>8

(* What a split reads from elsewhere was an input. *)
LEMMA ForeignInput ==
    ASSUME AllSafe, config \in Configs,
           NEW s \in Splits, NEW t \in Reads(s), Foreign(config, s, t)
    PROVE  \E r \in 1 .. s : /\ r \in Splits /\ Backend(r) = Backend(s)
                             /\ \E i \in 1 .. Len(Inputs(r)) : Inputs(r)[i] = t
<1>1. Split_graph(config) BY DEF AllSafe, Safe
<1>2. PICK r \in 1 .. s : /\ Backend(r) = Backend(s)
                          /\ \E i \in DOMAIN Inputs(r) : Inputs(r)[i] = t
  BY <1>1 DEF Split_graph, Splits, Reads, Backend, Inputs
<1>3. s \in 1 .. Final /\ Final \in Nat /\ r \in Splits BY ConfigFacts
<1>4. DOMAIN Inputs(r) = 1 .. Len(Inputs(r)) BY <1>3, ConfigFacts, LenProperties
<1> QED BY <1>2, <1>3, <1>4

LEMMA QueueFacts ==
    ASSUME TypeOK, NEW b \in Devices
    PROVE  /\ queue[b] \in Seq(Ops) /\ Len(queue[b]) \in Nat
           /\ queue[b] = <<>> <=> Len(queue[b]) = 0
           /\ \A k \in 1 .. Len(queue[b]) : queue[b][k] \in Ops
<1>1. queue[b] \in Seq(Ops) BY DEF TypeOK
<1> QED BY <1>1, LenProperties, EmptySeq, ElementOfSeq

-----------------------------------------------------------------------------
(***************************************************************************)
(* What comes in front of a position of a queue: it stays when the queue   *)
(* grows, and when the head of the queue is executed.                      *)
(***************************************************************************)
LEMMA ComesSame ==
    ASSUME NEW q, NEW r, NEW k \in Nat, NEW s, NEW g, NEW v,
           \A j \in 1 .. k - 1 : r[j] = q[j], Comes(q, k, s, g, v)
    PROVE  Comes(r, k, s, g, v)
BY DEF Comes

LEMMA ComesLonger ==
    ASSUME NEW q, NEW r, NEW m \in Nat, NEW n \in Nat, m <= n, NEW s, NEW g, NEW v,
           \A j \in 1 .. m : r[j] = q[j],
           \A j \in m + 1 .. n : ~Computes(r[j], s),
           Comes(q, m + 1, s, g, v)
    PROVE  Comes(r, n + 1, s, g, v)
<1>1. CASE \E j \in 1 .. m : Computes(q[j], s) /\ q[j].graph = g
  BY <1>1 DEF Comes
<1>2. CASE v = g /\ \A j \in 1 .. m : ~Computes(q[j], s)
  <2>1. \A j \in 1 .. n : ~Computes(r[j], s)
    <3> SUFFICES ASSUME NEW j \in 1 .. n PROVE ~Computes(r[j], s) OBVIOUS
    <3>1. CASE j <= m BY <3>1, <1>2 DEF Computes
    <3>2. CASE j > m BY <3>2
    <3> QED BY <3>1, <3>2
  <2> QED BY <2>1, <1>2 DEF Comes
<1> QED BY <1>1, <1>2 DEF Comes

LEMMA ComesTail ==
    ASSUME NEW q, NEW r, NEW k \in Nat, k > 1, NEW s, NEW g \in Int, NEW v,
           \A j \in 1 .. k - 1 - 1 : r[j] = q[j + 1],
           \A j \in 1 .. k - 1 : q[j].op # "record" => q[j].graph \in Int /\ q[j].graph <= g,
           \A j \in 2 .. k - 1 : Before(q[1], q[j]),
           s \in Int,
           Comes(q, k, s, g, v)
    PROVE  Comes(r, k - 1, s, g, IF Computes(q[1], s) THEN q[1].graph ELSE v)
<1>1. ASSUME NEW j \in 1 .. k - 1, Computes(q[j], s), q[j].graph = g, j > 1
      PROVE  Comes(r, k - 1, s, g, IF Computes(q[1], s) THEN q[1].graph ELSE v)
  <2>1. j - 1 \in 1 .. k - 1 - 1 /\ r[j - 1] = q[j] BY <1>1
  <2> QED BY <2>1, <1>1 DEF Comes
<1>2. ASSUME Computes(q[1], s), q[1].graph = g
      PROVE  Comes(r, k - 1, s, g, IF Computes(q[1], s) THEN q[1].graph ELSE v)
  <2>1. \A j \in 2 .. k - 1 : ~Computes(q[j], s)
    BY <1>2 DEF Before, Computes
  <2>2. \A j \in 1 .. k - 1 - 1 : ~Computes(r[j], s)
    BY <2>1
  <2> QED BY <2>2, <1>2 DEF Comes
<1>3. ASSUME v = g, \A j \in 1 .. k - 1 : ~Computes(q[j], s)
      PROVE  Comes(r, k - 1, s, g, IF Computes(q[1], s) THEN q[1].graph ELSE v)
  <2>1. \A j \in 1 .. k - 1 - 1 : ~Computes(r[j], s)
    BY <1>3
  <2> QED BY <2>1, <1>3 DEF Comes
<1> QED BY <1>1, <1>2, <1>3 DEF Comes

-----------------------------------------------------------------------------
(***************************************************************************)
(* An entry stays right while the queue grows behind it and nobody writes  *)
(* what it reads.                                                          *)
(***************************************************************************)
LEMMA EntryKept ==
    ASSUME AllSafe, TypeOK, config' = config, graph' \in Nat, graph <= graph',
           NEW b \in Devices, NEW k \in 1 .. Len(queue[b]), EntryOK(b, k),
           Len(queue'[b]) \in Nat, Len(queue[b]) <= Len(queue'[b]),
           \A j \in 1 .. Len(queue[b]) : queue'[b][j] = queue[b][j],
           \A t \in Splits : Backend(t) = b => out'[t] = out[t],
           queue[b][k].op = "compute" =>
               \A t \in {0} \cup Splits :
                   copies'[<<b, t, queue[b][k].copy>>] = copies[<<b, t, queue[b][k].copy>>],
           queue[b][k].op = "compute" /\ queue[b][k].graph = graph' /\ phase' = "split"
               => queue[b][k].tensor < split'
    PROVE  EntryOK(b, k)'
<1> DEFINE q == queue[b]  x == queue[b][k]
<1>1. Len(q) \in Nat /\ k \in Nat BY QueueFacts
<1>2. queue'[b][k] = x /\ \A j \in 1 .. k - 1 : queue'[b][j] = q[j]
  BY <1>1
<1>3. /\ x.op \in {"compute", "record", "fetch"}
      /\ x.op # "record" => x.graph \in 1 .. graph'
  BY DEF EntryOK, TypeOK
<1>4. \A j \in 1 .. k - 1 : Before(queue'[b][j], queue'[b][k])
  BY <1>2 DEF EntryOK
<1>5. ComputeOK(b, k)'
  <2> SUFFICES ASSUME x.op = "compute" PROVE ComputeOK(b, k)'
    BY <1>2 DEF ComputeOK
  <2>1. /\ x.tensor \in Splits /\ Backend(x.tensor) = b
        /\ \A t \in Reads(x.tensor) :
              IF Foreign(config, x.tensor, t) THEN copies[<<b, t, x.copy>>] = x.graph
              ELSE Comes(q, k, t, x.graph, out[t])
        /\ config.n_copies > 1 =>
              \E j \in k + 1 .. Len(q) : q[j].op = "record" /\ q[j].copy = x.copy
    BY DEF EntryOK, ComputeOK
  <2>2. config.n_copies > 1 => \E j \in k + 1 .. Len(queue'[b]) :
                                  queue'[b][j].op = "record" /\ queue'[b][j].copy = x.copy
    <3> SUFFICES ASSUME config.n_copies > 1
                 PROVE  \E j \in k + 1 .. Len(queue'[b]) :
                            queue'[b][j].op = "record" /\ queue'[b][j].copy = x.copy
      OBVIOUS
    <3>1. PICK j \in k + 1 .. Len(q) : q[j].op = "record" /\ q[j].copy = x.copy BY <2>1
    <3>2. j \in k + 1 .. Len(queue'[b]) /\ j \in 1 .. Len(q) BY <1>1
    <3> QED BY <3>1, <3>2
  <2>3. ASSUME NEW t \in Reads(x.tensor)
        PROVE  IF Foreign(config, x.tensor, t) THEN copies'[<<b, t, x.copy>>] = x.graph
               ELSE Comes(queue'[b], k, t, x.graph, out'[t])
    <3>1. t \in {0} \cup Splits /\ (t = 0 \/ t \in Splits)
      BY <2>1, ConfigFacts, SMTT(30) DEF TypeOK
    <3>2. CASE Foreign(config, x.tensor, t) BY <3>1, <3>2, <2>1
    <3>3. CASE ~Foreign(config, x.tensor, t)
      <4>1. t # 0 /\ Backend(t) = b
        BY <3>3, <2>1 DEF Foreign, Backend, Devices
      <4>2. Comes(q, k, t, x.graph, out'[t]) BY <4>1, <3>1, <3>3, <2>1
      <4> HIDE DEF q, x
      <4> QED BY <4>2, <3>3, <1>1, <1>2, ComesSame
    <3> QED BY <3>2, <3>3
  <2> QED BY <1>2, <2>1, <2>2, <2>3 DEF ComputeOK, Splits, Backend, Reads
<1>6. FetchOK(b, k)'
  <2> SUFFICES ASSUME x.op = "fetch" PROVE FetchOK(b, k)'
    BY <1>2 DEF FetchOK
  <2>1. x.tensor = Final /\ Backend(Final) = b /\ x.copy \in Rows
        /\ Comes(q, k, Final, x.graph, out[Final])
    BY DEF EntryOK, FetchOK
  <2>2. Comes(q, k, Final, x.graph, out'[Final]) BY <2>1, ConfigFacts DEF TypeOK
  <2>3. Comes(queue'[b], k, Final, x.graph, out'[Final]) BY <2>2, <1>1, <1>2, ComesSame
  <2> QED BY <1>2, <2>1, <2>3 DEF FetchOK, Final, Backend, Rows
<1> QED BY <1>2, <1>3, <1>4, <1>5, <1>6 DEF EntryOK

(* A step of the host that submits nothing and writes no tensor. *)
LEMMA QueueSame ==
    ASSUME AllSafe, TypeOK, QueueInv, UNCHANGED <<config, queue, out, copies>>,
           graph' \in Nat, graph <= graph',
           phase' = "split" => graph < graph' \/ (phase = "split" /\ split' = split)
    PROVE  QueueInv'
<1> SUFFICES ASSUME NEW b \in Devices, NEW k \in 1 .. Len(queue[b]) PROVE EntryOK(b, k)'
  BY DEF QueueInv, Devices, Splits, Backend
<1>1. EntryOK(b, k) BY DEF QueueInv
<1>2. queue[b][k].op = "compute" /\ queue[b][k].graph = graph' /\ phase' = "split"
          => queue[b][k].tensor < split'
  BY <1>1 DEF EntryOK, ComputeOK, TypeOK
<1> QED BY <1>1, <1>2, EntryKept, QueueFacts

LEMMA QueueQuiet ==
    ASSUME TypeOK, Quiet, UNCHANGED <<config, queue>>
    PROVE  QueueInv'
<1>1. ASSUME NEW b \in Devices PROVE Len(queue[b]) = 0
  BY QueueFacts DEF Quiet, Synchronized, Devices
<1> QED BY <1>1 DEF QueueInv, Devices, Splits, Backend

(* Between the graphs, nothing is said of the host. *)
LEMMA HostBetween ==
    ASSUME phase' \notin {"split", "extract"}
    PROVE  HostInv'
BY DEF HostInv, Submitted

LEMMA OutSame ==
    ASSUME NoWrong, UNCHANGED <<config, out>>
    PROVE  NoWrong'
BY DEF NoWrong, Splits

-----------------------------------------------------------------------------
(***************************************************************************)
(* The actions between the graphs.                                         *)
(***************************************************************************)
LEMMA DecodeStep ==
    ASSUME AllSafe, IInv, NEW n \in 1 .. MaxUbatches, Decode(n)
    PROVE  IInv'
<1> USE DEF IInv
<1>1. TypeOK'
  <2>1. UNCHANGED <<config, cur_copy, is_alloc, node_copy, user, copies, out, queue, graph,
                    split, input, logits, fails>>
    BY DEF Decode, sched, mem
  <2>2. phase' = "ubatch" /\ todo' \in 0 .. MaxUbatches /\ row' \in 1 .. MaxUbatches + 1
    BY SchedAssumption DEF Decode
  <2>3. due' \in [Rows -> Values]
    BY SchedAssumption DEF Decode, Values, Lost, Wrong
  <2> QED BY <2>1, <2>2, <2>3 DEF TypeOK, Copies, Splits, Devices, Backend, Rows
<1>2. QueueInv' BY QueueSame DEF Decode, sched, mem, TypeOK
<1>3. HostInv' BY HostBetween DEF Decode
<1>4. NoWrong' BY OutSame DEF Decode, mem
<1>5. CountInv' BY SchedAssumption DEF CountInv, Decode, TypeOK
<1> QED BY <1>1, <1>2, <1>3, <1>4, <1>5

LEMMA ReserveStep ==
    ASSUME AllSafe, IInv, GraphReserve
    PROVE  IInv'
<1> USE DEF IInv
<1>1. TypeOK'
  <2>1. UNCHANGED <<config, node_copy, user, queue, phase, todo, graph, split, input,
                    logits, row, due, fails>>
    BY DEF GraphReserve, host, outp
  <2>2. cur_copy' \in Copies /\ is_alloc' \in BOOLEAN
    <3>1. config.n_copies \in Nat /\ config.n_copies > 0 BY ConfigFacts DEF TypeOK
    <3>2. cur_copy' = 0 /\ is_alloc' = FALSE BY DEF GraphReserve
    <3>3. 0 \in Copies BY <3>1 DEF Copies
    <3> QED BY <3>2, <3>3
  <2>3. /\ out' \in [Splits -> Values]
        /\ copies' \in [(Devices \cup {CPU}) \X ({0} \cup Splits) \X Copies -> Values]
    BY SchedAssumption DEF GraphReserve, NoValues, TypeOK, Values, Lost, Wrong
  <2> QED BY <2>1, <2>2, <2>3 DEF TypeOK, Copies, Splits, Devices, Backend, Rows
<1>2. QueueInv' BY QueueQuiet DEF GraphReserve
<1>3. HostInv' BY HostBetween DEF GraphReserve, host
<1>4. NoWrong' BY DEF NoWrong, GraphReserve, NoValues, Lost, Wrong, Splits
<1>5. CountInv' BY DEF CountInv, GraphReserve, host, outp
<1> QED BY <1>1, <1>2, <1>3, <1>4, <1>5

(* The host begins to submit a graph whose nodes read copy cur_copy. *)
LEMMA BeginFacts ==
    ASSUME AllSafe, IInv, phase = "ubatch", BeginGraph(cur_copy), node_copy' = cur_copy
    PROVE  HostInv' /\ CountInv'
<1> USE DEF IInv
<1>1. graph' = graph + 1 /\ split' = 1 /\ input' = 1 /\ phase' = "split"
      /\ UNCHANGED <<config, todo, cur_copy, queue, logits, row, due, fails>>
  BY DEF BeginGraph, outp
<1>2. user'[cur_copy] = graph' BY DEF BeginGraph, TypeOK
<1>3. CountInv' BY <1>1, SchedAssumption DEF CountInv, TypeOK
<1>4. HostInv'
  <2>1. 1 \in Splits /\ Inputs(1) \in Seq(Nat) /\ Len(Inputs(1)) \in Nat
    BY ConfigFacts, LenProperties DEF TypeOK
  <2>2. \A s \in Splits : s \in Nat /\ s >= 1 BY ConfigFacts DEF TypeOK
  <2> QED BY <1>1, <1>2, <2>1, <2>2 DEF HostInv, Submitted, Splits, Inputs, TypeOK
<1> QED BY <1>3, <1>4

LEMMA BeginType ==
    ASSUME AllSafe, IInv, phase = "ubatch", NEW c \in Copies, BeginGraph(c),
           node_copy' \in Copies, is_alloc' \in BOOLEAN,
           copies' \in [(Devices \cup {CPU}) \X ({0} \cup Splits) \X Copies -> Values],
           out' \in [Splits -> Values]
    PROVE  TypeOK'
<1> USE DEF IInv
<1>1. graph' = graph + 1 /\ split' = 1 /\ input' = 1 /\ phase' = "split"
      /\ UNCHANGED <<config, todo, cur_copy, queue, logits, row, due, fails>>
  BY DEF BeginGraph, outp
<1>2. graph' \in 0 .. MaxGraphs
  BY <1>1, SchedAssumption DEF CountInv, TypeOK
<1>3. user' \in [Copies -> Values]
  BY <1>2, SchedAssumption DEF BeginGraph, TypeOK, Values, Wrong
<1> QED BY <1>1, <1>2, <1>3 DEF TypeOK, Copies, Splits, Devices, Backend, Rows

LEMMA ReuseStep ==
    ASSUME AllSafe, IInv, ReuseGraph
    PROVE  IInv'
<1> USE DEF IInv
<1>1. phase = "ubatch" /\ config.reuse /\ BeginGraph(node_copy)
      /\ UNCHANGED <<is_alloc, node_copy, copies, out, config, queue>>
  BY DEF ReuseGraph, BeginGraph
<1>2. node_copy = cur_copy
  BY <1>1, ConfigFacts DEF TypeOK, Copies
<1>3. TypeOK' BY <1>1, BeginType DEF TypeOK
<1>4. HostInv' /\ CountInv' BY <1>1, <1>2, BeginFacts
<1>5. QueueInv' BY <1>1, QueueSame DEF BeginGraph, TypeOK
<1>6. NoWrong' BY <1>1, OutSame
<1> QED BY <1>3, <1>4, <1>5, <1>6

LEMMA AllocStep ==
    ASSUME AllSafe, IInv, NEW moves \in BOOLEAN, AllocGraph(moves)
    PROVE  IInv'
<1> USE DEF IInv
<1>1. phase = "ubatch" /\ BeginGraph(cur_copy) /\ node_copy' = cur_copy /\ is_alloc' = TRUE
      /\ UNCHANGED <<config, queue>>
  BY DEF AllocGraph, BeginGraph
<1>2. HostInv' /\ CountInv' BY <1>1, BeginFacts
<1>3. CASE moves
  <2>1. Quiet /\ NoValues BY <1>3 DEF AllocGraph, Realloc
  <2>2. /\ out' \in [Splits -> Values]
        /\ copies' \in [(Devices \cup {CPU}) \X ({0} \cup Splits) \X Copies -> Values]
    BY <2>1, SchedAssumption DEF NoValues, TypeOK, Values, Lost, Wrong
  <2>3. TypeOK' BY <1>1, <2>2, BeginType DEF TypeOK
  <2>4. QueueInv' BY <1>1, <2>1, QueueQuiet
  <2>5. NoWrong' BY <1>1, <2>1 DEF NoWrong, NoValues, Lost, Wrong, Splits
  <2> QED BY <1>2, <2>3, <2>4, <2>5
<1>4. CASE ~moves
  <2>1. UNCHANGED <<copies, out>> BY <1>4 DEF AllocGraph
  <2>2. TypeOK' BY <1>1, <2>1, BeginType DEF TypeOK
  <2>3. QueueInv' BY <1>1, <2>1, QueueSame DEF BeginGraph, TypeOK
  <2>4. NoWrong' BY <1>1, <2>1, OutSame
  <2> QED BY <1>2, <2>2, <2>3, <2>4
<1> QED BY <1>3, <1>4

LEMMA FailsStep ==
    ASSUME AllSafe, IInv, ComputeFails
    PROVE  IInv'
<1> USE DEF IInv
<1>1. UNCHANGED <<config, cur_copy, is_alloc, node_copy, user, copies, out, queue, todo,
                  graph, split, input, logits, row>> /\ phase' = "idle"
  BY DEF ComputeFails, sched, mem
<1>2. fails' \in 0 .. MaxFailures BY SchedAssumption DEF ComputeFails, TypeOK
<1>3. due' \in [Rows -> Values]
  BY SchedAssumption DEF ComputeFails, Values, Lost, Wrong
<1>4. TypeOK' BY <1>1, <1>2, <1>3 DEF TypeOK, Copies, Splits, Devices, Backend, Rows
<1>5. QueueInv' BY <1>1, QueueSame DEF TypeOK
<1>6. HostInv' BY <1>1, HostBetween
<1>7. NoWrong' BY <1>1, OutSame
<1>8. CountInv' BY <1>1 DEF CountInv
<1> QED BY <1>4, <1>5, <1>6, <1>7, <1>8

LEMMA OrderStep ==
    ASSUME AllSafe, IInv, OrderOutputs
    PROVE  IInv'
<1> USE DEF IInv
<1>1. UNCHANGED <<config, cur_copy, is_alloc, node_copy, user, copies, out, queue, todo,
                  graph, split, input, row, fails>> /\ phase' = "idle"
  BY DEF OrderOutputs, sched, mem
<1>2. logits' \in [Rows -> Values] /\ due' \in [Rows -> Values]
  <2>1. CASE config.unsorted /\ row > 2
    <3>1. 1 \in Rows /\ 2 \in Rows BY <2>1, SchedAssumption DEF Rows, TypeOK
    <3> QED BY <2>1, <3>1 DEF OrderOutputs, Swapped, TypeOK
  <2>2. CASE ~(config.unsorted /\ row > 2) BY <2>2 DEF OrderOutputs, TypeOK
  <2> QED BY <2>1, <2>2
<1>4. TypeOK' BY <1>1, <1>2 DEF TypeOK, Copies, Splits, Devices, Backend, Rows
<1>5. QueueInv' BY <1>1, QueueSame DEF TypeOK
<1>6. HostInv' BY <1>1, HostBetween
<1>7. NoWrong' BY <1>1, OutSame
<1>8. CountInv' BY <1>1 DEF CountInv
<1> QED BY <1>4, <1>5, <1>6, <1>7, <1>8

-----------------------------------------------------------------------------
(***************************************************************************)
(* The host copies an input.  When it need not wait any more, no operation *)
(* that is still queued on the backend reads this copy.                    *)
(***************************************************************************)
LEMMA CopyUnused ==
    ASSUME AllSafe, TypeOK, QueueInv, NEW b \in Devices, InputUnused(b),
           NEW k \in 1 .. Len(queue[b]), queue[b][k].op = "compute"
    PROVE  queue[b][k].copy # cur_copy
<1>1. b # CPU /\ Len(queue[b]) \in Nat BY QueueFacts DEF Devices
<1>2. CASE config.n_copies > 1
  <2>1. EntryOK(b, k) BY DEF QueueInv
  <2>2. PICK j \in k + 1 .. Len(queue[b]) :
            queue[b][j].op = "record" /\ queue[b][j].copy = queue[b][k].copy
    BY <2>1, <1>2 DEF EntryOK, ComputeOK
  <2>3. EventDone(b, cur_copy) BY <1>1, <1>2 DEF InputUnused, HasEvent
  <2>4. j \in DOMAIN queue[b] BY <1>1, QueueFacts, LenProperties
  <2> QED BY <2>2, <2>3, <2>4 DEF EventDone
<1>3. CASE ~(config.n_copies > 1)
  <2>1. queue[b] = <<>> BY <1>1, <1>3 DEF InputUnused, HasEvent, Synchronized
  <2> QED BY <2>1, QueueFacts
<1> QED BY <1>2, <1>3

LEMMA CopyNowStep ==
    ASSUME AllSafe, IInv, MoreInputs, InputUnused(Backend(split)),
           CopyNow(Backend(split), Input, graph)
    PROVE  IInv'
<1> USE DEF IInv
<1> DEFINE b == Backend(split)
<1>0. /\ UNCHANGED <<config, cur_copy, is_alloc, node_copy, user, out, queue, phase, todo,
                     graph, split, logits, row, due, fails>>
      /\ input' = input + 1
      /\ copies' = [copies EXCEPT ![<<b, Input, cur_copy>>] = graph]
  BY DEF CopyNow, sched, outp
<1>1. /\ phase = "split" /\ node_copy = cur_copy /\ split \in Splits
      /\ input \in 1 .. Len(Inputs(split)) /\ Len(Inputs(split)) \in Nat
      /\ Input = Inputs(split)[input]
  <2>1. phase = "split" /\ input <= Len(Inputs(split)) /\ Input = Inputs(split)[input]
    BY DEF MoreInputs, Inputs, Input
  <2>2. split \in Splits /\ node_copy = cur_copy /\ input \in 1 .. Len(Inputs(split)) + 1
    BY <2>1 DEF HostInv
  <2>3. Len(Inputs(split)) \in Nat BY <2>2, ConfigFacts, LenProperties DEF TypeOK
  <2> QED BY <2>1, <2>2, <2>3
<1>2. b \in Devices \cup {CPU} /\ Input \in {0} \cup Splits /\ cur_copy \in Copies
  <2>1. Input \in Reads(split) /\ Reads(split) \subseteq 0 .. split - 1
        /\ Splits = 1 .. Final /\ Final \in Nat
    BY <1>1, ConfigFacts DEF TypeOK
  <2>2. Input \in {0} \cup Splits BY <2>1, <1>1
  <2> QED BY <2>2, <1>1 DEF Devices, TypeOK
<1>3. copies' \in [(Devices \cup {CPU}) \X ({0} \cup Splits) \X Copies -> Values]
  <2>1. graph \in Values BY SchedAssumption DEF TypeOK, Values, Wrong
  <2>2. copies \in [(Devices \cup {CPU}) \X ({0} \cup Splits) \X Copies -> Values]
    BY DEF TypeOK
  <2> HIDE DEF b
  <2>3. \A D, V, x : \A f \in [D -> V], v \in V : [f EXCEPT ![x] = v] \in [D -> V]
    OBVIOUS
  <2> QED BY <1>0, <2>1, <2>2, <2>3
<1>4. TypeOK'
  BY <1>0, <1>1, <1>3 DEF TypeOK, Copies, Splits, Devices, Backend, Rows
<1>5. QueueInv'
  <2> SUFFICES ASSUME NEW d \in Devices, NEW k \in 1 .. Len(queue[d]) PROVE EntryOK(d, k)'
    BY <1>0 DEF QueueInv, Devices, Splits, Backend
  <2>1. EntryOK(d, k) BY DEF QueueInv
  <2>2. queue[d][k].op = "compute" =>
            \A t \in {0} \cup Splits :
                copies'[<<d, t, queue[d][k].copy>>] = copies[<<d, t, queue[d][k].copy>>]
    <3> SUFFICES ASSUME queue[d][k].op = "compute", NEW t \in {0} \cup Splits
                 PROVE  copies'[<<d, t, queue[d][k].copy>>] = copies[<<d, t, queue[d][k].copy>>]
      OBVIOUS
    <3>1. <<d, t, queue[d][k].copy>> # <<b, Input, cur_copy>>
      <4>1. CASE d = b BY <4>1, CopyUnused
      <4>2. CASE d # b BY <4>2
      <4> QED BY <4>1, <4>2
    <3> QED BY <1>0, <3>1 DEF TypeOK
  <2>3. queue[d][k].op = "compute" /\ queue[d][k].graph = graph' /\ phase' = "split"
            => queue[d][k].tensor < split'
    BY <2>1, <1>0 DEF EntryOK, ComputeOK
  <2>4. graph' \in Nat /\ graph <= graph' BY <1>0 DEF TypeOK
  <2>5. /\ Len(queue'[d]) \in Nat /\ Len(queue[d]) <= Len(queue'[d])
        /\ \A j \in 1 .. Len(queue[d]) : queue'[d][j] = queue[d][j]
        /\ \A t \in Splits : Backend(t) = d => out'[t] = out[t]
        /\ config' = config
    BY <1>0, QueueFacts
  <2> QED BY <2>1, <2>2, <2>3, <2>4, <2>5, EntryKept
<1>6. HostInv'
  <2>1. ASSUME NEW s \in Splits, NEW i \in 1 .. Len(Inputs(s)),
               s < split \/ (s = split /\ i < input')
        PROVE  copies'[<<Backend(s), Inputs(s)[i], node_copy>>] = graph
    <3>1. Backend(s) \in Devices \cup {CPU} BY DEF Devices
    <3>2. Inputs(s)[i] \in {0} \cup Splits
      <4>1. Inputs(s)[i] \in Reads(s) /\ Reads(s) \subseteq 0 .. s - 1
            /\ Splits = 1 .. Final /\ Final \in Nat
        BY ConfigFacts DEF TypeOK
      <4> QED BY <4>1
    <3>3. <<Backend(s), Inputs(s)[i], node_copy>>
             \in (Devices \cup {CPU}) \X ({0} \cup Splits) \X Copies
      BY <3>1, <3>2 DEF TypeOK
    <3>4. CASE <<Backend(s), Inputs(s)[i], node_copy>> = <<b, Input, cur_copy>>
      BY <3>4, <3>3, <1>0 DEF TypeOK
    <3>5. CASE <<Backend(s), Inputs(s)[i], node_copy>> # <<b, Input, cur_copy>>
      <4>1. s < split \/ (s = split /\ i < input)
        <5>1. CASE s < split BY <5>1
        <5>2. CASE s = split /\ i < input'
          <6>1. i # input BY <5>2, <3>5, <1>1
          <6>2. Len(Inputs(s)) \in Nat BY <5>2, <1>1
          <6> QED BY <6>1, <6>2, <5>2, <1>0, <1>1
        <5> QED BY <5>1, <5>2, <2>1
      <4>2. copies[<<Backend(s), Inputs(s)[i], node_copy>>] = graph
        BY <4>1, <1>1 DEF HostInv
      <4> QED BY <4>2, <3>5, <1>0 DEF TypeOK
    <3> QED BY <3>4, <3>5
  <2>2. input' \in 1 .. Len(Inputs(split)) + 1 BY <1>0, <1>1
  <2> HIDE DEF b
  <2>3. HostInv BY DEF IInv
  <2> QED BY <1>0, <1>1, <2>1, <2>2, <2>3, SMTT(30) DEF HostInv, Submitted, Splits, Backend, Inputs
<1>7. NoWrong' BY <1>0, OutSame
<1>8. CountInv' BY <1>0 DEF CountInv
<1> QED BY <1>4, <1>5, <1>6, <1>7, <1>8

LEMMA UserInputStep ==
    ASSUME AllSafe, IInv, CopyUserInput
    PROVE  IInv'
<1>1. user[node_copy] = graph BY DEF IInv, HostInv, CopyUserInput, MoreInputs
<1> QED BY <1>1, CopyNowStep DEF CopyUserInput

(* The output of a split that the host has waited for is the one of this   *)
(* graph.                                                                  *)
LEMMA WaitedFor ==
    ASSUME AllSafe, IInv, NEW s \in Splits, Submitted(s), Synchronized(Backend(s))
    PROVE  out[s] = graph
<1>1. CASE Backend(s) = CPU BY <1>1 DEF IInv, HostInv
<1>2. CASE Backend(s) # CPU
  <2>1. Backend(s) \in Devices BY <1>2 DEF Devices
  <2>2. Len(queue[Backend(s)]) = 0
    BY <2>1, <1>2, QueueFacts DEF IInv, Synchronized
  <2>3. Comes(queue[Backend(s)], 1, s, graph, out[s])
    BY <1>2, <2>2 DEF IInv, HostInv
  <2> QED BY <2>3 DEF Comes
<1> QED BY <1>1, <1>2

LEMMA CopySyncStep ==
    ASSUME AllSafe, IInv, CopySync
    PROVE  IInv'
<1>1. phase = "split" /\ split \in Splits /\ input \in 1 .. Len(Inputs(split))
      /\ Input = Inputs(split)[input] /\ Input # 0
  <2>1. phase = "split" /\ input <= Len(Inputs(split)) /\ Input = Inputs(split)[input]
    BY DEF CopySync, MoreInputs, Inputs, Input
  <2>2. split \in Splits /\ input \in 1 .. Len(Inputs(split)) + 1
    BY <2>1 DEF IInv, HostInv
  <2>3. Len(Inputs(split)) \in Nat BY <2>2, ConfigFacts, LenProperties DEF IInv, TypeOK
  <2> QED BY <2>1, <2>2, <2>3 DEF CopySync
<1>2. Input \in Splits /\ Input < split
  <2>1. Input \in Reads(split) /\ Reads(split) \subseteq 0 .. split - 1
        /\ Splits = 1 .. Final /\ Final \in Nat
    BY <1>1, ConfigFacts DEF IInv, TypeOK
  <2> QED BY <1>1, <2>1
<1>3. out[Input] = graph
  BY <1>1, <1>2, WaitedFor DEF CopySync, Submitted
<1> QED BY <1>3, CopyNowStep DEF CopySync

-----------------------------------------------------------------------------
(***************************************************************************)
(* The host submits a split, or computes it.                               *)
(***************************************************************************)

(* All the inputs of the split have been copied. *)
LEMMA SplitReady ==
    ASSUME AllSafe, IInv, phase = "split", ~MoreInputs
    PROVE  /\ split \in Splits /\ node_copy = cur_copy
           /\ \A t \in Reads(split) : t = 0 \/ (t \in Splits /\ t < split)
           /\ \A t \in Reads(split) : Foreign(config, split, t)
                  => copies[<<Backend(split), t, node_copy>>] = graph
<1> USE DEF IInv
<1>1. /\ split \in Splits /\ node_copy = cur_copy
      /\ input \in 1 .. Len(Inputs(split)) + 1
  BY DEF HostInv
<1>2. Len(Inputs(split)) \in Nat BY <1>1, ConfigFacts, LenProperties DEF TypeOK
<1>3. input = Len(Inputs(split)) + 1 BY <1>1, <1>2 DEF MoreInputs, Inputs
<1>4. \A t \in Reads(split) : t = 0 \/ (t \in Splits /\ t < split)
  <2>1. Reads(split) \subseteq 0 .. split - 1 /\ Splits = 1 .. Final /\ Final \in Nat
    BY <1>1, ConfigFacts DEF TypeOK
  <2> QED BY <1>1, <2>1
<1>5. ASSUME NEW t \in Reads(split), Foreign(config, split, t)
      PROVE  copies[<<Backend(split), t, node_copy>>] = graph
  <2>1. PICK r \in 1 .. split : /\ r \in Splits /\ Backend(r) = Backend(split)
                                /\ \E i \in 1 .. Len(Inputs(r)) : Inputs(r)[i] = t
    BY <1>1, <1>5, ForeignInput DEF TypeOK
  <2>2. PICK i \in 1 .. Len(Inputs(r)) : Inputs(r)[i] = t BY <2>1
  <2>3. r < split \/ (r = split /\ i < input)
    <3>1. split \in Nat BY DEF TypeOK
    <3>2. CASE r = split BY <3>2, <1>2, <1>3
    <3>3. CASE r # split BY <3>1, <3>3
    <3> QED BY <3>2, <3>3
  <2>4. copies[<<Backend(r), Inputs(r)[i], node_copy>>] = graph
    BY <2>1, <2>3 DEF HostInv
  <2> QED BY <2>1, <2>2, <2>4
<1> QED BY <1>1, <1>4, <1>5

(* A split that is computed while the host waits reads this graph's        *)
(* tensors.                                                                *)
LEMMA ComputedNow ==
    ASSUME AllSafe, IInv, phase = "split", ~MoreInputs, Synchronized(Backend(split))
    PROVE  Computed(split, graph, node_copy) = graph
<1>1. ASSUME NEW t \in Reads(split)
      PROVE  Value(Backend(split), t, node_copy) = graph
  <2>1. CASE t = 0 /\ Backend(split) = CPU
    BY <2>1 DEF IInv, HostInv, Value
  <2>2. CASE t # 0 /\ Backend(t) = Backend(split)
    <3>1. t \in Splits /\ Submitted(t) BY <2>2, SplitReady DEF Submitted
    <3>2. out[t] = graph BY <2>2, <3>1, WaitedFor
    <3> QED BY <2>2, <3>2 DEF Value
  <2>3. CASE Foreign(config, split, t)
    <3>1. copies[<<Backend(split), t, node_copy>>] = graph BY <2>3, SplitReady
    <3> QED BY <3>1, <2>3 DEF Value, Foreign, Backend
  <2> QED BY <2>1, <2>2, <2>3 DEF Foreign, Backend
<1> QED BY <1>1 DEF Computed, Right, Reads

(* What NextSplit leaves behind. *)
LEMMA NextSplitFacts ==
    ASSUME AllSafe, IInv, phase = "split", ~MoreInputs, NextSplit,
           UNCHANGED <<config, is_alloc, node_copy, user, copies, todo, graph, logits, row,
                       due, fails>>
    PROVE  /\ phase' \in {"split", "extract"} /\ split' \in Nat /\ input' \in Nat
           /\ cur_copy' \in Copies
           /\ phase' = "split" => /\ split' = split + 1 /\ split' \in Splits /\ input' = 1
                                  /\ cur_copy' = cur_copy
           /\ phase' = "extract" => split = Final
<1> USE DEF IInv
<1>1. split \in Splits /\ split \in Nat BY SplitReady DEF TypeOK
<1>2. Splits = 1 .. Final /\ Final \in Nat /\ config.n_copies \in Nat /\ config.n_copies > 0
  BY ConfigFacts DEF TypeOK
<1>3. CASE split < Final
  <2>1. split' = split + 1 /\ input' = 1 /\ phase' = "split" /\ cur_copy' = cur_copy
    BY <1>3 DEF NextSplit, Final
  <2> QED BY <1>1, <1>2, <1>3, <2>1 DEF TypeOK
<1>4. CASE ~(split < Final)
  <2>1. split' = split /\ input' = input /\ phase' = "extract"
        /\ cur_copy' = (cur_copy + 1) % config.n_copies
    BY <1>4 DEF NextSplit, Final
  <2>2. cur_copy' \in Copies BY <1>2, <2>1, SMTT(30) DEF TypeOK, Copies
  <2>3. split = Final BY <1>1, <1>2, <1>4
  <2> QED BY <2>1, <2>2, <2>3 DEF TypeOK
<1> QED BY <1>3, <1>4

(* The host's part of the invariant, once split s has an output to come.   *)
LEMMA NextSplitHost ==
    ASSUME AllSafe, IInv, phase = "split", ~MoreInputs, NextSplit,
           UNCHANGED <<config, is_alloc, node_copy, user, copies, todo, graph, logits, row,
                       due, fails>>,
           \A s \in Splits : s <= split =>
               IF Backend(s) = CPU THEN out'[s] = graph
               ELSE Comes(queue'[Backend(s)], Len(queue'[Backend(s)]) + 1, s, graph, out'[s])
    PROVE  HostInv' /\ CountInv'
<1> USE DEF IInv
<1>1. CountInv' BY NextSplitFacts DEF CountInv
<1>2. split \in Nat /\ Splits = 1 .. Final /\ Final \in Nat /\ split \in Splits
  BY SplitReady, ConfigFacts DEF TypeOK
<1>3. graph > 0 BY DEF HostInv
<1>4. ASSUME NEW s \in Splits, Submitted(s)'
      PROVE  IF Backend(s) = CPU THEN out'[s] = graph
             ELSE Comes(queue'[Backend(s)], Len(queue'[Backend(s)]) + 1, s, graph, out'[s])
  <2>1. s <= split BY <1>2, <1>4, NextSplitFacts DEF Submitted
  <2> QED BY <2>1
<1>5. ASSUME phase' = "split"
      PROVE  /\ node_copy' = cur_copy' /\ split' \in Splits
             /\ input' \in 1 .. Len(Inputs(split')) + 1
             /\ user'[node_copy'] = graph'
  <2>1. split' \in Splits /\ input' = 1 /\ cur_copy' = cur_copy BY <1>5, NextSplitFacts
  <2>2. Len(Inputs(split')) \in Nat BY <2>1, ConfigFacts, LenProperties DEF TypeOK
  <2> QED BY <2>1, <2>2 DEF HostInv
<1>6. ASSUME phase' = "split", NEW s \in Splits, NEW i \in 1 .. Len(Inputs(s)),
             s < split' \/ (s = split' /\ i < input')
      PROVE  copies'[<<Backend(s), Inputs(s)[i], node_copy'>>] = graph'
  <2>1. input' = 1 /\ split' = split + 1 BY <1>6, NextSplitFacts
  <2>2. s < split \/ s = split BY <1>6, <2>1, <1>2
  <2>3. Len(Inputs(s)) \in Nat BY ConfigFacts, LenProperties DEF TypeOK
  <2>4. s = split => i < input
    <3>1. input \in Nat /\ (input <= Len(Inputs(split)) => FALSE)
      BY DEF MoreInputs, Inputs, TypeOK
    <3> QED BY <3>1, <2>3
  <2> QED BY <2>2, <2>4 DEF HostInv
<1>7. HostInv'
  BY <1>3, <1>4, <1>5, <1>6 DEF HostInv, Submitted, Splits, Backend, Inputs
<1> QED BY <1>1, <1>7

(* The record of the event, if there is one. *)
LEMMA RecordedFacts ==
    ASSUME AllSafe, TypeOK, split \in Splits, NEW b \in Devices, b = Backend(split)
    PROVE  /\ Recorded(b) \in Seq(Ops) /\ Len(Recorded(b)) \in {0, 1}
           /\ \A j \in 1 .. Len(Recorded(b)) :
                  Recorded(b)[j].op = "record" /\ Recorded(b)[j].copy = cur_copy
           /\ config.n_copies > 1 => Len(Recorded(b)) = 1
<1>1. b # CPU /\ b \in Nat /\ cur_copy \in Nat
  BY ConfigFacts DEF Devices, TypeOK, Copies
<1>2. Op("record", 0, 0, cur_copy, b) \in Ops BY <1>1 DEF Op, Ops
<1>3. CASE HasEvent(b) /\ config.splits[split].inputs # <<>>
  <2>1. Recorded(b) = <<Op("record", 0, 0, cur_copy, b)>> BY <1>3 DEF Recorded
  <2>2. <<Op("record", 0, 0, cur_copy, b)>> \in Seq(Ops) BY <1>2
  <2> QED BY <2>1, <2>2 DEF Op
<1>4. CASE ~(HasEvent(b) /\ config.splits[split].inputs # <<>>)
  <2>1. Recorded(b) = <<>> BY <1>4 DEF Recorded
  <2>2. ~(config.n_copies > 1)
    <3>1. config.n_copies > 1 => Inputs(split) # <<>> BY <1>1, ConfigFacts DEF TypeOK
    <3> QED BY <3>1, <1>1, <1>4 DEF HasEvent, Inputs
  <2> QED BY <2>1, <2>2, EmptySeq
<1> QED BY <1>3, <1>4

LEMMA RecordOK ==
    ASSUME NEW b, NEW k, queue'[b][k].op = "record"
    PROVE  EntryOK(b, k)'
BY DEF EntryOK, ComputeOK, FetchOK, Before

(* The entries that were there before a split is submitted. *)
LEMMA SubmitKeeps ==
    ASSUME AllSafe, IInv, phase = "split", ~MoreInputs, NextSplit,
           UNCHANGED <<config, is_alloc, node_copy, user, copies, todo, graph, logits, row,
                       due, fails>>,
           NEW d \in Devices, NEW k \in 1 .. Len(queue[d]),
           Len(queue'[d]) \in Nat, Len(queue[d]) <= Len(queue'[d]),
           \A j \in 1 .. Len(queue[d]) : queue'[d][j] = queue[d][j],
           \A t \in Splits : Backend(t) = d => out'[t] = out[t]
    PROVE  EntryOK(d, k)'
<1>1. EntryOK(d, k) /\ TypeOK BY DEF IInv, QueueInv
<1>2. graph' \in Nat /\ graph <= graph' BY DEF IInv, TypeOK
<1>3. split \in Nat /\ Splits = 1 .. Final /\ Final \in Nat
  BY SplitReady, ConfigFacts DEF IInv, TypeOK
<1>4. queue[d][k].op = "compute" /\ queue[d][k].graph = graph' /\ phase' = "split"
          => queue[d][k].tensor < split'
  <2> SUFFICES ASSUME queue[d][k].op = "compute", queue[d][k].graph = graph', phase' = "split"
               PROVE  queue[d][k].tensor < split'
    OBVIOUS
  <2>1. queue[d][k].tensor < split /\ queue[d][k].tensor \in Splits
    BY <1>1 DEF EntryOK, ComputeOK
  <2>2. split' = split + 1 BY NextSplitFacts
  <2> QED BY <2>1, <2>2, <1>3
<1> QED BY <1>1, <1>2, <1>4, EntryKept

LEMMA SubmitElsewhere ==
    ASSUME AllSafe, IInv, phase = "split", ~MoreInputs, NextSplit,
           UNCHANGED <<config, is_alloc, node_copy, user, copies, todo, graph, logits, row,
                       due, fails>>,
           NEW d \in Devices, queue'[d] = queue[d], NEW k \in 1 .. Len(queue'[d]),
           \A t \in Splits : Backend(t) = d => out'[t] = out[t]
    PROVE  EntryOK(d, k)'
<1>1. Len(queue[d]) \in Nat BY QueueFacts DEF IInv
<1>2. /\ k \in 1 .. Len(queue[d])
      /\ Len(queue'[d]) \in Nat /\ Len(queue[d]) <= Len(queue'[d])
      /\ \A j \in 1 .. Len(queue[d]) : queue'[d][j] = queue[d][j]
  BY <1>1
<1> QED BY <1>2, SubmitKeeps

LEMMA SubmitType ==
    ASSUME AllSafe, IInv, phase = "split", ~MoreInputs, NextSplit,
           UNCHANGED <<config, is_alloc, node_copy, user, copies, todo, graph, logits, row,
                       due, fails>>,
           out' \in [Splits -> Values], queue' \in [Devices -> Seq(Ops)]
    PROVE  TypeOK'
BY NextSplitFacts, SMTT(30) DEF IInv, TypeOK, Copies, Splits, Devices, Backend, Rows

(* A sequence with an element and at most one more behind it. *)
LEMMA AppendMore ==
    ASSUME NEW S, NEW q \in Seq(S), NEW x \in S, NEW y \in Seq(S)
    PROVE  LET r == Append(q, x) \o y
           IN  /\ r \in Seq(S) /\ Len(r) = Len(q) + 1 + Len(y)
               /\ r[Len(q) + 1] = x
               /\ \A j \in 1 .. Len(q) : r[j] = q[j]
               /\ \A j \in Len(q) + 2 .. Len(r) :
                      j - (Len(q) + 1) \in 1 .. Len(y) /\ r[j] = y[j - (Len(q) + 1)]
<1> DEFINE a == Append(q, x)
           r == a \o y
<1>1. /\ a \in Seq(S) /\ Len(a) = Len(q) + 1 /\ a[Len(q) + 1] = x
      /\ \A j \in 1 .. Len(q) : a[j] = q[j]
  BY AppendProperties
<1>2. Len(q) \in Nat /\ Len(y) \in Nat BY LenProperties
<1> HIDE DEF a
<1>3. /\ r \in Seq(S) /\ Len(r) = Len(a) + Len(y)
      /\ \A j \in 1 .. Len(a) + Len(y) :
             r[j] = IF j <= Len(a) THEN a[j] ELSE y[j - Len(a)]
  BY <1>1, ConcatProperties
<1> HIDE DEF r
<1>4. r[Len(q) + 1] = x /\ \A j \in 1 .. Len(q) : r[j] = q[j] BY <1>1, <1>2, <1>3
<1>5. \A j \in Len(q) + 2 .. Len(r) :
          j - (Len(q) + 1) \in 1 .. Len(y) /\ r[j] = y[j - (Len(q) + 1)]
  BY <1>1, <1>2, <1>3
<1>6. Len(r) = Len(q) + 1 + Len(y) BY <1>1, <1>2, <1>3
<1> QED BY <1>3, <1>4, <1>5, <1>6 DEF r, a

LEMMA ComputeNowStep ==
    ASSUME AllSafe, IInv, phase = "split", ~MoreInputs, NextSplit,
           UNCHANGED <<config, is_alloc, node_copy, user, copies, todo, graph, logits, row,
                       due, fails>>,
           NEW b, b = Backend(split), Synchronized(b),
           out' = [out EXCEPT ![split] = Computed(split, graph, node_copy)],
           queue' = IF b = CPU THEN queue ELSE [queue EXCEPT ![b] = @ \o Recorded(b)]
    PROVE  IInv'
<1> USE DEF IInv
<1>0. graph \in Values BY SchedAssumption DEF TypeOK, Values, Wrong
<1>1. /\ split \in Splits /\ split \in Nat /\ graph \in Values
      /\ Splits = 1 .. Final /\ Final \in Nat
  BY <1>0, SplitReady, ConfigFacts DEF TypeOK
<1>2. out' = [out EXCEPT ![split] = graph] BY ComputedNow
<1>3. out' \in [Splits -> Values] /\ out'[split] = graph
      /\ \A s \in Splits \ {split} : out'[s] = out[s]
  BY <1>1, <1>2 DEF TypeOK
<1>4. b # CPU => /\ b \in Devices /\ queue[b] = <<>> /\ Len(queue[b]) = 0
                 /\ queue'[b] = Recorded(b)
  <2> SUFFICES ASSUME b # CPU
               PROVE  b \in Devices /\ queue[b] = <<>> /\ Len(queue[b]) = 0
                      /\ queue'[b] = Recorded(b)
    OBVIOUS
  <2>1. b \in Devices BY <1>1 DEF Devices
  <2>2. queue[b] = <<>> BY DEF Synchronized
  <2>3. queue'[b] = queue[b] \o Recorded(b) BY <2>1 DEF TypeOK
  <2>4. Recorded(b) \in Seq(Ops) BY <2>1, <1>1, RecordedFacts
  <2> QED BY <2>1, <2>2, <2>3, <2>4, ConcatEmptySeq, EmptySeq
<1>5. \A d \in Devices : d # b => queue'[d] = queue[d]
  BY DEF TypeOK
<1>6. queue' \in [Devices -> Seq(Ops)]
  <2>1. CASE b = CPU BY <2>1 DEF TypeOK
  <2>2. CASE b # CPU
    <3>1. queue[b] \o Recorded(b) \in Seq(Ops)
      BY <2>2, <1>4, <1>1, RecordedFacts, ConcatProperties, QueueFacts
    <3> QED BY <3>1, <2>2 DEF TypeOK
  <2> QED BY <2>1, <2>2
<1>7. TypeOK'
  BY <1>3, <1>6, SubmitType
<1>8. QueueInv'
  <2> SUFFICES ASSUME NEW d \in Devices, NEW k \in 1 .. Len(queue'[d]) PROVE EntryOK(d, k)'
    BY DEF QueueInv, Devices, Splits, Backend
  <2>1. CASE d = b
    <3>1. queue'[d][k].op = "record"
      BY <2>1, <1>1, <1>4, RecordedFacts DEF Devices
    <3> QED BY <3>1, RecordOK
  <2>2. CASE d # b
    <3>1. queue'[d] = queue[d] BY <2>2, <1>5
    <3>2. \A t \in Splits : Backend(t) = d => out'[t] = out[t] BY <2>2, <1>3
    <3> QED BY <3>1, <3>2, SubmitElsewhere
  <2> QED BY <2>1, <2>2
<1>9. HostInv' /\ CountInv'
  <2>1. ASSUME NEW s \in Splits, s <= split
        PROVE  IF Backend(s) = CPU THEN out'[s] = graph
               ELSE Comes(queue'[Backend(s)], Len(queue'[Backend(s)]) + 1, s, graph, out'[s])
    <3>1. s = split \/ Submitted(s) BY <1>1, <2>1 DEF Submitted
    <3>2. CASE Backend(s) = b
      <4>1. out'[s] = graph BY <3>1, <3>2, <1>3, WaitedFor
      <4>2. b # CPU => \A j \in 1 .. Len(queue'[b]) : ~Computes(queue'[b][j], s)
        BY <1>1, <1>4, RecordedFacts DEF Computes
      <4> QED BY <3>2, <4>1, <4>2 DEF Comes
    <3>3. CASE Backend(s) # b
      <4>1. s # split /\ Submitted(s) /\ out'[s] = out[s] BY <3>1, <3>3, <1>3
      <4>2. Backend(s) # CPU => queue'[Backend(s)] = queue[Backend(s)]
        BY <3>3, <1>5 DEF Devices
      <4> QED BY <4>1, <4>2 DEF HostInv
    <3> QED BY <3>2, <3>3
  <2> QED BY <2>1, NextSplitHost
<1>10. NoWrong'
  <2>1. graph # Wrong BY DEF TypeOK, Wrong
  <2> QED BY <2>1, <1>3 DEF NoWrong, Splits
<1> QED BY <1>7, <1>8, <1>9, <1>10

LEMMA SubmitStep ==
    ASSUME AllSafe, IInv, phase = "split", ~MoreInputs, NextSplit,
           UNCHANGED <<config, is_alloc, node_copy, user, copies, todo, graph, logits, row,
                       due, fails>>,
           NEW b, b = Backend(split), b # CPU, out' = out,
           queue' = [queue EXCEPT ![b] =
                        Append(@, Op("compute", split, graph, node_copy, b)) \o Recorded(b)]
    PROVE  IInv'
<1> USE DEF IInv
<1> DEFINE x == Op("compute", split, graph, node_copy, b)
           q == queue[b]
           r == queue'[b]
<1>1. /\ split \in Splits /\ split \in Nat /\ graph \in Nat /\ graph > 0
      /\ Splits = 1 .. Final /\ Final \in Nat /\ node_copy = cur_copy /\ b \in Nat
  BY SplitReady, ConfigFacts DEF TypeOK, HostInv
<1>2. b \in Devices BY <1>1 DEF Devices
<1>3. x \in Ops /\ x.op = "compute" /\ x.tensor = split /\ x.graph = graph /\ x.copy = node_copy
  <2>1. node_copy \in Nat BY ConfigFacts DEF TypeOK, Copies
  <2> QED BY <1>1, <2>1 DEF Op, Ops
<1>4. q \in Seq(Ops) /\ Len(q) \in Nat BY <1>2, QueueFacts
<1>6. r = Append(q, x) \o Recorded(b) BY <1>2 DEF TypeOK
<1>7. /\ r \in Seq(Ops) /\ Len(r) = Len(q) + 1 + Len(Recorded(b))
      /\ r[Len(q) + 1] = x
      /\ \A j \in 1 .. Len(q) : r[j] = q[j]
      /\ \A j \in Len(q) + 2 .. Len(r) : r[j].op = "record" /\ r[j].copy = cur_copy
      /\ config.n_copies > 1 => Len(r) = Len(q) + 2
  <2>1. /\ Recorded(b) \in Seq(Ops) /\ Len(Recorded(b)) \in {0, 1}
        /\ \A j \in 1 .. Len(Recorded(b)) :
               Recorded(b)[j].op = "record" /\ Recorded(b)[j].copy = cur_copy
        /\ config.n_copies > 1 => Len(Recorded(b)) = 1
    BY <1>1, <1>2, RecordedFacts
  <2> HIDE DEF x, q, r
  <2>2. /\ r \in Seq(Ops) /\ Len(r) = Len(q) + 1 + Len(Recorded(b))
        /\ r[Len(q) + 1] = x
        /\ \A j \in 1 .. Len(q) : r[j] = q[j]
        /\ \A j \in Len(q) + 2 .. Len(r) :
               /\ j - (Len(q) + 1) \in 1 .. Len(Recorded(b))
               /\ r[j] = Recorded(b)[j - (Len(q) + 1)]
    BY <1>3, <1>4, <1>6, <2>1, AppendMore
  <2>3. \A j \in Len(q) + 2 .. Len(r) : r[j].op = "record" /\ r[j].copy = cur_copy
    BY <2>1, <2>2
  <2>4. Len(r) = Len(q) + 1 + Len(Recorded(b)) BY <2>2
  <2>5. config.n_copies > 1 => Len(r) = Len(q) + 2
    <3>1. ASSUME NEW m \in Nat, NEW n, n = 1 PROVE m + 1 + n = m + 2 BY <3>1
    <3> QED BY <1>4, <2>1, <2>4, <3>1
  <2> QED BY <2>2, <2>3, <2>5
<1>8. \A d \in Devices : d # b => queue'[d] = queue[d] BY DEF TypeOK
<1>9. queue' \in [Devices -> Seq(Ops)]
  <2>1. Append(q, x) \o Recorded(b) \in Seq(Ops) BY <1>6, <1>7
  <2> QED BY <2>1 DEF TypeOK
<1>10. TypeOK'
  <2>1. out' \in [Splits -> Values] BY DEF TypeOK
  <2> QED BY <1>9, <2>1, SubmitType
<1> HIDE DEF x, q, r
<1>11. ASSUME NEW n, n = Len(q) + 1 PROVE EntryOK(b, n)'
  <2> USE <1>11
  <2>1. ComputeOK(b, n)'
    <3>1. phase' = "split" => split < split' BY <1>1, NextSplitFacts
    <3>2. ASSUME NEW t \in Reads(split)
          PROVE  IF Foreign(config, split, t) THEN copies[<<b, t, node_copy>>] = graph
                 ELSE Comes(r, n, t, graph, out[t])
      <4>1. CASE Foreign(config, split, t) BY <4>1, SplitReady
      <4>2. CASE ~Foreign(config, split, t)
        <5>1. t # 0 /\ Backend(t) = b BY <4>2 DEF Foreign, Backend
        <5>2. t \in Splits /\ Submitted(t) BY <5>1, SplitReady DEF Submitted
        <5>3. Comes(q, n, t, graph, out[t]) BY <5>1, <5>2 DEF HostInv, q
        <5>4. Comes(r, n, t, graph, out[t]) BY <5>3, <1>4, <1>7, ComesSame
        <5> QED BY <4>2, <5>4
      <4> QED BY <4>1, <4>2
    <3>3. config.n_copies > 1 => \E j \in n + 1 .. Len(r) : r[j].op = "record" /\ r[j].copy = node_copy
      <4> SUFFICES ASSUME config.n_copies > 1
                   PROVE  \E j \in n + 1 .. Len(r) : r[j].op = "record" /\ r[j].copy = node_copy
        OBVIOUS
      <4>1. n + 1 \in n + 1 .. Len(r) /\ n + 1 \in Len(q) + 2 .. Len(r) BY <1>4, <1>7
      <4> QED BY <4>1, <1>1, <1>7
    <3>4. r[n] = x BY <1>7
    <3> QED BY <1>1, <1>3, <3>1, <3>2, <3>3, <3>4
          DEF ComputeOK, Splits, Backend, Reads, r
  <2>2. ASSUME NEW j \in 1 .. n - 1 PROVE Before(r[j], r[n])
    <3>1. r[j] = q[j] /\ j \in 1 .. Len(q) BY <1>4, <1>7
    <3>2. EntryOK(b, j) BY <3>1, <1>2 DEF QueueInv, q
    <3>3. /\ q[j].op # "record" => q[j].graph \in 1 .. graph
          /\ q[j].op = "compute" /\ q[j].graph = graph => q[j].tensor < split
      BY <3>2 DEF EntryOK, ComputeOK, q
    <3> QED BY <3>1, <3>3, <1>1, <1>3, <1>7 DEF Before
  <2>3. r[n].op = "compute" /\ r[n].graph \in 1 .. graph' BY <1>1, <1>3, <1>7
  <2> QED BY <2>1, <2>2, <2>3 DEF EntryOK, FetchOK, r
<1>12. QueueInv'
  <2> SUFFICES ASSUME NEW d \in Devices, NEW k \in 1 .. Len(queue'[d]) PROVE EntryOK(d, k)'
    BY DEF QueueInv, Devices, Splits, Backend
  <2>1. CASE d = b
    <3>1. CASE k \in 1 .. Len(q)
      <4>1. /\ k \in 1 .. Len(queue[b])
            /\ Len(queue'[b]) \in Nat /\ Len(queue[b]) <= Len(queue'[b])
            /\ \A j \in 1 .. Len(queue[b]) : queue'[b][j] = queue[b][j]
        BY <3>1, <1>4, <1>7, LenProperties DEF q, r
      <4> QED BY <2>1, <4>1, SubmitKeeps
    <3>2. CASE k = Len(q) + 1 BY <2>1, <3>2, <1>11
    <3>3. CASE k \in Len(q) + 2 .. Len(r) BY <2>1, <3>3, <1>7, RecordOK, SMTT(30) DEF r
    <3>4. k \in 1 .. Len(r) /\ Len(r) \in Nat BY <2>1, <1>7, LenProperties DEF r
    <3> QED BY <3>1, <3>2, <3>3, <3>4, <1>4
  <2>2. CASE d # b
    <3>1. queue'[d] = queue[d] BY <2>2, <1>8
    <3> QED BY <3>1, SubmitElsewhere
  <2> QED BY <2>1, <2>2
<1>13. HostInv' /\ CountInv'
  <2>1. ASSUME NEW s \in Splits, s <= split
        PROVE  IF Backend(s) = CPU THEN out'[s] = graph
               ELSE Comes(queue'[Backend(s)], Len(queue'[Backend(s)]) + 1, s, graph, out'[s])
    <3>1. s = split \/ Submitted(s) BY <1>1, <2>1 DEF Submitted
    <3>2. CASE s = split
      <4>1. Len(r) \in Nat /\ Len(q) + 1 \in 1 .. (Len(r) + 1) - 1 /\ Computes(r[Len(q) + 1], s)
            /\ r[Len(q) + 1].graph = graph
        BY <3>2, <1>3, <1>4, <1>7, LenProperties DEF Computes
      <4>2. Comes(r, Len(r) + 1, s, graph, out'[s]) BY <4>1 DEF Comes
      <4> QED BY <3>2, <4>2 DEF r
    <3>3. CASE s # split /\ Submitted(s) /\ Backend(s) = b
      <4>1. Comes(q, Len(q) + 1, s, graph, out[s]) BY <3>3 DEF HostInv, q
      <4>2. \A j \in Len(q) + 1 .. Len(r) : ~Computes(r[j], s)
        <5> SUFFICES ASSUME NEW j \in Len(q) + 1 .. Len(r) PROVE ~Computes(r[j], s) OBVIOUS
        <5>1. CASE j = Len(q) + 1 BY <5>1, <3>3, <1>3, <1>7 DEF Computes
        <5>2. CASE j # Len(q) + 1
          <6>1. j \in Len(q) + 2 .. Len(r) BY <5>2, <1>4, <1>7, LenProperties
          <6> QED BY <6>1, <1>7 DEF Computes
        <5> QED BY <5>1, <5>2
      <4>3. Len(r) \in Nat /\ Len(q) <= Len(r) BY <1>4, <1>7, LenProperties
      <4>4. \A j \in 1 .. Len(q) : r[j] = q[j] BY <1>7
      <4>5. Comes(r, Len(r) + 1, s, graph, out[s])
        BY <1>4, <4>1, <4>2, <4>3, <4>4, ComesLonger
      <4> QED BY <3>3, <4>5 DEF r
    <3>4. CASE s # split /\ Submitted(s) /\ Backend(s) # b
      <4>1. Backend(s) # CPU => queue'[Backend(s)] = queue[Backend(s)]
        BY <3>4, <1>8 DEF Devices
      <4> QED BY <3>4, <4>1 DEF HostInv
    <3> QED BY <3>1, <3>2, <3>3, <3>4
  <2> QED BY <2>1, NextSplitHost
<1>14. NoWrong' BY OutSame
<1> QED BY <1>10, <1>12, <1>13, <1>14

LEMMA ComputeStep ==
    ASSUME AllSafe, IInv, ComputeSplit
    PROVE  IInv'
<1>1. /\ phase = "split" /\ ~MoreInputs /\ NextSplit
      /\ UNCHANGED <<config, is_alloc, node_copy, user, copies, todo, graph, logits, row,
                     due, fails>>
  BY DEF ComputeSplit, outp
<1>2. CASE Backend(split) = CPU \/ config.callback
  BY <1>1, <1>2, ComputeNowStep DEF ComputeSplit
<1>3. CASE ~(Backend(split) = CPU \/ config.callback)
  BY <1>1, <1>3, SubmitStep DEF ComputeSplit
<1> QED BY <1>2, <1>3

-----------------------------------------------------------------------------
(***************************************************************************)
(* The host takes the outputs of a graph.                                  *)
(***************************************************************************)
LEMMA ExtractFacts ==
    ASSUME AllSafe, IInv, Extract
    PROVE  /\ UNCHANGED <<config, cur_copy, is_alloc, node_copy, user, copies, out, graph,
                          split, input, fails>>
           /\ phase = "extract" /\ phase' \in {"order", "ubatch"}
           /\ Final \in Splits /\ graph \in Nat /\ graph > 0 /\ row \in Rows
           /\ todo' \in 0 .. MaxUbatches /\ row' \in 1 .. MaxUbatches + 1
           /\ due' \in [Rows -> Values] /\ CountInv'
<1> USE DEF IInv
<1>1. /\ UNCHANGED <<config, cur_copy, is_alloc, node_copy, user, copies, out, graph, split,
                     input, fails>>
      /\ phase = "extract" /\ phase' = IF todo = 1 THEN "order" ELSE "ubatch"
      /\ todo' = todo - 1 /\ row' = row + 1
  BY DEF Extract, sched, mem, NextRow
<1>11. PICK d : due' = [due EXCEPT ![d] = graph]
  BY Zenon DEF Extract
<1>2. /\ todo > 0 /\ graph + todo <= MaxGraphs + 1 /\ row + todo <= MaxUbatches + 1
      /\ graph > 0
  BY <1>1 DEF CountInv, HostInv
<1>3. /\ todo \in 0 .. MaxUbatches /\ row \in 1 .. MaxUbatches + 1 /\ graph \in 0 .. MaxGraphs
      /\ MaxUbatches \in Nat /\ MaxGraphs \in Nat
  BY SchedAssumption DEF TypeOK
<1>4. row \in Rows /\ todo' \in 0 .. MaxUbatches /\ row' \in 1 .. MaxUbatches + 1
  BY <1>1, <1>2, <1>3 DEF Rows
<1>5. CountInv' BY <1>1, <1>2, <1>3 DEF CountInv
<1>6. due' \in [Rows -> Values]
  <2>1. graph \in Values BY <1>3 DEF Values, Wrong
  <2>2. due \in [Rows -> Values] BY DEF TypeOK
  <2>3. \A D, V, x : \A f \in [D -> V], v \in V : [f EXCEPT ![x] = v] \in [D -> V]
    OBVIOUS
  <2> QED BY <1>11, <2>1, <2>2, <2>3
<1>7. Final \in Splits BY ConfigFacts DEF TypeOK
<1> QED BY <1>1, <1>2, <1>3, <1>4, <1>5, <1>6, <1>7

LEMMA ExtractRest ==
    ASSUME AllSafe, IInv, Extract, QueueInv', queue' \in [Devices -> Seq(Ops)],
           logits' \in [Rows -> Values]
    PROVE  IInv'
<1> USE DEF IInv
<1>1. TypeOK' BY ExtractFacts, ZenonT(40) DEF TypeOK, Copies, Splits, Devices, Backend, Rows
<1>2. HostInv' BY ExtractFacts, HostBetween
<1>3. NoWrong' BY ExtractFacts, OutSame
<1> QED BY <1>1, <1>2, <1>3, ExtractFacts

LEMMA FetchAppended ==
    ASSUME AllSafe, IInv, Extract, Backend(Final) # CPU
    PROVE  LET b == Backend(Final)
               q == queue[b]
               r == queue'[b]
               x == Op("fetch", Final, graph, row, b)
           IN  /\ b \in Devices /\ x \in Ops
               /\ queue' = [queue EXCEPT ![b] = Append(@, x)]
               /\ Len(q) \in Nat /\ r \in Seq(Ops) /\ Len(r) = Len(q) + 1 /\ r[Len(q) + 1] = x
               /\ \A j \in 1 .. Len(q) : r[j] = q[j]
               /\ \A d \in Devices : d # b => queue'[d] = queue[d]
               /\ UNCHANGED logits
<1> DEFINE b == Backend(Final)
           q == queue[b]
           x == Op("fetch", Final, graph, row, b)
<1>1. Final \in Splits /\ Final \in Nat /\ b \in Nat /\ graph \in Nat /\ row \in Nat
  BY ConfigFacts DEF IInv, TypeOK
<1>2. b \in Devices /\ x \in Ops BY <1>1 DEF Devices, Op, Ops
<1>3. q \in Seq(Ops) /\ Len(q) \in Nat BY <1>2, QueueFacts DEF IInv
<1>4. queue' = [queue EXCEPT ![b] = Append(@, x)] /\ UNCHANGED logits
  BY DEF Extract, Final
<1>5. queue'[b] = Append(q, x) /\ \A d \in Devices : d # b => queue'[d] = queue[d]
  BY <1>2, <1>4 DEF IInv, TypeOK
<1> HIDE DEF q, x
<1>6. /\ Append(q, x) \in Seq(Ops) /\ Len(Append(q, x)) = Len(q) + 1
      /\ Append(q, x)[Len(q) + 1] = x
      /\ \A j \in 1 .. Len(q) : Append(q, x)[j] = q[j]
  BY <1>2, <1>3, AppendProperties
<1> QED BY <1>2, <1>3, <1>4, <1>5, <1>6 DEF q, x

LEMMA ExtractStep ==
    ASSUME AllSafe, IInv, Extract
    PROVE  IInv'
<1> USE DEF IInv
<1>1. CASE Backend(Final) = CPU
  <2>1. queue' = queue /\ logits' = [logits EXCEPT ![row] = out[Final]]
    BY <1>1 DEF Extract, Final
  <2>2. out[Final] \in Values BY ExtractFacts DEF TypeOK
  <2>3. logits' \in [Rows -> Values] BY <2>1, <2>2 DEF TypeOK
  <2>4. QueueInv' BY <2>1, ExtractFacts, QueueSame
  <2> QED BY <2>1, <2>3, <2>4, ExtractRest DEF TypeOK
<1>2. CASE Backend(Final) # CPU
  <2>0. PICK b : b = Backend(Final) OBVIOUS
  <2> DEFINE q == queue[b]
             r == queue'[b]
             x == Op("fetch", Final, graph, row, b)
  <2>1. /\ b \in Devices /\ x \in Ops
        /\ queue' = [queue EXCEPT ![b] = Append(@, x)]
        /\ Len(q) \in Nat /\ r \in Seq(Ops) /\ Len(r) = Len(q) + 1 /\ r[Len(q) + 1] = x
        /\ \A j \in 1 .. Len(q) : r[j] = q[j]
        /\ \A d \in Devices : d # b => queue'[d] = queue[d]
        /\ UNCHANGED logits
    BY <1>2, <2>0, FetchAppended
  <2>2. queue' \in [Devices -> Seq(Ops)]
    <3>1. Append(q, x) \in Seq(Ops) BY <2>1, AppendProperties, QueueFacts
    <3> QED BY <3>1, <2>1 DEF TypeOK
  <2>3. x.op = "fetch" /\ x.tensor = Final /\ x.graph = graph /\ x.copy = row BY DEF Op
  <2>4. /\ \A d \in Devices : d # b => queue'[d] = queue[d]
        /\ Len(q) \in Nat /\ Len(r) = Len(q) + 1 /\ r[Len(q) + 1] = x
        /\ \A j \in 1 .. Len(q) : r[j] = q[j]
        /\ b \in Devices
    BY <2>1
  <2>5. ASSUME NEW d \in Devices, NEW k \in 1 .. Len(queue[d]) PROVE EntryOK(d, k)'
    <3>1. EntryOK(d, k) BY DEF QueueInv
    <3>2. graph' \in Nat /\ graph <= graph' /\ phase' # "split" BY ExtractFacts
    <3>3. /\ Len(queue'[d]) \in Nat /\ Len(queue[d]) <= Len(queue'[d])
          /\ \A j \in 1 .. Len(queue[d]) : queue'[d][j] = queue[d][j]
      <4>1. CASE d = b BY <4>1, <2>4
      <4>2. CASE d # b
        <5>1. queue'[d] = queue[d] /\ Len(queue[d]) \in Nat BY <4>2, <2>4, QueueFacts
        <5> QED BY <5>1
      <4> QED BY <4>1, <4>2
    <3> HIDE DEF q, r, x
    <3> QED BY <3>1, <3>2, <3>3, ExtractFacts, EntryKept
  <2>6. ASSUME NEW n, n = Len(q) + 1 PROVE EntryOK(b, n)'
    <3>1. r[n] = x BY <2>4, <2>6
    <3>2. FetchOK(b, n)'
      <4>1. Submitted(Final) /\ Final \in Splits BY ExtractFacts DEF Submitted
      <4>2. Comes(q, n, Final, graph, out[Final]) BY <1>2, <2>0, <2>6, <4>1 DEF HostInv
      <4>3. Comes(r, n, Final, graph, out[Final])
        <5> HIDE DEF q, r
        <5>1. n \in Nat /\ \A j \in 1 .. n - 1 : r[j] = q[j] BY <2>4, <2>6
        <5> QED BY <4>2, <5>1, ComesSame
      <4>4. row \in Rows /\ UNCHANGED <<config, out>> BY ExtractFacts
      <4> QED BY <2>0, <2>3, <3>1, <4>3, <4>4 DEF FetchOK, Final, Backend, Rows
    <3>3. ASSUME NEW j \in 1 .. n - 1 PROVE Before(r[j], r[n])
      <4>1. r[j] = q[j] /\ j \in 1 .. Len(q) BY <2>4, <2>6
      <4>2. EntryOK(b, j) BY <4>1, <2>4 DEF QueueInv
      <4>3. q[j].op # "record" => q[j].graph \in 1 .. graph
        BY <4>2 DEF EntryOK
      <4> QED BY <4>1, <4>3, <3>1, <2>3, ExtractFacts DEF Before
    <3>4. graph' = graph /\ graph \in 1 .. graph BY ExtractFacts
    <3> HIDE DEF x
    <3>5. r[n].op = "fetch" /\ r[n].graph \in 1 .. graph' BY <2>3, <3>1, <3>4
    <3> QED BY <3>2, <3>3, <3>5 DEF EntryOK, ComputeOK
  <2>7. QueueInv'
    <3> SUFFICES ASSUME NEW d \in Devices, NEW k \in 1 .. Len(queue'[d]) PROVE EntryOK(d, k)'
      BY ExtractFacts DEF QueueInv, Devices, Splits, Backend
    <3>1. CASE d = b
      <4>1. k \in 1 .. Len(q) \/ k = Len(q) + 1 BY <3>1, <2>4
      <4>2. CASE k \in 1 .. Len(q) BY <4>2, <3>1, <2>5
      <4>3. CASE k = Len(q) + 1 BY <4>3, <3>1, <2>6
      <4> QED BY <4>1, <4>2, <4>3
    <3>2. CASE d # b
      <4>1. queue'[d] = queue[d] BY <3>2, <2>4
      <4> HIDE DEF q, r, x
      <4>2. k \in 1 .. Len(queue[d]) BY <4>1
      <4> QED BY <4>2, <2>5
    <3> QED BY <3>1, <3>2
  <2>8. logits' \in [Rows -> Values] BY <2>1 DEF TypeOK
  <2> QED BY <2>2, <2>7, <2>8, ExtractRest
<1> QED BY <1>1, <1>2

-----------------------------------------------------------------------------
(***************************************************************************)
(* A device executes the head of its queue.                                *)
(***************************************************************************)

(* The tensors that the head reads are those of its graph. *)
LEMMA HeadRight ==
    ASSUME AllSafe, IInv, NEW b \in Devices, Len(queue[b]) > 0, queue[b][1].op = "compute"
    PROVE  /\ queue[b][1].tensor \in Splits /\ Backend(queue[b][1].tensor) = b
           /\ queue[b][1].graph \in 1 .. graph
           /\ Right(queue[b][1].tensor, queue[b][1].graph, queue[b][1].copy)
<1> DEFINE x == queue[b][1]
<1>1. 1 \in 1 .. Len(queue[b]) BY QueueFacts DEF IInv
<1>2. EntryOK(b, 1) BY <1>1 DEF IInv, QueueInv
<1>3. /\ x.tensor \in Splits /\ Backend(x.tensor) = b /\ x.graph \in 1 .. graph
      /\ \A t \in Reads(x.tensor) :
            IF Foreign(config, x.tensor, t) THEN copies[<<b, t, x.copy>>] = x.graph
            ELSE Comes(queue[b], 1, t, x.graph, out[t])
  BY <1>2 DEF EntryOK, ComputeOK
<1>4. b # CPU BY DEF Devices
<1>5. ASSUME NEW t \in Reads(x.tensor)
      PROVE  Value(b, t, x.copy) = x.graph
  <2>1. CASE Foreign(config, x.tensor, t)
    BY <2>1, <1>3, <1>4 DEF Value, Foreign, Backend
  <2>2. CASE ~Foreign(config, x.tensor, t)
    <3>1. t # 0 /\ Backend(t) = b BY <2>2, <1>3, <1>4 DEF Foreign, Backend
    <3>2. out[t] = x.graph
      <4>1. Comes(queue[b], 1, t, x.graph, out[t]) BY <2>2, <1>3
      <4> HIDE DEF x
      <4> QED BY <4>1 DEF Comes
    <3> QED BY <3>1, <3>2 DEF Value
  <2> QED BY <2>1, <2>2
<1> QED BY <1>3, <1>5 DEF Right, Reads

(* A device's step: the head leaves the queue, and if it was a split, its  *)
(* output is now the one of its graph.                                     *)
LEMMA DeviceFacts ==
    ASSUME AllSafe, IInv, NEW b \in Devices, Device(b)
    PROVE  LET q == queue[b]
               r == queue'[b]
               x == q[1]
           IN  /\ UNCHANGED <<config, cur_copy, is_alloc, node_copy, user, copies, phase, todo,
                              graph, split, input, row, due, fails>>
               /\ Len(q) \in Nat /\ Len(q) > 0 /\ x \in Ops
               /\ x.op \in {"compute", "record", "fetch"}
               /\ r \in Seq(Ops) /\ Len(r) = Len(q) - 1
               /\ \A j \in 1 .. Len(r) : r[j] = q[j + 1]
               /\ queue' \in [Devices -> Seq(Ops)]
               /\ \A d \in Devices : d # b => queue'[d] = queue[d]
               /\ out' \in [Splits -> Values]
               /\ \A s \in Splits : out'[s] = IF Computes(x, s) THEN x.graph ELSE out[s]
               /\ \A s \in Splits : Computes(x, s) => Backend(s) = b /\ x.graph > 0
               /\ logits' = IF x.op = "fetch" THEN [logits EXCEPT ![x.copy] = out[x.tensor]]
                            ELSE logits
<1> DEFINE q == queue[b]
           r == queue'[b]
           x == q[1]
<1>1. q \in Seq(Ops) /\ q # <<>> /\ Len(q) \in Nat /\ Len(q) > 0
      /\ \A k \in 1 .. Len(q) : q[k] \in Ops
  BY QueueFacts DEF IInv, Device
<1>2. Head(q) = x BY <1>1
<1>3. /\ UNCHANGED <<config, cur_copy, is_alloc, node_copy, user, phase, todo, graph, split,
                     input, row, due, fails>>
      /\ queue' = [queue EXCEPT ![b] = Tail(@)]
  BY DEF Device, sched, host
<1>4. /\ out' = IF x.op = "compute"
                THEN [out EXCEPT ![x.tensor] = Computed(x.tensor, x.graph, x.copy)]
                ELSE out
      /\ copies' = IF x.op = "copy"
                   THEN [copies EXCEPT ![<<x.to, x.tensor, x.copy>>] = out[x.tensor]]
                   ELSE copies
      /\ logits' = IF x.op = "fetch" THEN [logits EXCEPT ![x.copy] = out[x.tensor]]
                   ELSE logits
  BY <1>2 DEF Device
<1>5. x \in Ops /\ x.op \in {"compute", "record", "fetch"}
  <2>1. 1 \in 1 .. Len(q) BY <1>1
  <2>2. EntryOK(b, 1) BY <2>1 DEF IInv, QueueInv
  <2> QED BY <2>1, <2>2, <1>1 DEF EntryOK
<1>6. UNCHANGED copies BY <1>4, <1>5
<1>7. /\ r = Tail(q) /\ \A d \in Devices : d # b => queue'[d] = queue[d]
  BY <1>3 DEF IInv, TypeOK
<1>8. /\ Tail(q) \in Seq(Ops) /\ Len(Tail(q)) = Len(q) - 1
      /\ \A j \in 1 .. Len(Tail(q)) : Tail(q)[j] = q[j + 1]
  <2> HIDE DEF q
  <2> QED BY <1>1, HeadTailProperties
<1>9. queue' \in [Devices -> Seq(Ops)] BY <1>3, <1>8 DEF IInv, TypeOK
<1>10. /\ out' \in [Splits -> Values]
       /\ \A s \in Splits : out'[s] = IF Computes(x, s) THEN x.graph ELSE out[s]
       /\ \A s \in Splits : Computes(x, s) => Backend(s) = b /\ x.graph > 0
  <2>1. CASE x.op = "compute"
    <3>1. /\ x.tensor \in Splits /\ Backend(x.tensor) = b /\ x.graph \in 1 .. graph
          /\ Right(x.tensor, x.graph, x.copy)
      BY <1>1, <2>1, HeadRight
    <3>2. out' = [out EXCEPT ![x.tensor] = x.graph] BY <1>4, <2>1, <3>1 DEF Computed
    <3>3. x.graph \in Values /\ x.graph > 0
      BY <3>1, SchedAssumption DEF IInv, TypeOK, Values, Wrong
    <3> HIDE DEF x
    <3>4. out' \in [Splits -> Values] BY <3>1, <3>2, <3>3 DEF IInv, TypeOK
    <3>5. ASSUME NEW s \in Splits
          PROVE  out'[s] = IF Computes(x, s) THEN x.graph ELSE out[s]
      BY <2>1, <3>1, <3>2 DEF IInv, TypeOK, Computes
    <3> QED BY <3>1, <3>3, <3>4, <3>5 DEF Computes
  <2>2. CASE x.op # "compute"
    BY <1>4, <2>2 DEF Computes, IInv, TypeOK
  <2> QED BY <2>1, <2>2
<1> HIDE DEF x, q
<1> QED BY <1>1, <1>3, <1>4, <1>5, <1>6, <1>7, <1>8, <1>9, <1>10 DEF x, q

LEMMA ComesAfter ==
    ASSUME AllSafe, IInv, NEW b \in Devices, Device(b),
           NEW k \in 1 .. Len(queue[b]), NEW s \in Splits, NEW g \in Int,
           \A j \in 1 .. k : queue[b][j].op # "record" => queue[b][j].graph <= g,
           Comes(queue[b], k + 1, s, g, out[s])
    PROVE  Comes(queue'[b], k, s, g, out'[s])
<1> DEFINE q == queue[b]
           r == queue'[b]
<1>1. /\ Len(q) \in Nat /\ Len(q) > 0 /\ Len(r) = Len(q) - 1
      /\ \A j \in 1 .. Len(r) : r[j] = q[j + 1]
      /\ out'[s] = IF Computes(q[1], s) THEN q[1].graph ELSE out[s]
  BY DeviceFacts
<1>2. k \in Nat /\ k + 1 \in Nat /\ k + 1 > 1 /\ s \in Int
  <2>1. Splits = 1 .. Final /\ Final \in Nat BY ConfigFacts DEF IInv, TypeOK
  <2>2. s \in Int BY <2>1
  <2>3. k \in Nat BY <1>1
  <2> QED BY <2>2, <2>3
<1>3. \A j \in 1 .. Len(q) : EntryOK(b, j) BY DEF IInv, QueueInv
<1>4. \A j \in 2 .. (k + 1) - 1 : Before(q[1], q[j])
  <2> SUFFICES ASSUME NEW j \in 2 .. (k + 1) - 1 PROVE Before(q[1], q[j]) OBVIOUS
  <2>1. j \in 1 .. Len(q) /\ 1 \in 1 .. j - 1 BY <1>1, <1>2
  <2> QED BY <1>3, <2>1 DEF EntryOK
<1>5. \A j \in 1 .. (k + 1) - 1 : q[j].op # "record" => q[j].graph \in Int /\ q[j].graph <= g
  <2> SUFFICES ASSUME NEW j \in 1 .. (k + 1) - 1, q[j].op # "record"
               PROVE  q[j].graph \in Int /\ q[j].graph <= g
    OBVIOUS
  <2>1. j \in 1 .. Len(q) /\ j \in 1 .. k BY <1>1, <1>2
  <2>2. q[j].graph \in 1 .. graph BY <1>3, <2>1 DEF EntryOK
  <2> QED BY <2>1, <2>2
<1>6. PICK n : n = k + 1 OBVIOUS
<1>7. /\ n \in Nat /\ n > 1 /\ s \in Int /\ n - 1 = k
      /\ \A j \in 2 .. n - 1 : Before(q[1], q[j])
      /\ \A j \in 1 .. n - 1 : q[j].op # "record" => q[j].graph \in Int /\ q[j].graph <= g
      /\ Comes(q, n, s, g, out[s])
  BY <1>2, <1>4, <1>5, <1>6
<1>8. \A j \in 1 .. n - 1 - 1 : r[j] = q[j + 1]
  <2> SUFFICES ASSUME NEW j \in 1 .. n - 1 - 1 PROVE r[j] = q[j + 1] OBVIOUS
  <2>1. j \in 1 .. Len(r) BY <1>1, <1>2, <1>6
  <2> QED BY <1>1, <2>1
<1> HIDE DEF q, r
<1>9. Comes(r, n - 1, s, g, IF Computes(q[1], s) THEN q[1].graph ELSE out[s])
  BY <1>7, <1>8, ComesTail
<1> QED BY <1>1, <1>7, <1>9 DEF r

LEMMA DeviceEntry ==
    ASSUME AllSafe, IInv, NEW b \in Devices, Device(b), NEW k \in 1 .. Len(queue'[b])
    PROVE  EntryOK(b, k)'
<1> DEFINE q == queue[b]
           r == queue'[b]
           y == q[k + 1]
<1>1. /\ Len(q) \in Nat /\ Len(q) > 0 /\ Len(r) = Len(q) - 1
      /\ \A j \in 1 .. Len(r) : r[j] = q[j + 1]
      /\ UNCHANGED <<config, copies, phase, graph, split>>
  BY DeviceFacts
<1>2. k \in Nat /\ k \in 1 .. Len(q) /\ k + 1 \in 1 .. Len(q) BY <1>1
<1>3. \A j \in 1 .. Len(q) : EntryOK(b, j) BY DEF IInv, QueueInv
<1>4. EntryOK(b, k + 1) /\ r[k] = y BY <1>1, <1>2, <1>3
<1>5. ASSUME y.op # "record"
      PROVE  /\ y.graph \in 1 .. graph
             /\ \A j \in 1 .. k : q[j].op # "record" => q[j].graph <= y.graph
  <2>1. y.graph \in 1 .. graph BY <1>4, <1>5 DEF EntryOK
  <2>2. ASSUME NEW j \in 1 .. k, q[j].op # "record" PROVE q[j].graph <= y.graph
    <3>1. j \in 1 .. (k + 1) - 1 BY <1>2
    <3> QED BY <1>4, <1>5, <2>2, <3>1 DEF EntryOK, Before
  <2> QED BY <2>1, <2>2
<1>6. \A j \in 1 .. k - 1 : Before(r[j], r[k])
  <2> SUFFICES ASSUME NEW j \in 1 .. k - 1 PROVE Before(r[j], r[k]) OBVIOUS
  <2>1. j + 1 \in 1 .. (k + 1) - 1 /\ r[j] = q[j + 1] BY <1>1, <1>2
  <2>2. \A i \in 1 .. (k + 1) - 1 : Before(q[i], q[k + 1]) BY <1>4 DEF EntryOK
  <2> QED BY <1>4, <2>1, <2>2
<1>7. ComputeOK(b, k)'
  <2> SUFFICES ASSUME y.op = "compute" PROVE ComputeOK(b, k)'
    BY <1>4 DEF ComputeOK
  <2>1. /\ y.tensor \in Splits /\ Backend(y.tensor) = b
        /\ phase = "split" /\ y.graph = graph => y.tensor < split
        /\ \A t \in Reads(y.tensor) :
              IF Foreign(config, y.tensor, t) THEN copies[<<b, t, y.copy>>] = y.graph
              ELSE Comes(q, k + 1, t, y.graph, out[t])
        /\ config.n_copies > 1 =>
              \E j \in (k + 1) + 1 .. Len(q) : q[j].op = "record" /\ q[j].copy = y.copy
    BY <1>4 DEF EntryOK, ComputeOK
  <2>2. config.n_copies > 1 =>
            \E j \in k + 1 .. Len(r) : r[j].op = "record" /\ r[j].copy = y.copy
    <3> SUFFICES ASSUME config.n_copies > 1
                 PROVE  \E j \in k + 1 .. Len(r) : r[j].op = "record" /\ r[j].copy = y.copy
      OBVIOUS
    <3>1. PICK j \in (k + 1) + 1 .. Len(q) : q[j].op = "record" /\ q[j].copy = y.copy BY <2>1
    <3>2. j - 1 \in k + 1 .. Len(r) /\ j - 1 \in 1 .. Len(r) /\ (j - 1) + 1 = j BY <1>1, <1>2
    <3>3. r[j - 1] = q[j] BY <1>1, <3>2
    <3> HIDE DEF q, r, y
    <3> QED BY <3>1, <3>2, <3>3
  <2>3. ASSUME NEW t \in Reads(y.tensor), ~Foreign(config, y.tensor, t)
        PROVE  Comes(r, k, t, y.graph, out'[t])
    <3>1. t # 0 /\ (t = 0 \/ t \in Splits)
      <4>1. Reads(y.tensor) \subseteq 0 .. y.tensor - 1 /\ Splits = 1 .. Final /\ Final \in Nat
        BY <2>1, ConfigFacts DEF IInv, TypeOK
      <4>2. t # 0 BY <2>1, <2>3 DEF Foreign, Backend, Devices
      <4> QED BY <2>1, <4>1, <4>2
    <3>2. y.graph \in Int BY <1>5
    <3>3. Comes(q, k + 1, t, y.graph, out[t]) BY <2>1, <2>3
    <3>4. \A j \in 1 .. k : q[j].op # "record" => q[j].graph <= y.graph BY <1>5
    <3> QED BY <1>2, <3>1, <3>2, <3>3, <3>4, ComesAfter
  <2> HIDE DEF y
  <2> QED BY <1>1, <1>4, <2>1, <2>2, <2>3 DEF ComputeOK, Splits, Backend, Reads
<1>8. FetchOK(b, k)'
  <2> SUFFICES ASSUME y.op = "fetch" PROVE FetchOK(b, k)'
    BY <1>4 DEF FetchOK
  <2>1. /\ y.tensor = Final /\ Backend(Final) = b /\ y.copy \in Rows
        /\ Comes(q, k + 1, Final, y.graph, out[Final])
    BY <1>4 DEF EntryOK, FetchOK
  <2>2. Final \in Splits BY ConfigFacts DEF IInv, TypeOK
  <2>3. y.graph \in Int /\ \A j \in 1 .. k : q[j].op # "record" => q[j].graph <= y.graph
    BY <1>5
  <2>4. Comes(r, k, Final, y.graph, out'[Final]) BY <1>2, <2>1, <2>2, <2>3, ComesAfter
  <2> HIDE DEF y
  <2> QED BY <1>1, <1>4, <2>1, <2>4 DEF FetchOK, Final, Backend, Rows
<1>9. r[k].op \in {"compute", "record", "fetch"}
      /\ (r[k].op # "record" => r[k].graph \in 1 .. graph')
  BY <1>1, <1>4 DEF EntryOK
<1> QED BY <1>6, <1>7, <1>8, <1>9 DEF EntryOK

LEMMA DeviceStep ==
    ASSUME AllSafe, IInv, NEW b \in Devices, Device(b)
    PROVE  IInv'
<1> USE DEF IInv
<1> DEFINE q == queue[b]
           r == queue'[b]
           x == q[1]
<1>1. /\ UNCHANGED <<config, cur_copy, is_alloc, node_copy, user, copies, phase, todo,
                     graph, split, input, row, due, fails>>
      /\ Len(q) \in Nat /\ Len(q) > 0 /\ Len(r) = Len(q) - 1 /\ x \in Ops
      /\ queue' \in [Devices -> Seq(Ops)] /\ out' \in [Splits -> Values]
      /\ \A d \in Devices : d # b => queue'[d] = queue[d]
      /\ \A s \in Splits : out'[s] = IF Computes(x, s) THEN x.graph ELSE out[s]
      /\ \A s \in Splits : Computes(x, s) => Backend(s) = b /\ x.graph > 0
      /\ logits' = IF x.op = "fetch" THEN [logits EXCEPT ![x.copy] = out[x.tensor]]
                   ELSE logits
  BY DeviceFacts
<1>2. logits' \in [Rows -> Values]
  <2>1. CASE x.op = "fetch"
    <3>1. 1 \in 1 .. Len(q) BY <1>1
    <3>2. x.tensor = Final BY <2>1, <3>1 DEF QueueInv, EntryOK, FetchOK
    <3>3. out[x.tensor] \in Values BY <3>2, ConfigFacts DEF TypeOK
    <3> QED BY <1>1, <2>1, <3>3 DEF TypeOK
  <2>2. CASE x.op # "fetch" BY <1>1, <2>2 DEF TypeOK
  <2> QED BY <2>1, <2>2
<1>3. TypeOK'
  BY <1>1, <1>2 DEF TypeOK, Copies, Splits, Devices, Backend, Rows
<1>4. QueueInv'
  <2> SUFFICES ASSUME NEW d \in Devices, NEW k \in 1 .. Len(queue'[d]) PROVE EntryOK(d, k)'
    BY <1>1 DEF QueueInv, Devices, Splits, Backend
  <2>1. CASE d = b BY <2>1, DeviceEntry
  <2>2. CASE d # b
    <3>1. queue'[d] = queue[d] /\ k \in 1 .. Len(queue[d]) /\ Len(queue[d]) \in Nat
      BY <1>1, <2>2, QueueFacts
    <3>2. EntryOK(d, k) BY <3>1 DEF QueueInv
    <3>3. \A t \in Splits : Backend(t) = d => out'[t] = out[t] BY <1>1, <2>2
    <3>4. graph' \in Nat /\ graph <= graph' BY <1>1 DEF TypeOK
    <3>5. queue[d][k].op = "compute" /\ queue[d][k].graph = graph' /\ phase' = "split"
              => queue[d][k].tensor < split'
      BY <1>1, <3>2 DEF EntryOK, ComputeOK
    <3> HIDE DEF q, r, x
    <3> QED BY <1>1, <3>1, <3>2, <3>3, <3>4, <3>5, EntryKept, SMTT(30)
  <2> QED BY <2>1, <2>2
<1>5. HostInv'
  <2>1. ASSUME NEW s \in Splits, Submitted(s)
        PROVE  IF Backend(s) = CPU THEN out'[s] = graph
               ELSE Comes(queue'[Backend(s)], Len(queue'[Backend(s)]) + 1, s, graph, out'[s])
    <3>0. IF Backend(s) = CPU THEN out[s] = graph
          ELSE Comes(queue[Backend(s)], Len(queue[Backend(s)]) + 1, s, graph, out[s])
      BY <2>1 DEF HostInv
    <3>1. CASE Backend(s) = b
      <4>1. b # CPU /\ Comes(q, Len(q) + 1, s, graph, out[s]) BY <3>0, <3>1 DEF Devices
      <4>2. \A j \in 1 .. Len(q) : q[j].op # "record" => q[j].graph <= graph
        BY DEF QueueInv, EntryOK, TypeOK
      <4>3. Len(q) \in 1 .. Len(q) /\ graph \in Int BY <1>1 DEF TypeOK
      <4>4. Comes(r, Len(q), s, graph, out'[s]) BY <4>1, <4>2, <4>3, ComesAfter
      <4>5. Len(r) + 1 = Len(q) BY <1>1
      <4> QED BY <3>1, <4>1, <4>4, <4>5
    <3>2. CASE Backend(s) # b
      <4>1. out'[s] = out[s] BY <1>1, <3>2
      <4>2. Backend(s) # CPU => queue'[Backend(s)] = queue[Backend(s)]
        BY <1>1, <3>2 DEF Devices
      <4> QED BY <3>0, <4>1, <4>2
    <3> QED BY <3>1, <3>2
  <2>2. HostInv /\ UNCHANGED <<config, cur_copy, node_copy, user, copies, phase, graph, split,
                               input>>
    BY <1>1
  <2> HIDE DEF q, r, x
  <2> QED BY <2>1, <2>2 DEF HostInv, Submitted, Splits, Backend, Inputs
<1>6. NoWrong'
  <2>1. \A s \in Splits : out'[s] # Wrong BY <1>1, SMTT(30) DEF NoWrong, Wrong, Ops
  <2> QED BY <1>1, <2>1 DEF NoWrong, Splits
<1>7. CountInv' BY <1>1 DEF CountInv
<1> QED BY <1>3, <1>4, <1>5, <1>6, <1>7

-----------------------------------------------------------------------------
LEMMA InitIInv == AllSafe /\ Init => IInv
<1> SUFFICES ASSUME AllSafe, Init PROVE IInv OBVIOUS
<1>1. config \in Configs BY DEF Init
<1>2. config.n_copies \in Nat /\ config.n_copies > 0 BY <1>1, ConfigFacts
<1>3. Lost \in Values /\ Lost # Wrong BY SchedAssumption DEF Lost, Wrong, Values
<1>4. 0 \in Copies BY <1>2 DEF Copies
<1>5. queue \in [Devices -> Seq(Ops)] /\ \A b \in Devices : Len(queue[b]) = 0
  BY EmptySeq DEF Init
<1>6. TypeOK
  <2>1. /\ user \in [Copies -> Values] /\ out \in [Splits -> Values]
        /\ copies \in [(Devices \cup {CPU}) \X ({0} \cup Splits) \X Copies -> Values]
        /\ logits \in [Rows -> Values] /\ due \in [Rows -> Values]
    BY <1>3 DEF Init
  <2>2. cur_copy \in Copies /\ node_copy \in Copies BY <1>4 DEF Init
  <2>3. is_alloc \in BOOLEAN /\ phase \in {"idle", "ubatch", "split", "extract", "order"}
    BY DEF Init
  <2>4. /\ graph \in 0 .. MaxGraphs /\ todo \in 0 .. MaxUbatches /\ row \in 1 .. MaxUbatches + 1
        /\ split \in Nat /\ input \in Nat /\ fails \in 0 .. MaxFailures
    BY SchedAssumption DEF Init
  <2> QED BY <1>1, <1>5, <2>1, <2>2, <2>3, <2>4 DEF TypeOK
<1>7. QueueInv BY <1>5 DEF QueueInv
<1>8. HostInv /\ CountInv BY DEF Init, HostInv, CountInv, Submitted
<1>9. NoWrong BY <1>3 DEF Init, NoWrong
<1> QED BY <1>6, <1>7, <1>8, <1>9 DEF IInv

LEMMA StutterIInv == IInv /\ UNCHANGED vars => IInv'
<1> SUFFICES ASSUME IInv, UNCHANGED vars PROVE IInv' OBVIOUS
<1>1. UNCHANGED <<config, cur_copy, is_alloc, node_copy, user, copies, out, queue, phase, todo,
                  graph, split, input, logits, row, due, fails>>
  BY DEF vars, sched, mem, host, outp
<1>2. TypeOK' BY <1>1 DEF IInv, TypeOK, Copies, Splits, Devices, Backend, Rows
<1>3. QueueInv'
  BY <1>1 DEF IInv, QueueInv, EntryOK, ComputeOK, FetchOK, Splits, Devices, Backend, Reads,
              Final, Rows
<1>4. HostInv' BY <1>1 DEF IInv, HostInv, Submitted, Splits, Backend, Inputs
<1>5. NoWrong' /\ CountInv' BY <1>1 DEF IInv, NoWrong, CountInv, Splits
<1> QED BY <1>2, <1>3, <1>4, <1>5 DEF IInv

(* With a machine that is safe no copy is made from device to device. *)
LEMMA NoAsync ==
    ASSUME AllSafe, IInv
    PROVE  ~CopyAsync
BY ConfigFacts DEF CopyAsync, CanCopyAsync, IInv, TypeOK

LEMMA NextIInv == AllSafe /\ IInv /\ [Next]_vars => IInv'
<1> SUFFICES ASSUME AllSafe, IInv, [Next]_vars PROVE IInv' OBVIOUS
<1>1. CASE \E n \in 1 .. MaxUbatches : Decode(n) BY <1>1, DecodeStep
<1>2. CASE GraphReserve BY <1>2, ReserveStep
<1>3. CASE HostStep
  <2>1. CASE ReuseGraph BY <2>1, ReuseStep
  <2>2. CASE \E moves \in BOOLEAN : AllocGraph(moves) BY <2>2, AllocStep
  <2>3. CASE CopyUserInput BY <2>3, UserInputStep
  <2>4. CASE CopySync BY <2>4, CopySyncStep
  <2>5. CASE ComputeSplit BY <2>5, ComputeStep
  <2>6. CASE ComputeFails BY <2>6, FailsStep
  <2>7. CASE Extract BY <2>7, ExtractStep
  <2>8. CASE OrderOutputs BY <2>8, OrderStep
  <2> QED BY <1>3, <2>1, <2>2, <2>3, <2>4, <2>5, <2>6, <2>7, <2>8, NoAsync DEF HostStep
<1>4. CASE \E b \in Devices : Device(b) BY <1>4, DeviceStep
<1>5. CASE UNCHANGED vars BY <1>5, StutterIInv
<1> QED BY <1>1, <1>2, <1>3, <1>4, <1>5 DEF Next

(* The inductive invariant holds in every state of the scheduler, its      *)
(* devices and the host, on every safe machine.                            *)
THEOREM Invariance == AllSafe => (Spec => []IInv)
<1> SUFFICES ASSUME AllSafe PROVE Spec => []IInv OBVIOUS
<1>1. Init => IInv BY InitIInv
<1>2. IInv /\ [Next]_vars => IInv' BY NextIInv
<1> QED BY <1>1, <1>2, PTL DEF Spec

(* The types of the scheduler, and the bounds on graphs, rows and values.  *)
THEOREM TypeCorrect == AllSafe => (Spec => []TypeOK)
<1>1. IInv => TypeOK BY DEF IInv
<1> QED BY <1>1, Invariance, PTL

LEMMA IInvInputs == AllSafe /\ IInv => InputsCurrent
<1> SUFFICES ASSUME AllSafe, IInv PROVE InputsCurrent OBVIOUS
<1>1. ASSUME NEW b \in Devices, queue[b] # <<>>, Head(queue[b]).op = "compute"
      PROVE  Right(Head(queue[b]).tensor, Head(queue[b]).graph, Head(queue[b]).copy)
  <2>1. Len(queue[b]) > 0 /\ Head(queue[b]) = queue[b][1]
    BY <1>1, QueueFacts DEF IInv
  <2> QED BY <1>1, <2>1, HeadRight
<1>2. \A s \in Splits : out[s] # Wrong BY DEF IInv, NoWrong
<1> QED BY <1>1, <1>2 DEF InputsCurrent

(* Whatever is in flight, however many copies, splits and graphs there     *)
(* are: when a device comes to a split, all that it reads holds the values *)
(* of the split's own graph, and no split has ever been computed from      *)
(* anything else.                                                          *)
THEOREM ReadsOwnGraph == AllSafe => (Spec => []InputsCurrent)
<1> SUFFICES ASSUME AllSafe PROVE Spec => []InputsCurrent OBVIOUS
<1>1. IInv => InputsCurrent BY IInvInputs
<1> QED BY <1>1, Invariance, PTL

-----------------------------------------------------------------------------
(***************************************************************************)
(* The outputs.  The rows of the buffer are swapped by the host while they *)
(* may still be on their way from a device, so that the outputs are in     *)
(* order only if they are not to be swapped, or the host itself computes   *)
(* them: see BackendSched_unsorted.cfg.                                    *)
(***************************************************************************)
OrderSafe ==
    \A c \in Configs : c.unsorted => c.splits[Len(c.splits)].backend = CPU

(* During a decode, the rows that have been extracted are due. *)
RowInv == phase # "idle" => \A r \in Rows : due[r] # Lost <=> r < row

(* The last operation that fetches row r fetches the output of graph g, or *)
(* there is none, and the row holds it.                                    *)
Fetches(x, r) == x.op = "fetch" /\ x.copy = r
Arrives(q, r, g, v) ==
    \/ \E k \in 1 .. Len(q) : /\ Fetches(q[k], r) /\ q[k].graph = g
                              /\ \A j \in k + 1 .. Len(q) : ~Fetches(q[j], r)
    \/ v = g /\ \A j \in 1 .. Len(q) : ~Fetches(q[j], r)

FetchInv ==
    \A r \in Rows : due[r] # Lost =>
        IF Backend(Final) = CPU THEN logits[r] = due[r]
        ELSE Arrives(queue[Backend(Final)], r, due[r], logits[r])

OInv == RowInv /\ FetchInv

LEMMA ArrivesLonger ==
    ASSUME NEW q, NEW p, Len(q) \in Nat, Len(p) \in Nat, Len(q) <= Len(p),
           NEW r, NEW g, NEW v,
           \A j \in 1 .. Len(q) : p[j] = q[j],
           \A j \in Len(q) + 1 .. Len(p) : ~Fetches(p[j], r),
           Arrives(q, r, g, v)
    PROVE  Arrives(p, r, g, v)
<1>1. CASE \E k \in 1 .. Len(q) : /\ Fetches(q[k], r) /\ q[k].graph = g
                                  /\ \A j \in k + 1 .. Len(q) : ~Fetches(q[j], r)
  <2>1. PICK k \in 1 .. Len(q) : /\ Fetches(q[k], r) /\ q[k].graph = g
                                 /\ \A j \in k + 1 .. Len(q) : ~Fetches(q[j], r)
    BY <1>1
  <2>2. k \in 1 .. Len(p) /\ Fetches(p[k], r) /\ p[k].graph = g BY <2>1
  <2>3. ASSUME NEW j \in k + 1 .. Len(p) PROVE ~Fetches(p[j], r)
    <3>1. CASE j <= Len(q)
      <4>1. j \in k + 1 .. Len(q) /\ p[j] = q[j] BY <3>1
      <4> QED BY <2>1, <4>1
    <3>2. CASE j > Len(q)
      <4>1. j \in Len(q) + 1 .. Len(p) BY <3>2
      <4> QED BY <4>1
    <3> QED BY <3>1, <3>2
  <2> QED BY <2>2, <2>3 DEF Arrives
<1>2. CASE v = g /\ \A j \in 1 .. Len(q) : ~Fetches(q[j], r)
  <2>1. ASSUME NEW j \in 1 .. Len(p) PROVE ~Fetches(p[j], r)
    <3>1. CASE j <= Len(q)
      <4>1. j \in 1 .. Len(q) /\ p[j] = q[j] BY <3>1
      <4> QED BY <1>2, <4>1
    <3>2. CASE j > Len(q)
      <4>1. j \in Len(q) + 1 .. Len(p) BY <3>2
      <4> QED BY <4>1
    <3> QED BY <3>1, <3>2
  <2> QED BY <1>2, <2>1 DEF Arrives
<1> QED BY <1>1, <1>2 DEF Arrives

LEMMA ArrivesTail ==
    ASSUME NEW q, NEW p, Len(q) \in Nat, Len(q) > 0, Len(p) = Len(q) - 1,
           \A j \in 1 .. Len(p) : p[j] = q[j + 1],
           NEW r, NEW g, NEW v, Arrives(q, r, g, v)
    PROVE  Arrives(p, r, g, IF Fetches(q[1], r) THEN q[1].graph ELSE v)
<1> DEFINE w == IF Fetches(q[1], r) THEN q[1].graph ELSE v
<1>0. \A j \in 1 .. Len(p) : j + 1 \in 2 .. Len(q) OBVIOUS
<1>1. CASE \E k \in 1 .. Len(q) : /\ Fetches(q[k], r) /\ q[k].graph = g
                                  /\ \A j \in k + 1 .. Len(q) : ~Fetches(q[j], r)
  <2>1. PICK k \in 1 .. Len(q) : /\ Fetches(q[k], r) /\ q[k].graph = g
                                 /\ \A j \in k + 1 .. Len(q) : ~Fetches(q[j], r)
    BY <1>1
  <2>2. CASE k = 1
    <3>1. w = g BY <2>1, <2>2
    <3>2. \A j \in 1 .. Len(p) : ~Fetches(p[j], r)
      <4> SUFFICES ASSUME NEW j \in 1 .. Len(p) PROVE ~Fetches(p[j], r) OBVIOUS
      <4>1. j + 1 \in k + 1 .. Len(q) /\ p[j] = q[j + 1] BY <2>2
      <4> QED BY <2>1, <4>1
    <3> QED BY <3>1, <3>2 DEF Arrives
  <2>3. CASE k > 1
    <3>1. k - 1 \in 1 .. Len(p) /\ p[k - 1] = q[k] BY <2>3
    <3>2. \A j \in (k - 1) + 1 .. Len(p) : ~Fetches(p[j], r)
      <4> SUFFICES ASSUME NEW j \in (k - 1) + 1 .. Len(p) PROVE ~Fetches(p[j], r) OBVIOUS
      <4>1. j + 1 \in k + 1 .. Len(q) /\ j \in 1 .. Len(p) BY <2>3
      <4>2. p[j] = q[j + 1] BY <4>1
      <4> QED BY <2>1, <4>1, <4>2
    <3>3. Fetches(p[k - 1], r) /\ p[k - 1].graph = g BY <2>1, <3>1
    <3> HIDE DEF w
    <3> QED BY <3>1, <3>2, <3>3 DEF Arrives, w
  <2> QED BY <2>2, <2>3
<1>2. CASE v = g /\ \A j \in 1 .. Len(q) : ~Fetches(q[j], r)
  <2>1. w = g BY <1>2
  <2>2. \A j \in 1 .. Len(p) : ~Fetches(p[j], r)
    <3> SUFFICES ASSUME NEW j \in 1 .. Len(p) PROVE ~Fetches(p[j], r) OBVIOUS
    <3>1. j + 1 \in 1 .. Len(q) /\ p[j] = q[j + 1] OBVIOUS
    <3> QED BY <1>2, <3>1
  <2> QED BY <2>1, <2>2 DEF Arrives
<1> QED BY <1>1, <1>2 DEF Arrives

(* Submitting a split fetches no outputs. *)
LEMMA ComputeFetches ==
    ASSUME AllSafe, IInv, ComputeSplit, NEW d \in Devices
    PROVE  /\ Len(queue[d]) \in Nat /\ Len(queue'[d]) \in Nat /\ Len(queue[d]) <= Len(queue'[d])
           /\ \A j \in 1 .. Len(queue[d]) : queue'[d][j] = queue[d][j]
           /\ \A j \in Len(queue[d]) + 1 .. Len(queue'[d]) : queue'[d][j].op # "fetch"
<1> USE DEF IInv
<1>1. PICK b : b = Backend(split) OBVIOUS
<1>2. split \in Splits /\ queue[d] \in Seq(Ops) /\ Len(queue[d]) \in Nat
  BY SplitReady, QueueFacts DEF ComputeSplit
<1>3. CASE d # b \/ queue' = queue
  <2>1. queue'[d] = queue[d] BY <1>1, <1>3 DEF ComputeSplit, TypeOK
  <2> QED BY <1>2, <2>1
<1>4. CASE d = b /\ queue' # queue
  <2>1. b # CPU /\ b \in Devices BY <1>4 DEF Devices
  <2>2. /\ Recorded(b) \in Seq(Ops) /\ Len(Recorded(b)) \in Nat
        /\ \A j \in 1 .. Len(Recorded(b)) : Recorded(b)[j].op = "record"
    BY <1>1, <1>2, <2>1, RecordedFacts
  <2>3. CASE config.callback
    <3>1. queue'[b] = queue[b] \o Recorded(b)
      BY <1>1, <2>1, <2>3 DEF ComputeSplit, TypeOK
    <3> DEFINE q == queue[b]
               y == Recorded(b)
               p == queue'[b]
    <3>2. q \in Seq(Ops) /\ Len(q) \in Nat BY <1>2, <1>4
    <3>3. y \in Seq(Ops) /\ Len(y) \in Nat /\ (\A j \in 1 .. Len(y) : y[j].op = "record")
          /\ p = q \o y
      BY <2>2, <3>1
    <3> HIDE DEF q, y, p
    <3>4. /\ Len(p) = Len(q) + Len(y)
          /\ \A i \in 1 .. Len(q) + Len(y) : p[i] = IF i <= Len(q) THEN q[i] ELSE y[i - Len(q)]
      BY <3>2, <3>3, ConcatProperties
    <3>5. \A j \in 1 .. Len(q) : p[j] = q[j] BY <3>2, <3>3, <3>4
    <3>6. \A j \in Len(q) + 1 .. Len(p) : p[j].op # "fetch"
      <4> SUFFICES ASSUME NEW j \in Len(q) + 1 .. Len(p) PROVE p[j].op # "fetch" OBVIOUS
      <4>1. j - Len(q) \in 1 .. Len(y) /\ p[j] = y[j - Len(q)] BY <3>2, <3>3, <3>4
      <4> QED BY <3>3, <4>1
    <3>7. Len(p) \in Nat /\ Len(q) <= Len(p) BY <3>2, <3>3, <3>4
    <3> QED BY <1>4, <3>2, <3>5, <3>6, <3>7 DEF q, p
  <2>4. CASE ~config.callback
    <3> DEFINE q == queue[b]
               y == Recorded(b)
               x == Op("compute", split, graph, node_copy, b)
               p == queue'[b]
    <3>1. p = Append(q, x) \o y
      BY <1>1, <2>1, <2>4 DEF ComputeSplit, TypeOK
    <3>2. q \in Seq(Ops) /\ Len(q) \in Nat BY <1>2, <1>4
    <3>3. y \in Seq(Ops) /\ Len(y) \in Nat /\ (\A j \in 1 .. Len(y) : y[j].op = "record")
      BY <2>2
    <3>4. x \in Ops /\ x.op = "compute"
      <4>1. node_copy \in Nat /\ b \in Nat /\ split \in Nat /\ graph \in Nat
        BY <1>1, <1>2, ConfigFacts DEF TypeOK, Copies
      <4> QED BY <4>1 DEF Op, Ops
    <3> HIDE DEF q, y, p, x
    <3>5. /\ Len(p) = Len(q) + 1 + Len(y) /\ p[Len(q) + 1] = x
          /\ \A j \in 1 .. Len(q) : p[j] = q[j]
          /\ \A j \in Len(q) + 2 .. Len(p) :
                 j - (Len(q) + 1) \in 1 .. Len(y) /\ p[j] = y[j - (Len(q) + 1)]
      BY <3>1, <3>2, <3>3, <3>4, AppendMore
    <3>6. \A j \in Len(q) + 1 .. Len(p) : p[j].op # "fetch"
      <4> SUFFICES ASSUME NEW j \in Len(q) + 1 .. Len(p) PROVE p[j].op # "fetch" OBVIOUS
      <4>1. CASE j = Len(q) + 1 BY <4>1, <3>4, <3>5
      <4>2. CASE j # Len(q) + 1
        <5>1. j \in Len(q) + 2 .. Len(p) BY <4>2, <3>2, <3>3, <3>5
        <5> QED BY <5>1, <3>3, <3>5
      <4> QED BY <4>1, <4>2
    <3>7. Len(p) \in Nat /\ Len(q) <= Len(p) BY <3>2, <3>3, <3>5
    <3> QED BY <1>4, <3>2, <3>5, <3>6, <3>7 DEF q, p
  <2> QED BY <2>3, <2>4
<1> QED BY <1>3, <1>4

(* Steps that fetch nothing and leave the rows alone. *)
LEMMA RowsKept ==
    ASSUME AllSafe, IInv, OInv, UNCHANGED <<config, logits, due, row>>,
           phase' # "idle" => phase # "idle",
           \A d \in Devices :
               /\ Len(queue[d]) \in Nat /\ Len(queue'[d]) \in Nat
               /\ Len(queue[d]) <= Len(queue'[d])
               /\ \A j \in 1 .. Len(queue[d]) : queue'[d][j] = queue[d][j]
               /\ \A j \in Len(queue[d]) + 1 .. Len(queue'[d]) : queue'[d][j].op # "fetch"
    PROVE  OInv'
<1>1. RowInv' BY DEF OInv, RowInv, Rows
<1>2. ASSUME NEW r \in Rows, due[r] # Lost
      PROVE  IF Backend(Final) = CPU THEN logits[r] = due[r]
             ELSE Arrives(queue'[Backend(Final)], r, due[r], logits[r])
  <2>1. CASE Backend(Final) = CPU BY <1>2, <2>1 DEF OInv, FetchInv
  <2>2. CASE Backend(Final) # CPU
    <3>1. PICK d : d = Backend(Final) OBVIOUS
    <3>2. d \in Devices BY <2>2, <3>1, ConfigFacts DEF Devices, IInv, TypeOK
    <3>3. Arrives(queue[d], r, due[r], logits[r]) BY <1>2, <2>2, <3>1 DEF OInv, FetchInv
    <3>4. PICK q : q = queue[d] OBVIOUS
    <3>5. PICK p : p = queue'[d] OBVIOUS
    <3>6. /\ Len(q) \in Nat /\ Len(p) \in Nat /\ Len(q) <= Len(p)
          /\ \A j \in 1 .. Len(q) : p[j] = q[j]
          /\ \A j \in Len(q) + 1 .. Len(p) : ~Fetches(p[j], r)
      BY <3>2, <3>4, <3>5 DEF Fetches
    <3>7. Arrives(p, r, due[r], logits[r]) BY <3>3, <3>4, <3>6, ArrivesLonger
    <3> QED BY <2>2, <3>1, <3>5, <3>7
  <2> QED BY <2>1, <2>2
<1>3. FetchInv' BY <1>2 DEF FetchInv, Rows, Backend, Final
<1> QED BY <1>1, <1>3 DEF OInv

LEMMA QueueKeptRows ==
    ASSUME AllSafe, IInv, OInv, UNCHANGED <<config, queue, logits, due, row>>,
           phase' # "idle" => phase # "idle"
    PROVE  OInv'
BY RowsKept, QueueFacts DEF IInv

(* No row is due when a decode begins, or has failed. *)
LEMMA NothingDue ==
    ASSUME due' = [r \in Rows |-> Lost], phase' = "idle" \/ row' = 1
    PROVE  OInv'
<1>1. RowInv' BY DEF RowInv, Rows
<1>2. FetchInv' BY DEF FetchInv, Rows
<1> QED BY <1>1, <1>2 DEF OInv

LEMMA ExtractDue ==
    ASSUME AllSafe, IInv, OInv, Extract
    PROVE  /\ due' = [due EXCEPT ![row] = graph] /\ row' = row + 1
           /\ RowInv'
<1>1. phase = "extract" /\ row \in Rows /\ graph > 0 BY ExtractFacts
<1>2. {r \in Rows : due[r] # Lost} = 1 .. row - 1
  BY <1>1, SchedAssumption DEF OInv, RowInv, Rows
<1>3. Cardinality(1 .. row - 1) = row - 1
  <2>1. row \in Nat /\ row > 0 BY <1>1, SchedAssumption DEF Rows
  <2> QED BY <2>1, FS_Interval
<1>4. 1 + Cardinality({r \in Rows : due[r] # Lost}) = row
  <2>1. row \in Nat BY <1>1, SchedAssumption DEF Rows
  <2>2. Cardinality({r \in Rows : due[r] # Lost}) = row - 1 BY <1>2, <1>3
  <2>3. ASSUME NEW n, n = row - 1 PROVE 1 + n = row BY <2>1, <2>3
  <2> QED BY <2>2, <2>3
<1>5. due' = [due EXCEPT ![1 + Cardinality({r \in Rows : due[r] # Lost})] = graph]
      /\ row' = row + 1
  BY DEF Extract, NextRow
<1>6. due' = [due EXCEPT ![row] = graph] BY <1>4, <1>5
<1>7. RowInv'
  <2>1. ASSUME NEW r \in Rows PROVE due'[r] # Lost <=> r < row + 1
    <3>1. due[r] # Lost <=> r < row BY <1>1 DEF OInv, RowInv
    <3>2. due'[r] = IF r = row THEN graph ELSE due[r] BY <1>6 DEF IInv, TypeOK
    <3>3. r \in Nat /\ row \in Nat BY <1>1, SchedAssumption DEF Rows
    <3>4. graph # Lost BY <1>1 DEF Lost, IInv, TypeOK
    <3> QED BY <3>1, <3>2, <3>3, <3>4
  <2> QED BY <2>1, <1>5 DEF RowInv, Rows
<1> QED BY <1>5, <1>6, <1>7

LEMMA ExtractOInv ==
    ASSUME AllSafe, IInv, OInv, Extract
    PROVE  OInv'
<1>1. /\ due' = [due EXCEPT ![row] = graph] /\ RowInv' BY ExtractDue
<1>2. row \in Rows /\ config' = config /\ Final \in Splits /\ phase = "extract" BY ExtractFacts
<1>3. due'[row] = graph /\ \A r \in Rows \ {row} : due'[r] = due[r]
  BY <1>1, <1>2 DEF IInv, TypeOK
<1>4. CASE Backend(Final) = CPU
  <2>1. logits' = [logits EXCEPT ![row] = out[Final]] BY <1>4 DEF Extract, Final
  <2>2. out[Final] = graph BY <1>2, <1>4 DEF IInv, HostInv, Submitted
  <2>3. logits'[row] = graph /\ \A r \in Rows \ {row} : logits'[r] = logits[r]
    BY <1>2, <2>1, <2>2 DEF IInv, TypeOK
  <2>4. \A r \in Rows : due'[r] # Lost => logits'[r] = due'[r]
    BY <1>3, <1>4, <2>3 DEF OInv, FetchInv
  <2>5. FetchInv' BY <1>2, <1>4, <2>4 DEF FetchInv, Rows, Backend, Final
  <2> QED BY <1>1, <2>5 DEF OInv
<1>5. CASE Backend(Final) # CPU
  <2> DEFINE b == Backend(Final)
             q == queue[b]
             p == queue'[b]
             x == Op("fetch", Final, graph, row, b)
  <2>1. /\ Len(q) \in Nat /\ Len(p) = Len(q) + 1 /\ p[Len(q) + 1] = x
        /\ \A j \in 1 .. Len(q) : p[j] = q[j]
        /\ UNCHANGED logits
    BY <1>5, FetchAppended
  <2>2. x.op = "fetch" /\ x.copy = row /\ x.graph = graph BY DEF Op
  <2>3. \A r \in Rows \ {row} : due[r] # Lost => Arrives(q, r, due[r], logits[r])
    BY <1>5 DEF OInv, FetchInv
  <2> HIDE DEF q, p, x
  <2>4. Arrives(p, row, graph, logits'[row])
    <3>1. /\ Len(q) + 1 \in 1 .. Len(p) /\ Fetches(p[Len(q) + 1], row)
          /\ p[Len(q) + 1].graph = graph
          /\ \A j \in (Len(q) + 1) + 1 .. Len(p) : ~Fetches(p[j], row)
      BY <2>1, <2>2 DEF Fetches
    <3> QED BY <3>1 DEF Arrives
  <2>5. ASSUME NEW r \in Rows \ {row}, due[r] # Lost PROVE Arrives(p, r, due[r], logits'[r])
    <3>1. Arrives(q, r, due[r], logits[r]) BY <2>3, <2>5
    <3>2. \A j \in Len(q) + 1 .. Len(p) : ~Fetches(p[j], r)
      BY <2>1, <2>2 DEF Fetches
    <3>3. Len(p) \in Nat /\ Len(q) <= Len(p) BY <2>1
    <3> QED BY <2>1, <3>1, <3>2, <3>3, ArrivesLonger
  <2>6. ASSUME NEW r \in Rows, due'[r] # Lost PROVE Arrives(p, r, due'[r], logits'[r])
    <3>1. CASE r = row BY <3>1, <1>3, <2>4
    <3>2. CASE r # row BY <3>2, <2>6, <1>3, <2>5
    <3> QED BY <3>1, <3>2
  <2>7. FetchInv' BY <1>2, <1>5, <2>6 DEF FetchInv, Rows, Backend, Final, p
  <2> QED BY <1>1, <2>7 DEF OInv
<1> QED BY <1>4, <1>5

LEMMA OrderOInv ==
    ASSUME AllSafe, OrderSafe, IInv, OInv, OrderOutputs
    PROVE  OInv'
<1>0. UNCHANGED <<config, queue, row>> /\ phase' = "idle" BY DEF OrderOutputs
<1>1. CASE config.unsorted /\ row > 2
  <2>1. Backend(Final) = CPU
    BY <1>1 DEF OrderSafe, Backend, Final, IInv, TypeOK
  <2>2. logits' = Swapped(logits) /\ due' = Swapped(due) BY <1>1 DEF OrderOutputs
  <2>3. 1 \in Rows /\ 2 \in Rows BY <1>1, SchedAssumption DEF IInv, TypeOK, Rows
  <2>4. \A r \in Rows : due[r] # Lost => logits[r] = due[r] BY <2>1 DEF OInv, FetchInv
  <2>5. \A r \in Rows : due'[r] # Lost => logits'[r] = due'[r]
    BY <2>2, <2>3, <2>4 DEF Swapped, IInv, TypeOK
  <2>6. FetchInv' BY <1>0, <2>1, <2>5 DEF FetchInv, Rows, Backend, Final
  <2>7. RowInv' BY <1>0 DEF RowInv
  <2> QED BY <2>6, <2>7 DEF OInv
<1>2. CASE ~(config.unsorted /\ row > 2)
  <2>1. UNCHANGED <<logits, due>> BY <1>2 DEF OrderOutputs
  <2> QED BY <1>0, <2>1, QueueKeptRows
<1> QED BY <1>1, <1>2

(* What the head fetches is the output of its graph. *)
LEMMA DeviceOInv ==
    ASSUME AllSafe, IInv, OInv, NEW b \in Devices, Device(b)
    PROVE  OInv'
<1> DEFINE q == queue[b]
           p == queue'[b]
           x == q[1]
<1>1. /\ UNCHANGED <<config, phase, row, due>>
      /\ Len(q) \in Nat /\ Len(q) > 0 /\ Len(p) = Len(q) - 1
      /\ \A j \in 1 .. Len(p) : p[j] = q[j + 1]
      /\ \A d \in Devices : d # b => queue'[d] = queue[d]
      /\ logits' = IF x.op = "fetch" THEN [logits EXCEPT ![x.copy] = out[x.tensor]]
                   ELSE logits
  BY DeviceFacts
<1>2. RowInv' BY <1>1 DEF OInv, RowInv, Rows
<1>3. x.op = "fetch" => Backend(Final) = b /\ x.copy \in Rows /\ out[x.tensor] = x.graph
  <2> SUFFICES ASSUME x.op = "fetch"
               PROVE  Backend(Final) = b /\ x.copy \in Rows /\ out[x.tensor] = x.graph
    OBVIOUS
  <2>1. EntryOK(b, 1) BY <1>1 DEF IInv, QueueInv
  <2>2. /\ x.tensor = Final /\ Backend(Final) = b /\ x.copy \in Rows
        /\ Comes(q, 1, Final, x.graph, out[Final])
    BY <2>1 DEF EntryOK, FetchOK
  <2> HIDE DEF q, x
  <2>3. out[Final] = x.graph BY <2>2 DEF Comes
  <2> QED BY <2>2, <2>3
<1>4. ASSUME NEW r \in Rows
      PROVE  logits'[r] = IF Fetches(x, r) THEN x.graph ELSE logits[r]
  <2> HIDE DEF x
  <2> QED BY <1>1, <1>3 DEF Fetches, IInv, TypeOK
<1>5. ASSUME NEW r \in Rows, due[r] # Lost
      PROVE  IF Backend(Final) = CPU THEN logits'[r] = due[r]
             ELSE Arrives(queue'[Backend(Final)], r, due[r], logits'[r])
  <2>0. IF Backend(Final) = CPU THEN logits[r] = due[r]
        ELSE Arrives(queue[Backend(Final)], r, due[r], logits[r])
    BY <1>5 DEF OInv, FetchInv
  <2>1. b # CPU BY DEF Devices
  <2>2. CASE Backend(Final) = b
    <3>1. Arrives(q, r, due[r], logits[r]) BY <2>0, <2>1, <2>2
    <3> HIDE DEF q, p
    <3>2. Arrives(p, r, due[r], IF Fetches(q[1], r) THEN q[1].graph ELSE logits[r])
      BY <1>1, <3>1, ArrivesTail
    <3> QED BY <1>4, <2>1, <2>2, <3>2 DEF p
  <2>3. CASE Backend(Final) # b
    <3>1. logits'[r] = logits[r] BY <1>3, <1>4, <2>3 DEF Fetches
    <3>2. Backend(Final) # CPU => queue'[Backend(Final)] = queue[Backend(Final)]
      BY <1>1, <2>3, ConfigFacts, SMTT(30) DEF Devices, IInv, TypeOK
    <3> QED BY <2>0, <3>1, <3>2
  <2> QED BY <2>2, <2>3
<1>6. FetchInv' BY <1>1, <1>5 DEF FetchInv, Rows, Backend, Final
<1> QED BY <1>2, <1>6 DEF OInv

LEMMA NextOInv == AllSafe /\ OrderSafe /\ IInv /\ OInv /\ [Next]_vars => OInv'
<1> SUFFICES ASSUME AllSafe, OrderSafe, IInv, OInv, [Next]_vars PROVE OInv' OBVIOUS
<1>1. CASE \E n \in 1 .. MaxUbatches : Decode(n) BY <1>1, NothingDue DEF Decode
<1>2. CASE GraphReserve
  BY <1>2, QueueKeptRows DEF GraphReserve, host, outp
<1>3. CASE HostStep
  <2>1. CASE ReuseGraph
    BY <2>1, QueueKeptRows DEF ReuseGraph, BeginGraph, outp
  <2>2. CASE \E moves \in BOOLEAN : AllocGraph(moves)
    BY <2>2, QueueKeptRows DEF AllocGraph, BeginGraph, outp
  <2>3. CASE CopyUserInput
    BY <2>3, QueueKeptRows DEF CopyUserInput, CopyNow, outp
  <2>4. CASE CopySync
    BY <2>4, QueueKeptRows DEF CopySync, CopyNow, outp
  <2>5. CASE ComputeSplit
    <3>1. UNCHANGED <<config, logits, due, row>> /\ phase # "idle"
      BY <2>5 DEF ComputeSplit, outp
    <3> QED BY <2>5, <3>1, RowsKept, ComputeFetches
  <2>6. CASE ComputeFails BY <2>6, NothingDue DEF ComputeFails
  <2>7. CASE Extract BY <2>7, ExtractOInv
  <2>8. CASE OrderOutputs BY <2>8, OrderOInv
  <2> QED BY <1>3, <2>1, <2>2, <2>3, <2>4, <2>5, <2>6, <2>7, <2>8, NoAsync DEF HostStep
<1>4. CASE \E b \in Devices : Device(b) BY <1>4, DeviceOInv
<1>5. CASE UNCHANGED vars
  BY <1>5, QueueKeptRows DEF vars, host, outp
<1> QED BY <1>1, <1>2, <1>3, <1>4, <1>5 DEF Next

(* Once the devices are done, output i of the last decode is in row i: a   *)
(* row that an earlier decode, or one that failed, still has in flight is  *)
(* never fetched after the one that is due.                                *)
THEOREM OutputsArrive == AllSafe /\ OrderSafe => (Spec => []OutputsOrdered)
<1> SUFFICES ASSUME AllSafe, OrderSafe PROVE Spec => []OutputsOrdered OBVIOUS
<1>1. Init => OInv
  <2> SUFFICES ASSUME Init PROVE OInv OBVIOUS
  <2>1. RowInv BY DEF Init, RowInv
  <2>2. FetchInv BY DEF Init, FetchInv
  <2> QED BY <2>1, <2>2 DEF OInv
<1>2. IInv /\ OInv /\ [Next]_vars => OInv' BY NextOInv
<1>3. IInv /\ OInv => OutputsOrdered
  <2> SUFFICES ASSUME IInv, OInv, Quiet, NEW r \in Rows, due[r] # Lost
               PROVE  logits[r] = due[r]
    BY DEF OutputsOrdered
  <2>1. CASE Backend(Final) = CPU BY <2>1 DEF OInv, FetchInv
  <2>2. CASE Backend(Final) # CPU
    <3>1. PICK b : b = Backend(Final) OBVIOUS
    <3>2. b \in Devices BY <2>2, <3>1, ConfigFacts DEF Devices, IInv, TypeOK
    <3>3. Arrives(queue[b], r, due[r], logits[r]) BY <2>2, <3>1 DEF OInv, FetchInv
    <3>4. Len(queue[b]) = 0
      BY <2>2, <3>1, <3>2, QueueFacts DEF Quiet, Synchronized, IInv
    <3> QED BY <3>3, <3>4 DEF Arrives
  <2> QED BY <2>1, <2>2
<1> QED BY <1>1, <1>2, <1>3, Invariance, PTL DEF Spec
=============================================================================
