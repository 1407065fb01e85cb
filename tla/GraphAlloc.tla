----------------------------- MODULE GraphAlloc -----------------------------
(***************************************************************************)
(* struct ggml_gallocr of ggml/src/ggml-alloc.c, with one buffer: it plans   *)
(* where the tensors of a graph go, in the order in which the nodes will be  *)
(* computed, gives the memory of a tensor that is no longer needed to later  *)
(* ones, computes in place where it can, and uses the plan again for later   *)
(* graphs that fit.                                                          *)
(*                                                                         *)
(* Building the graph and computing it are external: an application puts     *)
(* the tensors in the order of ggml_build_forward_expand, and computing a    *)
(* node writes its memory after reading that of its sources.                 *)
(***************************************************************************)
EXTENDS DynTallocr

CONSTANTS
    Sizes,       (* sizes of tensors                                        *)
    MaxLeafs,    (* bound: how many leafs a graph has                       *)
    MaxTensors,  (* bound: how many leafs and nodes a graph has             *)
    MaxFeatures, (* bound: how many features they have in all               *)
    MaxGraphs,   (* bound: how many graphs are planned for                  *)
    NewTopology  (* whether later graphs may have other operations          *)

ASSUME GraphAssumption ==
    /\ Sizes \subseteq Nat \ {0}
    /\ MaxLeafs \in Nat \ {0} /\ MaxTensors \in Nat /\ MaxFeatures \in Nat
    /\ MaxGraphs \in Nat /\ NewTopology \in BOOLEAN

VARIABLES
    phase,       (* "build", "leafs", "reserve", "planned", "compute", or   *)
                 (* "aborted"                                               *)
    g,           (* the graph: its leafs, then its nodes                    *)
    i,           (* the leaf or node that is planned or computed            *)
    call,        (* the call of the allocator for node i that comes next    *)
    st,          (* hash_values and buf_tallocs[0]                          *)
    plan,        (* node_allocs and leaf_allocs: offset and size_max        *)
    buffer,      (* size of buffers[0]                                      *)
    intact,      (* history: the tensors whose memory holds their values    *)
    graphs

vars == <<phase, g, i, call, st, plan, buffer, intact, graphs>>

(***************************************************************************)
(* Graphs.  A tensor is a leaf, or the result of an operation on src; a view *)
(* is memory of its view_src, a dep is such a view that is never computed,   *)
(* which ggml-backend adds so that view_src is not freed before it.          *)
(***************************************************************************)
Ops == {"leaf", "external", "op", "inplace", "view", "dep"}
is_view(G, t) == G[t].view # 0
Root(G, t) == IF is_view(G, t) THEN G[t].view ELSE t
Tensor(op, src, view, size, output) ==
    [op |-> op, src |-> src, view |-> view, size |-> size, output |-> output]

Leafs(G) == {t \in DOMAIN G : G[t].src = <<>>}
Nodes(G) == DOMAIN G \ Leafs(G)
FirstNode(G) == Cardinality(Leafs(G)) + 1
Sources == {<<a>> : a \in DOMAIN g} \cup {<<a, b>> : a, b \in DOMAIN g}

(* What makes a graph more than a chain of operations on tensors of one      *)
(* size: every occurrence of one of these is a feature.                      *)
Least == CHOOSE n \in Sizes : \A m \in Sizes : n <= m
Features(G) ==
    LET has(P(_)) == Cardinality({t \in DOMAIN G : P(t)})
    IN  has(LAMBDA t : G[t].op \notin {"leaf", "op"})
          + has(LAMBDA t : G[t].size > Least /\ ~is_view(G, t))
          + has(LAMBDA t : Len(G[t].src) = 2)
          + has(LAMBDA t : G[t].output)

NewLeafs == {Tensor("leaf", <<>>, 0, n, FALSE) : n \in Sizes}
                \cup {Tensor("external", <<>>, 0, n, FALSE) : n \in Sizes}
NewNodes ==
    {Tensor(op, src, 0, n, out) :
        op \in {"op", "inplace"}, src \in Sources, n \in Sizes, out \in BOOLEAN}
    \cup {Tensor("view", <<a>>, Root(g, a), g[a].size, FALSE) : a \in DOMAIN g}
    \cup {Tensor("dep", <<a>>, a, g[a].size, FALSE) : a \in Leafs(g)}

(* Every leaf, and every node but outputs, deps and the last one, is used. *)
Used(G, t) == \E u \in DOMAIN G : t \in Range(G[u].src)
Complete(G) ==
    /\ Nodes(G) # {}
    /\ ~Last(G).output
    /\ \A t \in 1 .. Len(G) - 1 : Used(G, t) \/ G[t].output \/ G[t].op = "dep"
    /\ \A t \in DOMAIN G : G[t].op = "dep" => ~Used(G, t)

BuildLeaf ==
    /\ phase = "build"
    /\ Nodes(g) = {}
    /\ Len(g) < MaxLeafs
    /\ \E t \in NewLeafs : g' = Append(g, t)
    /\ Features(g') <= MaxFeatures
    /\ UNCHANGED <<phase, i, call, st, plan, buffer, intact, graphs>>

BuildNode ==
    /\ phase = "build"
    /\ g # <<>>
    /\ Len(g) < MaxTensors
    /\ \E t \in NewNodes : g' = Append(g, t)
    /\ Features(g') <= MaxFeatures
    /\ UNCHANGED <<phase, i, call, st, plan, buffer, intact, graphs>>

(***************************************************************************)
(* hash_node: n_children, n_views, offset and allocated of every tensor.     *)
(***************************************************************************)
Fresh(G) == [children |-> [t \in DOMAIN G |-> 0], views |-> [t \in DOMAIN G |-> 0],
             offset |-> [t \in DOMAIN G |-> 0], allocated |-> {},
             talloc |-> tallocr_reset]

(* The memory of parent p becomes that of node t: p is the allocator's own,  *)
(* no output, has the same layout, and t is its only use.  A view is never   *)
(* marked as allocated, so it is never reused.                               *)
Reusable_Viewed(G, h, t, p) ==
    /\ p \in h.allocated /\ ~G[p].output /\ G[p].size = G[t].size
    /\ h.children[p] = 1
Reusable(G, h, t, p) ==
    /\ p \in h.allocated
    /\ ~G[p].output
    /\ G[p].size = G[t].size
    /\ h.children[p] = 1 /\ h.views[p] = 0

(* Nothing to do, or the first parent whose memory the node can have, or     *)
(* memory of its own.                                                        *)
Settled(G, h, t) == t \in h.allocated \/ G[t].op = "external" \/ is_view(G, t)
Reused(G, h, t) ==
    IF G[t].op = "inplace"
    THEN {k \in DOMAIN G[t].src : Reusable(G, h, t, G[t].src[k])} ELSE {}

allocate_node(G, h, t) ==
    LET p == G[t].src[First(Reused(G, h, t))]
    IN  IF Settled(G, h, t) THEN h
        ELSE IF Reused(G, h, t) # {}
        THEN [h EXCEPT !.offset[t] = h.offset[p],
                       !.allocated = (@ \ {p}) \cup {t}]
        ELSE [h EXCEPT !.offset[t] = alloc_offset(h.talloc, G[t].size),
                       !.allocated = @ \cup {t},
                       !.talloc = tallocr_alloc(@, G[t].size)]

(* "graph outputs are never freed" *)
free_node(G, h, t) ==
    IF G[t].output THEN h
    ELSE [h EXCEPT !.talloc = tallocr_free(@, h.offset[t], G[t].size),
                   !.allocated = @ \ {t}]

(* A node was planned that has p as a source.  The last use of a view ends  *)
(* a use of its view_src.                                                    *)
Unused(h, p) == h.children[p] = 0 /\ h.views[p] = 0
ParentUsed(G, h, p) ==
    LET used == [h EXCEPT !.children[p] = @ - 1]
    IN  IF Unused(used, p) /\ is_view(G, p)
        THEN [used EXCEPT !.views[G[p].view] = @ - 1] ELSE used
LastUse(G, h, p) ==
    Unused(h, p) /\ Unused(h, Root(G, p)) /\ Root(G, p) \in h.allocated

(***************************************************************************)
(* ggml_gallocr_reserve, one call of the allocator at a time.  Where it has  *)
(* no room or no block left, the process aborts.                             *)
(***************************************************************************)

(* A dep is no view. *)
Counted(G, h) ==
    [h EXCEPT
        !.children = [t \in DOMAIN G |->
            Cardinality({u \in Nodes(G) \X {1, 2} :
                            /\ u[2] \in DOMAIN G[u[1]].src
                            /\ G[u[1]].src[u[2]] = t})],
        !.views = [t \in DOMAIN G |->
            Cardinality({u \in Nodes(G) : G[u].view = t /\ G[u].op # "dep"})]]

BeginReserve(G) ==
    /\ g' = G
    /\ st' = Fresh(G)
    /\ i' = 1 /\ call' = 1
    /\ phase' = "leafs"
    /\ graphs' = graphs + 1

Reserve ==
    /\ phase = "build"
    /\ Complete(g)
    /\ BeginReserve(g)
    /\ UNCHANGED <<plan, buffer, intact>>

Place(t) ==
    IF /\ ~Settled(g, st, t) /\ Reused(g, st, t) = {}
       /\ OutOfSpace(st.talloc, g[t].size)
    THEN phase' = "aborted" /\ UNCHANGED st
    ELSE st' = allocate_node(g, st, t) /\ UNCHANGED phase

(* The leafs come first; then the uses are counted. *)
PlaceLeaf ==
    /\ phase = "leafs"
    /\ i < FirstNode(g)
    /\ Place(i)
    /\ i' = i + 1
    /\ UNCHANGED <<g, call, plan, buffer, intact, graphs>>

CountUses ==
    /\ phase = "leafs"
    /\ i = FirstNode(g)
    /\ st' = Counted(g, st)
    /\ phase' = "reserve"
    /\ UNCHANGED <<g, i, call, plan, buffer, intact, graphs>>

(* Node i of ggml_gallocr_alloc_graph_impl: its sources are placed (all of   *)
(* them are by now), then the node, then sources that have had their last    *)
(* use are freed.                                                            *)
NSources == Len(g[i].src)

PlaceNode ==
    /\ phase = "reserve"
    /\ i <= Len(g)
    /\ call <= NSources + 1
    /\ Place(IF call <= NSources THEN g[i].src[call] ELSE i)
    /\ call' = call + 1
    /\ UNCHANGED <<g, i, plan, buffer, intact, graphs>>

UpdateParent ==
    /\ phase = "reserve"
    /\ i <= Len(g)
    /\ call > NSources + 1
    /\ LET p == g[i].src[call - NSources - 1]
           r == Root(g, p)
           h == ParentUsed(g, st, p)
       IN  IF ~LastUse(g, h, p) THEN st' = h /\ UNCHANGED phase
           ELSE IF ~g[r].output /\ OutOfBlocks(h.talloc, h.offset[r], g[r].size)
           THEN phase' = "aborted" /\ UNCHANGED st
           ELSE st' = free_node(g, h, r) /\ UNCHANGED phase
    /\ IF call = 2 * NSources + 1 THEN i' = i + 1 /\ call' = 1
                                  ELSE i' = i /\ call' = call + 1
    /\ UNCHANGED <<g, plan, buffer, intact, graphs>>

(* size_max is 0 for tensors that are no business of the allocator. *)
Placed(G, t) == ~is_view(G, t) /\ G[t].op # "external"
PlanOf(G, h) ==
    [t \in DOMAIN G |-> [offset |-> h.offset[t],
                         size_max |-> IF Placed(G, t) THEN G[t].size ELSE 0]]
(* The buffer only grows. *)
NewBuffer(size, max) == IF max > size THEN max ELSE size

SetPlan ==
    /\ phase = "reserve"
    /\ i > Len(g)
    /\ plan' = PlanOf(g, st)
    /\ buffer' = NewBuffer(buffer, st.talloc.max_size)
    /\ phase' = "planned"
    /\ UNCHANGED <<g, i, call, st, intact, graphs>>

(***************************************************************************)
(* ggml_gallocr_alloc_graph: the plan is used for a graph with as many       *)
(* leafs and nodes, none of them larger.                                     *)
(***************************************************************************)
needs_realloc(G) ==
    \/ Cardinality(Leafs(G)) # Cardinality(Leafs(g))
    \/ Cardinality(Nodes(G)) # Cardinality(Nodes(g))
    \/ \E t \in DOMAIN G :
          (t \in Nodes(G) \/ Used(G, t)) /\ Placed(G, t) /\ G[t].size > plan[t].size_max

(* The memory of a tensor, as planned. *)
Address(G, t) == plan[t].offset .. plan[t].offset + G[t].size - 1
Overlap(G, t, u) == /\ t # u /\ Placed(G, t) /\ Placed(G, u)
                    /\ Address(G, t) \cap Address(G, u) # {}

(* The application sets the leafs, and computes the graph. *)
BeginCompute(G) ==
    /\ g' = G
    /\ i' = FirstNode(G)
    /\ intact' = {t \in Leafs(G) : \A u \in Leafs(G) : ~Overlap(G, t, u)}
    /\ phase' = "compute"
    /\ UNCHANGED <<call, st, plan, buffer, graphs>>

(* The same operations on tensors of other sizes: what was of one size is   *)
(* again, as it is when the batch is larger or smaller.                     *)
Resized(G) == {[t \in DOMAIN G |-> [G[t] EXCEPT !.size = f[@]]] : f \in [Sizes -> Sizes]}

(* One operation has other sources, or is another operation. *)
Rewired(G) ==
    {H \in {[G EXCEPT ![t].op = op, ![t].src = src] :
                op \in {"op", "inplace"}, src \in Sources,
                t \in {u \in Nodes(G) : ~is_view(G, u)}} :
        Complete(H) /\ \A t \in DOMAIN H : \A s \in Range(H[t].src) : s < t}
LaterGraphs == Resized(g) \cup (IF NewTopology THEN Rewired(g) ELSE {})

AllocGraph ==
    /\ phase = "planned" \/ (phase = "compute" /\ i > Len(g))
    /\ \E G \in LaterGraphs :
          IF needs_realloc(G)
          THEN graphs < MaxGraphs /\ BeginReserve(G)
               /\ UNCHANGED <<plan, buffer, intact>>
          ELSE BeginCompute(G)

Compute ==
    /\ phase = "compute"
    /\ i <= Len(g)
    /\ intact' = IF is_view(g, i) THEN intact
                 ELSE (intact \ {t \in DOMAIN g : Overlap(g, t, i)}) \cup {i}
    /\ i' = i + 1
    /\ UNCHANGED <<phase, g, call, st, plan, buffer, graphs>>

Init ==
    /\ phase = "build" /\ g = <<>> /\ i = 0 /\ call = 1 /\ plan = <<>> /\ buffer = 0
    /\ st = Fresh(<<>>)
    /\ intact = {} /\ graphs = 0

Next == BuildLeaf \/ BuildNode \/ Reserve \/ PlaceLeaf \/ CountUses \/ PlaceNode
            \/ UpdateParent \/ SetPlan \/ AllocGraph \/ Compute

Spec == Init /\ [][Next]_vars

-----------------------------------------------------------------------------
(***************************************************************************)
(* Properties.                                                             *)
(***************************************************************************)

(* The types of the graph, the hash nodes and the plan. *)
TypeOK ==
    /\ phase \in {"build", "leafs", "reserve", "planned", "compute", "aborted"}
    /\ \A t \in DOMAIN g : /\ g[t].op \in Ops /\ g[t].size \in Sizes
                           /\ Range(g[t].src) \subseteq 1 .. t - 1
                           /\ g[t].view \in 0 .. t - 1
    /\ phase # "build" =>
          /\ st.allocated \subseteq DOMAIN g
          /\ \A t \in DOMAIN g : st.children[t] \in Nat /\ st.views[t] \in Nat
    /\ intact \subseteq DOMAIN g
    /\ buffer \in Nat

(* The free blocks are sorted, do not touch, and are with the tensors that   *)
(* are allocated exactly the buffer: nothing is in use twice, nothing is     *)
(* lost, whatever was reused in place or freed through a view.               *)
Planned(t) == st.offset[t] .. st.offset[t] + aligned(g[t].size) - 1
FreeBlocksExact ==
    LET bs == st.talloc.blocks
        free == UNION {bs[k].offset .. End(bs[k]) - 1 : k \in DOMAIN bs}
        used == UNION {Planned(t) : t \in st.allocated}
    IN  phase \in {"leafs", "reserve", "planned", "aborted"} =>
            /\ \A k \in DOMAIN bs : bs[k].size > 0
            /\ \A k \in 1 .. Len(bs) - 1 : End(bs[k]) < bs[k + 1].offset
            /\ \A t, u \in st.allocated : t # u => Planned(t) \cap Planned(u) = {}
            /\ free \cap used = {}
            /\ free \cup used = 0 .. Half - 1

(* When a node is computed the memory of every tensor that it reads still    *)
(* holds the values of that tensor, through views too, and the node          *)
(* overwrites a source only in place, element for element.  At the end the   *)
(* outputs ("output tensors are never freed and never overwritten") and the  *)
(* result of the last node are there.  And every tensor lies in the buffer,  *)
(* for graphs that use an earlier plan too.                                  *)
TensorsIntact ==
    /\ phase = "compute" =>
        \A t \in DOMAIN g : Placed(g, t) => plan[t].offset + g[t].size <= buffer
    /\ phase = "compute" /\ i <= Len(g) =>
        \A s \in Range(g[i].src) :
            LET r == Root(g, s)
            IN  /\ r \in intact
                /\ Overlap(g, r, i) /\ ~is_view(g, i) =>
                        /\ g[i].op = "inplace" /\ g[r].size = g[i].size
                        /\ plan[r].offset = plan[i].offset
    /\ phase = "compute" /\ i > Len(g) =>
        \A t \in DOMAIN g : g[t].output \/ t = Len(g) => Root(g, t) \in intact
=============================================================================
