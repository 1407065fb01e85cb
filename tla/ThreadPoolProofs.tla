-------------------------- MODULE ThreadPoolProofs --------------------------
(***************************************************************************)
(* The thread pool keeps its threads together, for every number of threads,*)
(* nodes, chunks and graphs, as long as all graphs are computed by the     *)
(* same number of threads.                                                 *)
(*                                                                         *)
(* The argument: while the caller is engaged in a graph, every thread of   *)
(* the team either has not yet joined it, and then nobody has passed a     *)
(* barrier of the graph, or has passed as many of its barriers as the      *)
(* caller.  A thread that still spins in a barrier others have left counts *)
(* as having passed it.  The number of barriers passed, with the abort     *)
(* flag, determines the place where a thread is.                           *)
(***************************************************************************)
EXTENDS ThreadPool, FiniteSetTheorems, TLAPS

(* The numbers of threads that ggml_graph_compute_kickoff may store.       *)
TeamSizes == {IF n > MaxThreads THEN MaxThreads ELSE n : n \in Sizes}

(* Every graph is computed by the same number of threads.  The pool does   *)
(* not keep ResetAlone otherwise: see ThreadPool_resize.cfg.               *)
OneSize == \A m, n \in TeamSizes : m = n

InBarrier(t) == pc[t] \in {"barrier", "barrierAdd", "barrierReset", "barrierRelease", "barrierWait"}

(* Thread t is inside ggml_graph_compute_thread. *)
Inside(t) ==
    InBarrier(t) \/ pc[t] \in {"start", "loop", "prepare", "chunks", "callback", "next", "end"}

(* Thread t waits in a round that has ended. *)
Behind(t) == pc[t] = "barrierWait" /\ n_passed[t] # n_barrier_passed

(* Thread t has passed the final barrier. *)
Finished(t) == pc[t] = "end" \/ (Behind(t) /\ after[t] = "end")

Engaged(t) == Inside(t) /\ ~Finished(t)

(* The barriers of the graph passed by a thread in front of node k; there  *)
(* is no barrier behind the last node.                                     *)
LoopStage(k) == IF k = NNodes /\ k > 0 THEN 2 * k - 1 ELSE 2 * k

(* The barriers of the graph passed by an engaged thread. *)
Stage(t) ==
    CASE pc[t] = "start"    -> 0
      [] pc[t] = "loop"     -> LoopStage(node_n[t])
      [] pc[t] = "prepare"  -> 2 * node_n[t]
      [] pc[t] = "chunks"   -> 2 * node_n[t] + 1
      [] pc[t] = "callback" -> 2 * node_n[t] + 1
      [] pc[t] = "next"     -> LoopStage(node_n[t] + 1)
      [] OTHER ->
            (CASE after[t] = "chunks" -> 2 * node_n[t]
               [] after[t] = "next"   -> 2 * node_n[t] + 1
               [] OTHER               -> LoopStage(node_n[t]))
            + (IF Behind(t) THEN 1 ELSE 0)

-----------------------------------------------------------------------------
(* The workers of the team compute the graph that the caller computes, or  *)
(* have not yet seen it.                                                   *)
TeamInv ==
    /\ n_graph = 0 => \A t \in Threads : ~Inside(t)
    /\ n_graph > 0 \/ pc[0] = "kickoff2" => n_threads_cur \in TeamSizes
    /\ pc[0] \in {"kickoff", "kickoff2"} => n_graph < MaxGraphs
    /\ \A t \in Workers :
          /\ Inside(t) => t < n_threads_cur
          /\ last_graph[t] <= n_graph /\ new_graph[t] <= n_graph
          /\ pc[t] = "pollActive" => /\ new_graph[t] # last_graph[t]
                                     /\ t < n_threads_cur => new_graph[t] = n_graph
          /\ t < n_threads_cur /\ Engaged(0) => (Engaged(t) <=> last_graph[t] = n_graph)
          /\ t < n_threads_cur /\ ~Engaged(0) => ~Engaged(t) /\ last_graph[t] = n_graph

(* The other threads of the team wait in the current round. *)
Gathered(t) ==
    \A u \in Threads : u < n_threads_cur /\ u # t
                          => pc[u] = "barrierWait" /\ n_passed[u] = n_barrier_passed

RoundInv ==
    \A t \in Threads :
        /\ pc[t] = "barrierAdd" => n_passed[t] = n_barrier_passed
        /\ pc[t] \in {"barrierReset", "barrierRelease"} => Gathered(t)

Present == {t \in Threads : Met(t)}

CountInv ==
    n_barrier = IF \E t \in Threads : pc[t] = "barrierRelease"
                THEN 0 ELSE Cardinality(Present)

(* The engaged threads of the team have passed as many barriers of the     *)
(* graph as the caller; none if a thread of the team has not joined.       *)
StageInv ==
    Engaged(0) =>
        \A t \in Workers : t < n_threads_cur =>
            Stage(0) = IF Engaged(t) THEN Stage(t) ELSE 0

(* Where a thread is follows from its node and the abort flag. *)
InNode(t) == \/ pc[t] \in {"prepare", "chunks", "callback", "next"}
             \/ InBarrier(t) /\ after[t] \in {"chunks", "next"}
AtEnd(t)  == pc[t] = "end" \/ (InBarrier(t) /\ after[t] = "end")

Flow(t) ==
    /\ InNode(t) => node_n[t] < NNodes /\ abort # node_n[t]
    /\ InBarrier(t) /\ after[t] = "next" => node_n[t] + 1 < NNodes
    /\ AtEnd(t) => node_n[t] = NNodes \/ abort = node_n[t]
    /\ pc[t] # "start" => nth[t] = n_threads_cur

FlowInv == \A t \in Threads : Engaged(t) \/ (t = 0 /\ Inside(t)) => Flow(t)

IInv == TypeOK /\ TeamInv /\ RoundInv /\ CountInv /\ StageInv /\ FlowInv

-----------------------------------------------------------------------------
(* Thread u is where it was. *)
Same(u) == /\ pc'[u] = pc[u] /\ after'[u] = after[u] /\ node_n'[u] = node_n[u]
           /\ nth'[u] = nth[u] /\ n_passed'[u] = n_passed[u]

LEMMA SameView ==
    ASSUME NEW u \in Threads, Same(u), n_barrier_passed' = n_barrier_passed
    PROVE  /\ Inside(u)' = Inside(u) /\ InBarrier(u)' = InBarrier(u) /\ Engaged(u)' = Engaged(u)
           /\ Stage(u)' = Stage(u) /\ InNode(u)' = InNode(u) /\ AtEnd(u)' = AtEnd(u)
           /\ Met(u)' = Met(u) /\ Finished(u)' = Finished(u) /\ Behind(u)' = Behind(u)
BY DEF Same, Inside, InBarrier, Behind, Finished, Engaged, Stage, InNode, AtEnd, Met

(* Threads is what it is meant to be. *)
LEMMA ThreadsFacts ==
    /\ Threads \subseteq Nat /\ 0 \in Threads /\ Workers \subseteq Threads
    /\ \A t \in Workers : t # 0
    /\ \A t \in Threads : t = 0 \/ t \in Workers
    /\ \A t \in Threads : t < MaxThreads
BY SizeAssumption DEF Threads, Workers

(* A worker is engaged only while the caller is; the caller and the        *)
(* engaged workers belong to the team, and are at the same stage.          *)
LEMMA Together ==
    ASSUME IInv
    PROVE  /\ \A t \in Threads : Engaged(t) => Engaged(0) /\ Stage(t) = Stage(0)
           /\ \A t \in Threads : Inside(t) => t < n_threads_cur
<1>1. n_threads_cur \in 1 .. MaxThreads
  BY DEF IInv, TypeOK
<1>2. \A t \in Threads : Inside(t) => t < n_threads_cur
  BY <1>1, ThreadsFacts DEF IInv, TeamInv
<1>3. \A t \in Workers : Engaged(t) => Engaged(0) /\ Stage(t) = Stage(0)
  BY <1>2, ThreadsFacts DEF IInv, TeamInv, StageInv, Engaged
<1> QED BY <1>2, <1>3, ThreadsFacts

(* A step of an engaged thread t between two barriers. *)
LEMMA MoveStep ==
    ASSUME IInv, NEW t \in Threads, TypeOK',
           UNCHANGED <<pool, state, bar>>,
           \A u \in Threads \ {t} : Same(u),
           Engaged(t), Engaged(t)', Stage(t)' = Stage(t) \/ n_threads_cur = 1,
           ~Met(t), ~Met(t)', pc'[t] # "barrierAdd",
           FlowInv'
    PROVE  IInv'
<1>0. /\ n_graph' = n_graph /\ n_threads_cur' = n_threads_cur /\ last_graph' = last_graph
      /\ new_graph' = new_graph /\ n_barrier' = n_barrier
      /\ n_barrier_passed' = n_barrier_passed /\ n_passed' = n_passed
  BY DEF pool, state, bar
<1>1. \A u \in Threads \ {t} :
          /\ pc'[u] = pc[u] /\ Inside(u)' = Inside(u) /\ Engaged(u)' = Engaged(u)
          /\ Stage(u)' = Stage(u) /\ Met(u)' = Met(u)
  BY <1>0, SameView DEF Same
<1>2. /\ Inside(t) /\ Inside(t)' /\ pc[t] # "pollActive" /\ pc'[t] # "pollActive"
      /\ t = 0 => pc'[t] \notin {"kickoff", "kickoff2"}
  BY DEF Engaged, Inside, InBarrier
<1>3. TeamInv'
  BY <1>0, <1>1, <1>2, ThreadsFacts DEF IInv, TeamInv
<1>4. pc[t] \notin {"barrierReset", "barrierRelease"} /\ pc'[t] \notin {"barrierReset", "barrierRelease"}
  BY DEF Met
<1>5. t < n_threads_cur /\ Engaged(0)
  BY <1>2, Together
<1>6. \A u \in Threads \ {t} : pc[u] \notin {"barrierReset", "barrierRelease"}
  BY <1>5, <1>4 DEF IInv, RoundInv, Gathered, Met
<1>7. RoundInv'
  BY <1>0, <1>1, <1>4, <1>6 DEF IInv, RoundInv
<1>8. Present' = Present
  BY <1>1 DEF Present
<1>9. CountInv'
  BY <1>0, <1>1, <1>4, <1>8 DEF IInv, CountInv
<1>10. StageInv'
  <2>1. CASE n_threads_cur = 1
    BY <2>1, <1>0, ThreadsFacts DEF StageInv
  <2>2. CASE Stage(t)' = Stage(t)
    BY <2>2, <1>0, <1>1, ThreadsFacts DEF StageInv, IInv
  <2> QED BY <2>1, <2>2
<1> QED BY <1>3, <1>7, <1>9, <1>10 DEF IInv

(* Where the other threads are does not change while they stand still. *)
LEMMA FlowOthers ==
    ASSUME IInv, NEW t \in Threads, \A u \in Threads \ {t} : Same(u),
           n_barrier_passed' = n_barrier_passed, n_threads_cur' = n_threads_cur,
           abort' = abort, Engaged(t)' \/ (t = 0 /\ Inside(t)') => Flow(t)'
    PROVE  FlowInv'
<1> SUFFICES ASSUME NEW u \in Threads, Engaged(u)' \/ (u = 0 /\ Inside(u)') PROVE Flow(u)'
  BY DEF FlowInv
<1>1. CASE u = t
  BY <1>1
<1>2. CASE u # t
  <2>1. Same(u) /\ Inside(u)' = Inside(u) /\ InBarrier(u)' = InBarrier(u) /\ Engaged(u)' = Engaged(u)
        /\ InNode(u)' = InNode(u) /\ AtEnd(u)' = AtEnd(u)
    BY <1>2, SameView
  <2>2. Flow(u)
    BY <2>1 DEF IInv, FlowInv
  <2> QED BY <2>1, <2>2 DEF Flow, Same
<1> QED BY <1>1, <1>2

(* An engaged thread is where its label says, with the facts of Flow. *)
LEMMA EngagedAt ==
    ASSUME IInv, NEW t \in Threads,
           pc[t] \in {"start", "loop", "prepare", "chunks", "callback", "next",
                      "barrier", "barrierAdd", "barrierReset", "barrierRelease"}
    PROVE  Engaged(t) /\ Flow(t) /\ t < n_threads_cur
<1>1. Engaged(t)
  BY DEF Engaged, Inside, InBarrier, Finished, Behind
<1> QED BY <1>1, Together DEF IInv, FlowInv, Engaged

LEMMA StartStep ==
    ASSUME IInv, TypeOK', NEW t \in Threads, Start(t)
    PROVE  IInv'
<1>1. /\ UNCHANGED <<pool, state, bar>> /\ abort' = abort /\ after' = after
      /\ pc[t] = "start" /\ pc' = [pc EXCEPT ![t] = "loop"] /\ pc'[t] = "loop"
      /\ nth' = [nth EXCEPT ![t] = n_threads_cur] /\ node_n' = [node_n EXCEPT ![t] = 0]
      /\ nth'[t] = n_threads_cur /\ node_n'[t] = 0
      /\ \A u \in Threads \ {t} : Same(u)
  BY DEF Start, Goto, IInv, TypeOK, Same, bar
<1>2. Engaged(t) /\ Engaged(t)' /\ ~Met(t) /\ ~Met(t)'
  BY <1>1 DEF Engaged, Inside, InBarrier, Finished, Behind, Met
<1>3. Stage(t)' = Stage(t)
  BY <1>1, ShapeAssumption DEF Stage, LoopStage
<1>4. Flow(t)'
  BY <1>1 DEF Flow, InNode, AtEnd, InBarrier, pool
<1>5. FlowInv'
  BY <1>1, <1>4, FlowOthers DEF pool, bar
<1> QED BY <1>1, <1>2, <1>3, <1>5, MoveStep

(* The thread goes on to its final barrier or to a node. *)
LEMMA LoopStep ==
    ASSUME IInv, TypeOK', NEW t \in Threads, Loop(t), n_threads_cur > 1 \/ ~Stops(t)
    PROVE  IInv'
<1>0. n_threads_cur \in Nat /\ NNodes \in Nat /\ node_n[t] \in 0 .. NNodes
      /\ pc \in [Threads -> Labels] /\ after \in [Threads -> {"chunks", "next", "end"}]
  BY ShapeAssumption, SizeAssumption DEF IInv, TypeOK
<1>1. /\ UNCHANGED <<pool, state, bar>> /\ abort' = abort /\ node_n' = node_n /\ nth' = nth
      /\ pc[t] = "loop"
      /\ IF Stops(t) THEN pc'[t] = "barrier" /\ after'[t] = "end" ELSE pc'[t] = "prepare"
      /\ \A u \in Threads \ {t} : Same(u)
  BY <1>0 DEF Loop, Goto, B!CallBarrier, B!Goto, Same, bar, work
<1>2. Engaged(t) /\ Engaged(t)' /\ ~Met(t) /\ ~Met(t)' /\ pc'[t] # "barrierAdd"
  BY <1>1 DEF Engaged, Inside, InBarrier, Finished, Behind, Met
<1>3. Stage(t)' = Stage(t)
  BY <1>0, <1>1 DEF Stage, LoopStage, Stops, Behind
<1>4. Flow(t)'
  <2>1. nth[t] = n_threads_cur
    BY <1>1, EngagedAt DEF Flow
  <2> QED BY <1>0, <1>1, <2>1 DEF Flow, InNode, AtEnd, InBarrier, pool, Stops
<1>5. FlowInv'
  BY <1>1, <1>4, FlowOthers DEF pool, bar
<1> QED BY <1>1, <1>2, <1>3, <1>5, MoveStep

LEMMA PrepareStep ==
    ASSUME IInv, TypeOK', NEW t \in Threads, Prepare(t)
    PROVE  IInv'
<1>0. n_threads_cur \in Nat /\ NNodes \in Nat /\ node_n[t] \in 0 .. NNodes
      /\ pc \in [Threads -> Labels] /\ after \in [Threads -> {"chunks", "next", "end"}]
  BY ShapeAssumption, SizeAssumption DEF IInv, TypeOK
<1>1. /\ UNCHANGED <<pool, state, bar>> /\ abort' = abort /\ node_n' = node_n /\ nth' = nth
      /\ pc[t] = "prepare" /\ after'[t] = "chunks"
      /\ pc'[t] = IF n_threads_cur = 1 THEN "chunks" ELSE "barrier"
      /\ \A u \in Threads \ {t} : Same(u)
  BY <1>0 DEF Prepare, B!CallBarrier, B!Goto, Same, bar
<1>2. Engaged(t) /\ Engaged(t)' /\ ~Met(t) /\ ~Met(t)' /\ pc'[t] # "barrierAdd"
  BY <1>1 DEF Engaged, Inside, InBarrier, Finished, Behind, Met
<1>3. Stage(t)' = Stage(t) \/ n_threads_cur = 1
  BY <1>0, <1>1 DEF Stage, LoopStage, Behind
<1>4. Flow(t)'
  <2>1. nth[t] = n_threads_cur /\ node_n[t] < NNodes /\ abort # node_n[t]
    BY <1>1, EngagedAt DEF Flow, InNode
  <2> QED BY <1>0, <1>1, <2>1 DEF Flow, InNode, AtEnd, InBarrier, pool
<1>5. FlowInv'
  BY <1>1, <1>4, FlowOthers DEF pool, bar
<1> QED BY <1>1, <1>2, <1>3, <1>5, MoveStep

LEMMA ChunksStep ==
    ASSUME IInv, TypeOK', NEW t \in Threads, Compute(t) \/ ChunksDone(t)
    PROVE  IInv'
<1>0. pc \in [Threads -> Labels]
  BY DEF IInv, TypeOK
<1>1. /\ UNCHANGED <<pool, state, bar>> /\ abort' = abort /\ node_n' = node_n /\ nth' = nth
      /\ after' = after /\ pc[t] = "chunks" /\ pc'[t] \in {"chunks", "callback"}
      /\ \A u \in Threads \ {t} : Same(u)
  BY <1>0 DEF Compute, ChunksDone, Goto, Same, bar, work
<1>2. Engaged(t) /\ Engaged(t)' /\ ~Met(t) /\ ~Met(t)' /\ pc'[t] # "barrierAdd"
  BY <1>1 DEF Engaged, Inside, InBarrier, Finished, Behind, Met
<1>3. Stage(t)' = Stage(t)
  BY <1>1 DEF Stage
<1>4. Flow(t)'
  <2>1. nth[t] = n_threads_cur /\ node_n[t] < NNodes /\ abort # node_n[t]
    BY <1>1, EngagedAt DEF Flow, InNode
  <2> QED BY <1>1, <2>1 DEF Flow, InNode, AtEnd, InBarrier, pool
<1>5. FlowInv'
  BY <1>1, <1>4, FlowOthers DEF pool, bar
<1> QED BY <1>1, <1>2, <1>3, <1>5, MoveStep

(* An abort in node k concerns node k + 1, where nobody is yet. *)
LEMMA CallbackStep ==
    ASSUME IInv, TypeOK', NEW t \in Threads, Callback(t)
    PROVE  IInv'
<1>0. n_threads_cur \in Nat /\ NNodes \in Nat /\ node_n \in [Threads -> 0 .. NNodes]
      /\ pc \in [Threads -> Labels] /\ after \in [Threads -> {"chunks", "next", "end"}]
  BY ShapeAssumption, SizeAssumption DEF IInv, TypeOK
<1>1. /\ UNCHANGED <<pool, state, bar>> /\ node_n' = node_n /\ nth' = nth
      /\ pc[t] = "callback"
      /\ IF node_n[t] + 1 < NNodes
         THEN pc'[t] = (IF n_threads_cur = 1 THEN "next" ELSE "barrier") /\ after'[t] = "next"
         ELSE pc'[t] = "next"
      /\ \A u \in Threads \ {t} : Same(u)
      /\ abort' = abort \/ (t = 0 /\ abort' = node_n[t] + 1)
  BY <1>0 DEF Callback, NodeBarrier, Goto, B!CallBarrier, B!Goto, Same, bar
<1>2. Engaged(t) /\ Engaged(t)' /\ ~Met(t) /\ ~Met(t)' /\ pc'[t] # "barrierAdd"
  BY <1>1 DEF Engaged, Inside, InBarrier, Finished, Behind, Met
<1>3. nth[t] = n_threads_cur /\ node_n[t] < NNodes /\ abort # node_n[t]
  BY <1>1, EngagedAt DEF Flow, InNode
<1>4. Stage(t)' = Stage(t) \/ n_threads_cur = 1
  BY <1>0, <1>1, <1>3 DEF Stage, LoopStage, Behind
<1>5. Flow(t)'
  BY <1>0, <1>1, <1>3 DEF Flow, InNode, AtEnd, InBarrier, pool
<1>6. CASE abort' = abort
  <2>1. FlowInv'
    BY <1>1, <1>5, <1>6, FlowOthers DEF pool, bar
  <2> QED BY <1>1, <1>2, <1>4, <2>1, MoveStep
<1>7. CASE t = 0 /\ abort' = node_n[t] + 1
  <2>1. ASSUME NEW u \in Threads, u # t, Engaged(u)
        PROVE  Flow(u)'
    <3>1. Same(u) /\ InBarrier(u)' = InBarrier(u) /\ InNode(u)' = InNode(u) /\ AtEnd(u)' = AtEnd(u)
          /\ Flow(u)
      BY <2>1, <1>1, SameView DEF bar, IInv, FlowInv
    <3>2. Stage(u) = 2 * node_n[t] + 1
      <4>1. Stage(u) = Stage(t)
        BY <2>1, <1>2, <1>7, Together
      <4> QED BY <4>1, <1>1 DEF Stage
    <3>3. InNode(u) => node_n[u] = node_n[t]
      BY <3>1, <3>2, <1>0, <1>3 DEF InNode, InBarrier, Stage, LoopStage, Behind, Flow
    <3>4. AtEnd(u) => node_n[u] = NNodes
      <4>1. AtEnd(u) => Stage(u) = LoopStage(node_n[u])
        BY <2>1, <1>0 DEF AtEnd, InBarrier, Stage, LoopStage, Engaged, Finished
      <4> QED BY <4>1, <3>2, <1>0, <1>3 DEF LoopStage
    <3> QED BY <3>1, <3>3, <3>4, <1>0, <1>1, <1>7 DEF Flow, Same, pool
  <2>2. FlowInv'
    <3> SUFFICES ASSUME NEW u \in Threads, Engaged(u)' \/ (u = 0 /\ Inside(u)') PROVE Flow(u)'
      BY DEF FlowInv
    <3>1. u # t => Engaged(u)' = Engaged(u)
      BY <1>1, SameView DEF bar
    <3> QED BY <3>1, <2>1, <1>5, <1>7
  <2> QED BY <1>1, <1>2, <1>4, <2>2, MoveStep
<1> QED BY <1>1, <1>6, <1>7

LEMMA NextNodeStep ==
    ASSUME IInv, TypeOK', NEW t \in Threads, NextNode(t)
    PROVE  IInv'
<1>0. node_n[t] \in Int /\ pc \in [Threads -> Labels] /\ node_n \in [Threads -> 0 .. NNodes]
  BY ShapeAssumption DEF IInv, TypeOK
<1>1. /\ UNCHANGED <<pool, state, bar>> /\ abort' = abort /\ nth' = nth
      /\ after' = after /\ pc[t] = "next" /\ pc'[t] = "loop" /\ node_n'[t] = node_n[t] + 1
      /\ \A u \in Threads \ {t} : Same(u)
  BY <1>0 DEF NextNode, Goto, Same, bar
<1>2. Engaged(t) /\ Engaged(t)' /\ ~Met(t) /\ ~Met(t)' /\ pc'[t] # "barrierAdd"
  BY <1>1 DEF Engaged, Inside, InBarrier, Finished, Behind, Met
<1>3. Stage(t)' = Stage(t)
  BY <1>1 DEF Stage
<1>4. Flow(t)'
  <2>1. nth[t] = n_threads_cur
    BY <1>1, EngagedAt DEF Flow
  <2> QED BY <1>1, <2>1 DEF Flow, InNode, AtEnd, InBarrier, pool
<1>5. FlowInv'
  BY <1>1, <1>4, FlowOthers DEF pool, bar
<1> QED BY <1>1, <1>2, <1>3, <1>5, MoveStep

-----------------------------------------------------------------------------
(***************************************************************************)
(* Steps of threads that are not engaged.                                  *)
(***************************************************************************)

(* A thread that is not engaged is not counted in the barrier. *)
LEMMA NotMet ==
    ASSUME NEW u \in Threads, ~Engaged(u)
    PROVE  ~Met(u) /\ pc[u] \notin {"barrier", "barrierAdd", "barrierReset", "barrierRelease"}
BY DEF Engaged, Inside, InBarrier, Finished, Behind, Met

(* Threads outside of the graph, or about to leave it, do not disturb the  *)
(* others.                                                                 *)
LEMMA OutStep ==
    ASSUME IInv, TypeOK', UNCHANGED <<n_graph, n_threads_cur, bar>>,
           \A u \in Threads : Same(u) \/ (~Engaged(u) /\ ~Inside(u)'),
           abort' = abort \/ (~Engaged(0) /\ ~Inside(0)'),
           pc'[0] = "kickoff2" => n_threads_cur \in TeamSizes,
           pc'[0] \in {"kickoff", "kickoff2"} => n_graph < MaxGraphs,
           \A u \in Workers :
              /\ last_graph'[u] <= n_graph /\ new_graph'[u] <= n_graph
              /\ pc'[u] = "pollActive" => /\ new_graph'[u] # last_graph'[u]
                                          /\ u < n_threads_cur => new_graph'[u] = n_graph
              /\ u < n_threads_cur => last_graph'[u] = last_graph[u]
    PROVE  IInv'
<1>0. /\ n_graph' = n_graph /\ n_threads_cur' = n_threads_cur /\ n_barrier' = n_barrier
      /\ n_barrier_passed' = n_barrier_passed /\ n_passed' = n_passed
  BY DEF bar
<1>1. \A u \in Threads :
          /\ Inside(u)' => Same(u) /\ Inside(u)
          /\ (Engaged(u)' <=> Engaged(u)) /\ (Met(u)' <=> Met(u))
          /\ Engaged(u) => Stage(u)' = Stage(u)
  <2> SUFFICES ASSUME NEW u \in Threads
               PROVE  /\ Inside(u)' => Same(u) /\ Inside(u)
                      /\ (Engaged(u)' <=> Engaged(u)) /\ (Met(u)' <=> Met(u))
                      /\ Engaged(u) => Stage(u)' = Stage(u)
    OBVIOUS
  <2>1. CASE Same(u)
    BY <2>1, <1>0, SameView
  <2>2. CASE ~Engaged(u) /\ ~Inside(u)'
    <3>1. ~Met(u) /\ ~Met(u)' /\ ~Engaged(u)'
      BY <2>2, NotMet DEF Met, Inside, InBarrier, Engaged
    <3> QED BY <3>1, <2>2
  <2> QED BY <2>1, <2>2
<1>2. TeamInv'
  BY <1>0, <1>1, ThreadsFacts DEF IInv, TeamInv
<1>3. RoundInv'
  <2> SUFFICES ASSUME NEW u \in Threads
               PROVE  /\ pc'[u] = "barrierAdd" => n_passed'[u] = n_barrier_passed'
                      /\ pc'[u] \in {"barrierReset", "barrierRelease"} => Gathered(u)'
    BY DEF RoundInv
  <2>1. pc'[u] \in {"barrierAdd", "barrierReset", "barrierRelease"} => pc[u] = pc'[u]
    BY <1>1 DEF Inside, InBarrier, Same
  <2>2. ASSUME pc'[u] \in {"barrierReset", "barrierRelease"}
        PROVE  Gathered(u)'
    <3> SUFFICES ASSUME NEW v \in Threads, v < n_threads_cur, v # u
                 PROVE  pc'[v] = "barrierWait" /\ n_passed'[v] = n_barrier_passed'
      BY <1>0 DEF Gathered
    <3>1. pc[v] = "barrierWait" /\ n_passed[v] = n_barrier_passed
      BY <2>1, <2>2 DEF IInv, RoundInv, Gathered
    <3>2. Engaged(v)
      BY <3>1 DEF Engaged, Inside, InBarrier, Finished, Behind
    <3> QED BY <3>1, <3>2, <1>0, <1>1 DEF Same
  <2> QED BY <2>1, <2>2, <1>0 DEF IInv, RoundInv
<1>4. Present' = Present
  BY <1>1 DEF Present
<1>5. (\E u \in Threads : pc[u] = "barrierRelease") <=> (\E u \in Threads : pc'[u] = "barrierRelease")
  <2>1. ASSUME NEW u \in Threads PROVE pc[u] = "barrierRelease" <=> pc'[u] = "barrierRelease"
    BY NotMet DEF Same, Inside, InBarrier
  <2> QED BY <2>1
<1>6. CountInv'
  BY <1>0, <1>4, <1>5 DEF IInv, CountInv
<1>7. StageInv'
  BY <1>0, <1>1, ThreadsFacts DEF IInv, StageInv
<1>8. FlowInv'
  <2> SUFFICES ASSUME NEW u \in Threads, Engaged(u)' \/ (u = 0 /\ Inside(u)')
               PROVE  Flow(u)'
    BY DEF FlowInv
  <2>1. Same(u) /\ (Engaged(u) \/ (u = 0 /\ Inside(u)))
    BY <1>1 DEF Engaged
  <2>2. abort' = abort
    BY <2>1, <1>1, Together, ThreadsFacts DEF Engaged
  <2>3. Flow(u) /\ InBarrier(u)' = InBarrier(u) /\ InNode(u)' = InNode(u) /\ AtEnd(u)' = AtEnd(u)
    BY <2>1, <1>0, SameView DEF IInv, FlowInv
  <2> QED BY <2>1, <2>2, <2>3, <1>0 DEF Flow, Same
<1> QED BY <1>2, <1>3, <1>6, <1>7, <1>8 DEF IInv

(* A worker of the team joins: nobody has passed a barrier of the graph.   *)
LEMMA JoinStep ==
    ASSUME IInv, TypeOK', NEW t \in Workers, t < n_threads_cur,
           UNCHANGED <<pool, bar, work, after, new_graph>>,
           ~Inside(t), last_graph[t] # n_graph,
           last_graph' = [last_graph EXCEPT ![t] = n_graph],
           pc' = [pc EXCEPT ![t] = "start"]
    PROVE  IInv'
<1>0. /\ n_graph' = n_graph /\ n_threads_cur' = n_threads_cur /\ n_barrier' = n_barrier
      /\ n_barrier_passed' = n_barrier_passed /\ n_passed' = n_passed /\ abort' = abort
      /\ new_graph' = new_graph /\ pc \in [Threads -> Labels] /\ n_graph \in Nat
      /\ last_graph \in [Threads -> 0 .. MaxGraphs] /\ t \in Threads /\ t # 0
      /\ pc'[t] = "start" /\ last_graph'[t] = n_graph
  BY ThreadsFacts, ShapeAssumption DEF IInv, TypeOK, pool, bar, work
<1>1. \A u \in Threads \ {t} :
         /\ Same(u) /\ last_graph'[u] = last_graph[u]
         /\ Inside(u)' = Inside(u) /\ Engaged(u)' = Engaged(u)
         /\ Stage(u)' = Stage(u) /\ Met(u)' = Met(u)
  <2>1. \A u \in Threads \ {t} : Same(u) /\ last_graph'[u] = last_graph[u]
    BY <1>0 DEF Same, work
  <2> QED BY <2>1, <1>0, SameView
<1>2. /\ Engaged(0) /\ ~Engaged(t) /\ ~Met(t) /\ Engaged(t)' /\ Inside(t)' /\ ~Met(t)'
      /\ Stage(t)' = 0 /\ Stage(0) = 0
  <2>1. Engaged(0) /\ ~Engaged(t)
    BY <1>0 DEF IInv, TeamInv, Engaged
  <2>2. ~Met(t) /\ Stage(0) = 0
    BY <2>1, NotMet, <1>0 DEF IInv, StageInv
  <2>3. Engaged(t)' /\ Inside(t)' /\ ~Met(t)' /\ Stage(t)' = 0
    BY <1>0 DEF Engaged, Inside, InBarrier, Finished, Behind, Met, Stage
  <2> QED BY <2>1, <2>2, <2>3
<1>3. TeamInv'
  <2>1. n_graph # 0
    BY <1>2, <1>0, ThreadsFacts DEF IInv, TeamInv, Engaged
  <2>2. n_threads_cur' \in TeamSizes
    BY <2>1, <1>0 DEF IInv, TeamInv
  <2>3. pc'[0] = pc[0] /\ Engaged(0)'
    BY <1>0, <1>1, <1>2, ThreadsFacts DEF Same
  <2> QED BY <2>1, <2>2, <2>3, <1>0, <1>1, <1>2, ThreadsFacts DEF IInv, TeamInv, Same
<1>4. \A u \in Threads : pc[u] \notin {"barrierReset", "barrierRelease"}
  BY <1>0, <1>2 DEF IInv, RoundInv, Gathered, Met
<1>5. RoundInv'
  BY <1>0, <1>1, <1>4 DEF IInv, RoundInv, Same
<1>6. Present' = Present
  BY <1>1, <1>2 DEF Present
<1>7. CountInv'
  BY <1>0, <1>1, <1>4, <1>6 DEF IInv, CountInv, Same
<1>8. StageInv'
  BY <1>0, <1>1, <1>2, ThreadsFacts DEF IInv, StageInv
<1>9. Flow(t)'
  BY <1>0 DEF Flow, InNode, AtEnd, InBarrier
<1>10. FlowInv'
  BY <1>0, <1>1, <1>9, FlowOthers
<1> QED BY <1>3, <1>5, <1>7, <1>8, <1>10 DEF IInv

LEMMA LookStep ==
    ASSUME IInv, TypeOK', NEW t \in Workers, Look(t)
    PROVE  IInv'
<1>0. /\ pc \in [Threads -> Labels] /\ t \in Threads /\ t # 0 /\ n_graph \in Nat
      /\ last_graph \in [Threads -> 0 .. MaxGraphs] /\ new_graph \in [Threads -> 0 .. MaxGraphs]
      /\ n_threads_cur \in Nat
  BY ThreadsFacts, ShapeAssumption, SizeAssumption DEF IInv, TypeOK
<1>1. /\ UNCHANGED <<pool, bar, work, after>>
      /\ \A u \in Threads \ {t} : pc'[u] = pc[u] /\ Same(u)
                                  /\ last_graph'[u] = last_graph[u] /\ new_graph'[u] = new_graph[u]
      /\ ~Inside(t)
  <2>1. /\ UNCHANGED <<pool, bar, work, after>>
        /\ \A u \in Threads \ {t} : /\ pc'[u] = pc[u] /\ last_graph'[u] = last_graph[u]
                                    /\ new_graph'[u] = new_graph[u]
        /\ pc[t] \in {"top", "pauseLock", "stopCheck", "pollEnter", "poll", "pollActive", "lock"}
    BY <1>0 DEF Look, Top, PauseLock, StopCheck, PollEnter, Poll, PollGiveUp, PollActive,
                LockedReady, Goto, state
  <2> QED BY <2>1 DEF Inside, InBarrier, Same, bar, work
<1>2. /\ \/ pc'[t] = "start"
         \/ pc'[t] \in Labels /\ ~Inside(t)'
            /\ last_graph'[t] <= n_graph /\ new_graph'[t] <= n_graph
            /\ (pc'[t] = "pollActive" => new_graph'[t] # last_graph'[t] /\ new_graph'[t] = n_graph)
            /\ (t < n_threads_cur => last_graph'[t] = last_graph[t])
      /\ pc'[t] = "start" => /\ t < n_threads_cur /\ last_graph[t] # n_graph
                             /\ last_graph' = [last_graph EXCEPT ![t] = n_graph]
                             /\ new_graph' = new_graph /\ pc' = [pc EXCEPT ![t] = "start"]
  <2>1. CASE Top(t) \/ PauseLock(t) \/ StopCheck(t) \/ PollEnter(t) \/ PollGiveUp(t)
    <3>1. /\ last_graph' = last_graph /\ new_graph' = new_graph
          /\ pc'[t] \in {"top", "pauseLock", "pauseAsleep", "stopCheck", "exit", "pollEnter", "poll", "lock"}
      BY <2>1, <1>0 DEF Top, PauseLock, StopCheck, PollEnter, PollGiveUp, Goto, state
    <3> QED BY <3>1 DEF IInv, TeamInv, Inside, InBarrier, Labels
  <2>2. CASE Poll(t)
    <3>1. /\ last_graph' = last_graph
          /\ \/ pc'[t] = "lock" /\ new_graph' = new_graph
             \/ pc'[t] = "pollActive" /\ new_graph'[t] = n_graph /\ n_graph # last_graph[t]
      BY <2>2, <1>0 DEF Poll, Goto
    <3> QED BY <3>1, <1>0 DEF IInv, TeamInv, Inside, InBarrier, Labels
  <2>3. CASE PollActive(t)
    <3>1. /\ last_graph' = [last_graph EXCEPT ![t] = new_graph[t]] /\ new_graph' = new_graph
          /\ pc' = [pc EXCEPT ![t] = IF t < n_threads_cur THEN "start" ELSE "poll"]
          /\ new_graph[t] # last_graph[t]
          /\ t < n_threads_cur => new_graph[t] = n_graph
      BY <2>3, <1>0 DEF PollActive, Goto, Active, IInv, TeamInv
    <3> QED BY <3>1, <1>0 DEF IInv, TeamInv, Inside, InBarrier, Labels
  <2>4. CASE LockedReady(t)
    <3>1. /\ new_graph' = new_graph
          /\ \/ pc'[t] = "top" /\ last_graph' = last_graph
             \/ /\ last_graph' = [last_graph EXCEPT ![t] = n_graph]
                /\ pc' = [pc EXCEPT ![t] = IF n_graph # last_graph[t] /\ t < n_threads_cur
                                           THEN "start" ELSE "asleep"]
      BY <2>4, <1>0 DEF LockedReady, Goto, Active, SeenGraph
    <3> QED BY <3>1, <1>0 DEF IInv, TeamInv, Inside, InBarrier, Labels
  <2> QED BY <2>1, <2>2, <2>3, <2>4 DEF Look
<1>3. CASE pc'[t] = "start"
  BY <1>0, <1>1, <1>2, <1>3, JoinStep
<1>4. CASE pc'[t] # "start"
  <2>1. \A u \in Workers :
            /\ last_graph'[u] <= n_graph /\ new_graph'[u] <= n_graph
            /\ pc'[u] = "pollActive" => /\ new_graph'[u] # last_graph'[u]
                                        /\ u < n_threads_cur => new_graph'[u] = n_graph
            /\ u < n_threads_cur => last_graph'[u] = last_graph[u]
    BY <1>1, <1>2, <1>4, ThreadsFacts DEF IInv, TeamInv
  <2>2. \A u \in Threads : Same(u) \/ (~Engaged(u) /\ ~Inside(u)')
    BY <1>1, <1>2, <1>4 DEF Engaged
  <2>3. n_graph' = n_graph /\ n_threads_cur' = n_threads_cur /\ abort' = abort /\ pc'[0] = pc[0]
    BY <1>0, <1>1, ThreadsFacts DEF pool, work
  <2>4. /\ pc'[0] = "kickoff2" => n_threads_cur \in TeamSizes
        /\ pc'[0] \in {"kickoff", "kickoff2"} => n_graph < MaxGraphs
    BY <2>3 DEF IInv, TeamInv
  <2> QED BY <1>1, <2>1, <2>2, <2>3, <2>4, OutStep
<1> QED BY <1>3, <1>4

(* Behind the final barrier. *)
LEMMA EndStep ==
    ASSUME IInv, TypeOK', NEW t \in Threads, End(t)
    PROVE  IInv'
<1>0. pc \in [Threads -> Labels]
  BY DEF IInv, TypeOK
<1>1. /\ UNCHANGED <<pool, state, bar, work, after>>
      /\ pc[t] = "end" /\ pc'[t] \in {"idle", "top"}
      /\ \A u \in Threads \ {t} : pc'[u] = pc[u] /\ Same(u)
  BY <1>0 DEF End, Goto, Same, bar, work
<1>2. ~Engaged(t) /\ ~Inside(t)'
  BY <1>1 DEF Engaged, Finished, Inside, InBarrier
<1>3. n_graph' = n_graph /\ n_threads_cur' = n_threads_cur /\ abort' = abort
      /\ last_graph' = last_graph /\ new_graph' = new_graph
  BY <1>1 DEF pool, work, state
<1>4. /\ pc'[0] = "kickoff2" => n_threads_cur \in TeamSizes
      /\ pc'[0] \in {"kickoff", "kickoff2"} => n_graph < MaxGraphs
      /\ \A u \in Workers : pc'[u] = "pollActive" => pc[u] = "pollActive"
  BY <1>1, ThreadsFacts DEF IInv, TeamInv
<1>5. \A u \in Workers :
            /\ last_graph'[u] <= n_graph /\ new_graph'[u] <= n_graph
            /\ pc'[u] = "pollActive" => /\ new_graph'[u] # last_graph'[u]
                                        /\ u < n_threads_cur => new_graph'[u] = n_graph
            /\ u < n_threads_cur => last_graph'[u] = last_graph[u]
  BY <1>3, <1>4 DEF IInv, TeamInv
<1> QED BY <1>1, <1>2, <1>3, <1>4, <1>5, OutStep

(* What waking the sleepers does to the invariant's view of the threads. *)
LEMMA BroadcastView ==
    ASSUME IInv
    PROVE  /\ Broadcast \in [Threads -> Labels]
           /\ \A u \in Threads :
                \/ Broadcast[u] = pc[u]
                \/ pc[u] \in {"asleep", "pauseAsleep"} /\ Broadcast[u] \in {"lock", "top"}
BY DEF IInv, TypeOK, Broadcast, Labels

(* The calls that start no graph. *)
LEMMA CallStep ==
    ASSUME IInv, TypeOK', GraphCompute \/ Pause \/ Resume \/ Free \/ FreeJoin
    PROVE  IInv'
<1>0. pc \in [Threads -> Labels] /\ 0 \in Threads
  BY ThreadsFacts DEF IInv, TypeOK
<1>1. /\ UNCHANGED <<n_graph, n_threads_cur, state, bar, nth, node_n, after>>
      /\ pc[0] \in {"idle", "join"} /\ pc'[0] \in {"idle", "kickoff", "join", "freed"}
      /\ pc'[0] = "kickoff" => n_graph < MaxGraphs
      /\ \A u \in Workers : \/ pc'[u] = pc[u]
                            \/ pc[u] \in {"asleep", "pauseAsleep"} /\ pc'[u] \in {"lock", "top"}
  BY <1>0, BroadcastView, ThreadsFacts
     DEF GraphCompute, Pause, Resume, Free, FreeJoin, Goto, pool, work
<1>2. /\ n_graph' = n_graph /\ n_threads_cur' = n_threads_cur /\ last_graph' = last_graph
      /\ new_graph' = new_graph /\ nth' = nth /\ node_n' = node_n /\ after' = after
      /\ n_passed' = n_passed
  BY <1>1 DEF state, bar
<1>3. ~Engaged(0) /\ ~Inside(0)'
  BY <1>1 DEF Engaged, Inside, InBarrier
<1>4. \A u \in Threads : Same(u) \/ (~Engaged(u) /\ ~Inside(u)')
  BY <1>1, <1>2, <1>3, ThreadsFacts DEF Same, Engaged, Inside, InBarrier
<1>5. \A u \in Workers :
            /\ last_graph'[u] <= n_graph /\ new_graph'[u] <= n_graph
            /\ pc'[u] = "pollActive" => /\ new_graph'[u] # last_graph'[u]
                                        /\ u < n_threads_cur => new_graph'[u] = n_graph
            /\ u < n_threads_cur => last_graph'[u] = last_graph[u]
  BY <1>1, <1>2 DEF IInv, TeamInv
<1> QED BY <1>1, <1>3, <1>4, <1>5, OutStep

(* The team is chosen while nobody computes; later it stays what it was. *)
LEMMA KickoffThreadsStep ==
    ASSUME OneSize, IInv, TypeOK', KickoffThreads
    PROVE  IInv'
<1>0. pc \in [Threads -> Labels] /\ 0 \in Threads /\ n_graph \in Nat
      /\ last_graph \in [Threads -> 0 .. MaxGraphs]
  BY ThreadsFacts, ShapeAssumption DEF IInv, TypeOK
<1>1. /\ UNCHANGED <<n_graph, stop, pause, state, bar, work, after>>
      /\ n_threads_cur' \in TeamSizes /\ pc[0] = "kickoff" /\ pc'[0] = "kickoff2"
      /\ \A u \in Threads \ {0} : pc'[u] = pc[u]
  BY <1>0 DEF KickoffThreads, Goto, TeamSizes
<1>2. /\ n_graph' = n_graph /\ last_graph' = last_graph
      /\ new_graph' = new_graph /\ nth' = nth /\ node_n' = node_n /\ after' = after
      /\ n_passed' = n_passed /\ abort' = abort
      /\ n_barrier' = n_barrier /\ n_barrier_passed' = n_barrier_passed
  BY <1>1 DEF state, bar, work
<1>3. ~Engaged(0) /\ ~Inside(0)' /\ ~Inside(0) /\ n_graph < MaxGraphs
  BY <1>1 DEF Engaged, Inside, InBarrier, IInv, TeamInv
<1>4. \A u \in Threads : Same(u) \/ (~Engaged(u) /\ ~Inside(u)')
  BY <1>1, <1>2, <1>3 DEF Same
<1>5. CASE n_graph > 0
  <2>1. n_threads_cur' = n_threads_cur /\ n_threads_cur \in TeamSizes
    BY <1>5, <1>1 DEF OneSize, IInv, TeamInv
  <2>2. \A u \in Workers :
              /\ last_graph'[u] <= n_graph /\ new_graph'[u] <= n_graph
              /\ pc'[u] = "pollActive" => /\ new_graph'[u] # last_graph'[u]
                                          /\ u < n_threads_cur => new_graph'[u] = n_graph
              /\ u < n_threads_cur => last_graph'[u] = last_graph[u]
    BY <1>1, <1>2, ThreadsFacts DEF IInv, TeamInv
  <2> QED BY <2>1, <2>2, <1>1, <1>2, <1>3, <1>4, OutStep
<1>6. CASE n_graph = 0
  <2>1. \A u \in Threads : ~Inside(u) /\ ~Inside(u)' /\ ~Engaged(u) /\ ~Engaged(u)'
    BY <1>6, <1>1, <1>2, <1>3, ThreadsFacts DEF IInv, TeamInv, Engaged, Inside, InBarrier
  <2>2. \A u \in Workers : last_graph[u] = 0 /\ new_graph[u] = 0 /\ pc'[u] = pc[u]
                           /\ pc[u] # "pollActive"
    <3>1. \A u \in Workers : last_graph[u] \in Nat /\ new_graph[u] \in Nat
      BY ThreadsFacts, ShapeAssumption DEF IInv, TypeOK
    <3> QED BY <3>1, <1>0, <1>1, <1>6, ThreadsFacts DEF IInv, TeamInv
  <2>3. TeamInv'
    BY <2>1, <2>2, <1>1, <1>2, <1>3, <1>6, ThreadsFacts DEF TeamInv
  <2>4. RoundInv' /\ StageInv' /\ FlowInv'
    BY <2>1, ThreadsFacts DEF RoundInv, StageInv, FlowInv, Inside, InBarrier
  <2>5. Present' = Present
    BY <2>1 DEF Present, Met, Inside, InBarrier
  <2>6. CountInv'
    <3>1. \A u \in Threads : pc[u] # "barrierRelease" /\ pc'[u] # "barrierRelease"
      BY <2>1 DEF Inside, InBarrier
    <3> QED BY <3>1, <2>5, <1>2 DEF IInv, CountInv
  <2> QED BY <2>3, <2>4, <2>6 DEF IInv
<1> QED BY <1>0, <1>5, <1>6

(* A new graph: no worker of the team has seen it. *)
LEMMA KickoffGraphStep ==
    ASSUME IInv, TypeOK', KickoffGraph
    PROVE  IInv'
<1>0. pc \in [Threads -> Labels] /\ 0 \in Threads /\ n_graph \in Nat
      /\ n_threads_cur \in Nat
  BY ThreadsFacts, ShapeAssumption, SizeAssumption DEF IInv, TypeOK
<1>1. /\ UNCHANGED <<n_threads_cur, stop, state, bar, work, after>>
      /\ n_graph' = n_graph + 1 /\ pc[0] = "kickoff2" /\ pc'[0] = "start"
      /\ \A u \in Workers : \/ pc'[u] = pc[u]
                            \/ pc[u] \in {"asleep", "pauseAsleep"} /\ pc'[u] \in {"lock", "top"}
  BY <1>0, BroadcastView, ThreadsFacts DEF KickoffGraph
<1>2. /\ n_threads_cur' = n_threads_cur /\ last_graph' = last_graph
      /\ new_graph' = new_graph /\ nth' = nth /\ node_n' = node_n /\ after' = after
      /\ n_passed' = n_passed /\ abort' = abort
      /\ n_barrier' = n_barrier /\ n_barrier_passed' = n_barrier_passed
  BY <1>1 DEF state, bar, work
<1>3. /\ ~Engaged(0) /\ ~Inside(0) /\ Engaged(0)' /\ Inside(0)' /\ Stage(0)' = 0
      /\ ~Met(0) /\ ~Met(0)' /\ Flow(0)'
  BY <1>1 DEF Engaged, Inside, InBarrier, Finished, Behind, Stage, Met, Flow, InNode, AtEnd
<1>4. \A u \in Workers :
          /\ ~Engaged(u) /\ ~Engaged(u)' /\ (Inside(u)' <=> Inside(u))
          /\ ~Met(u) /\ ~Met(u)'
          /\ pc'[u] \notin {"barrierAdd", "barrierReset", "barrierRelease"}
          /\ pc[u] # "barrierRelease"
  <2> SUFFICES ASSUME NEW u \in Workers
               PROVE  /\ ~Engaged(u) /\ ~Engaged(u)' /\ (Inside(u)' <=> Inside(u))
                      /\ ~Met(u) /\ ~Met(u)'
                      /\ pc'[u] \notin {"barrierAdd", "barrierReset", "barrierRelease"}
                      /\ pc[u] # "barrierRelease"
    OBVIOUS
  <2>1. ~Engaged(u) /\ u \in Threads
    BY <1>3, Together, ThreadsFacts
  <2>2. ~Met(u) /\ pc[u] \notin {"barrierAdd", "barrierReset", "barrierRelease"}
    BY <2>1, NotMet
  <2>3. (Inside(u)' <=> Inside(u)) /\ ~Met(u)' /\ (Finished(u)' <=> Finished(u))
    BY <1>1, <1>2, <2>1, <2>2 DEF Inside, InBarrier, Met, Finished, Behind
  <2> QED BY <2>1, <2>2, <2>3, <1>1 DEF Engaged
<1>5. TeamInv'
  <2>1. \A u \in Workers : last_graph[u] \in Nat /\ new_graph[u] \in Nat
    BY ThreadsFacts, ShapeAssumption DEF IInv, TypeOK
  <2>2. \A u \in Workers :
          /\ pc'[u] = "pollActive" => pc[u] = "pollActive" /\ ~(u < n_threads_cur)
          /\ u < n_threads_cur => last_graph[u] # n_graph + 1
    BY <1>0, <1>1, <1>3, <2>1 DEF IInv, TeamInv
  <2> QED BY <2>1, <2>2, <1>0, <1>1, <1>2, <1>3, <1>4, ThreadsFacts DEF IInv, TeamInv
<1>6. RoundInv'
  BY <1>1, <1>4, ThreadsFacts DEF RoundInv
<1>7. Present' = Present
  BY <1>3, <1>4, ThreadsFacts DEF Present
<1>8. CountInv'
  BY <1>1, <1>2, <1>4, <1>7, ThreadsFacts DEF IInv, CountInv
<1>9. StageInv'
  BY <1>3, <1>4 DEF StageInv
<1>10. FlowInv'
  BY <1>3, <1>4, ThreadsFacts DEF FlowInv
<1> QED BY <1>5, <1>6, <1>8, <1>9, <1>10 DEF IInv

-----------------------------------------------------------------------------
(***************************************************************************)
(* Steps in the barrier.                                                   *)
(***************************************************************************)

(* The only thread of a graph does not wait in the final barrier. *)
LEMMA SoloEndStep ==
    ASSUME IInv, TypeOK', NEW t \in Threads, Loop(t), n_threads_cur = 1, Stops(t)
    PROVE  IInv'
<1>0. /\ pc \in [Threads -> Labels] /\ after \in [Threads -> {"chunks", "next", "end"}]
      /\ NNodes \in Nat /\ node_n[t] \in 0 .. NNodes
  BY ShapeAssumption DEF IInv, TypeOK
<1>1. /\ UNCHANGED <<pool, state, bar>> /\ abort' = abort /\ node_n' = node_n /\ nth' = nth
      /\ pc[t] = "loop" /\ pc'[t] = "end"
      /\ \A u \in Threads \ {t} : Same(u)
  BY <1>0 DEF Loop, Goto, B!CallBarrier, B!Goto, Same, bar, work
<1>2. t = 0 /\ nth[t] = n_threads_cur
  BY <1>1, EngagedAt, ThreadsFacts DEF Flow
<1>3. /\ n_graph' = n_graph /\ n_threads_cur' = 1 /\ last_graph' = last_graph
      /\ new_graph' = new_graph /\ n_barrier' = n_barrier
      /\ n_barrier_passed' = n_barrier_passed /\ n_passed' = n_passed
  BY <1>1 DEF pool, state, bar
<1>4. \A u \in Workers : Same(u) /\ ~Inside(u) /\ ~Inside(u)'
  <2>1. \A u \in Workers : u \in Threads /\ u # t /\ ~(u < n_threads_cur)
    BY <1>2, ThreadsFacts
  <2>2. \A u \in Workers : ~Inside(u)
    BY <2>1 DEF IInv, TeamInv
  <2> QED BY <2>1, <2>2, <1>1, <1>3, SameView
<1>5. ~Met(t) /\ ~Met(t)' /\ Inside(t) /\ Inside(t)'
  BY <1>1 DEF Met, Inside
<1>6. TeamInv'
  <2>1. \A u \in Workers : ~(u < n_threads_cur)
    BY ThreadsFacts
  <2> QED BY <2>1, <1>1, <1>2, <1>3, <1>4, <1>5, ThreadsFacts DEF IInv, TeamInv, Same
<1>7. RoundInv' /\ StageInv'
  BY <1>1, <1>2, <1>3, <1>4, ThreadsFacts DEF RoundInv, StageInv, Inside, InBarrier
<1>8. Present' = Present
  BY <1>2, <1>4, <1>5, ThreadsFacts DEF Present, Met, Inside, InBarrier
<1>9. CountInv'
  <2>1. \A u \in Threads : pc[u] # "barrierRelease" /\ pc'[u] # "barrierRelease"
    BY <1>1, <1>2, <1>4, ThreadsFacts DEF Inside, InBarrier
  <2> QED BY <2>1, <1>3, <1>8 DEF IInv, CountInv
<1>10. Flow(t)'
  BY <1>0, <1>1, <1>2 DEF Flow, InNode, AtEnd, InBarrier, Stops, pool
<1>11. FlowInv'
  BY <1>1, <1>3, <1>10, FlowOthers DEF pool
<1> QED BY <1>6, <1>7, <1>9, <1>11 DEF IInv

(* The threads that meet in a round are in the same place. *)
LEMMA MeetInPlace ==
    ASSUME IInv, NEW t \in Threads, NEW u \in Threads, Engaged(t), Engaged(u),
           InBarrier(t), InBarrier(u), ~Behind(t), ~Behind(u)
    PROVE  after[t] = after[u] /\ node_n[t] = node_n[u]
<1>0. /\ node_n \in [Threads -> 0 .. NNodes] /\ NNodes \in Nat
      /\ after \in [Threads -> {"chunks", "next", "end"}]
  BY ShapeAssumption DEF IInv, TypeOK
<1>1. Stage(t) = Stage(u) /\ Flow(t) /\ Flow(u)
  BY Together DEF IInv, FlowInv
<1>2. ASSUME NEW v \in Threads, InBarrier(v), ~Behind(v)
      PROVE  Stage(v) = CASE after[v] = "chunks" -> 2 * node_n[v]
                          [] after[v] = "next"   -> 2 * node_n[v] + 1
                          [] OTHER               -> LoopStage(node_n[v])
  BY <1>0, <1>2 DEF Stage, InBarrier, LoopStage
<1>3. ASSUME NEW v \in Threads, InBarrier(v), Flow(v)
      PROVE  /\ after[v] = "chunks" => node_n[v] < NNodes /\ abort # node_n[v]
             /\ after[v] = "next" => node_n[v] + 1 < NNodes
             /\ after[v] = "end" => node_n[v] = NNodes \/ abort = node_n[v]
  BY <1>3 DEF Flow, InNode, AtEnd
<1>4. \/ after[t] = "chunks" \/ after[t] = "next" \/ after[t] = "end"
  BY <1>0
<1>5. \/ after[u] = "chunks" \/ after[u] = "next" \/ after[u] = "end"
  BY <1>0
<1> QED BY <1>0, <1>1, <1>2, <1>3, <1>4, <1>5 DEF LoopStage

(* Reading the round's number and arriving change nothing but the place in *)
(* the barrier; the last to arrive finds the rest of the team waiting.     *)
LEMMA ReadStep ==
    ASSUME IInv, TypeOK', NEW t \in Threads, B!BarrierRead(t),
           UNCHANGED <<n_graph, stop, pause, state, work>>
    PROVE  IInv'
<1>0. pc \in [Threads -> Labels] /\ n_passed \in [Threads -> Nat]
  BY DEF IInv, TypeOK
<1>1. /\ pc[t] = "barrier" /\ pc'[t] = "barrierAdd" /\ n_passed'[t] = n_barrier_passed
      /\ n_threads_cur' = n_threads_cur /\ n_barrier' = n_barrier
      /\ n_barrier_passed' = n_barrier_passed /\ after' = after
      /\ n_graph' = n_graph /\ last_graph' = last_graph /\ new_graph' = new_graph
      /\ nth' = nth /\ node_n' = node_n /\ abort' = abort
      /\ \A u \in Threads \ {t} : Same(u)
  BY <1>0 DEF B!BarrierRead, B!Goto, B!shared, Same, state, work
<1>2. /\ Engaged(t) /\ Engaged(t)' /\ ~Met(t) /\ ~Met(t)' /\ Inside(t) /\ Inside(t)'
      /\ Stage(t)' = Stage(t) /\ InNode(t)' = InNode(t) /\ AtEnd(t)' = AtEnd(t)
      /\ InBarrier(t) /\ InBarrier(t)'
  BY <1>1 DEF Engaged, Inside, InBarrier, Finished, Behind, Met, Stage, InNode, AtEnd
<1>3. \A u \in Threads \ {t} :
          /\ Same(u) /\ Inside(u)' = Inside(u) /\ Engaged(u)' = Engaged(u)
          /\ Stage(u)' = Stage(u) /\ Met(u)' = Met(u)
  BY <1>1, SameView
<1>4. TeamInv'
  BY <1>1, <1>2, <1>3, ThreadsFacts DEF IInv, TeamInv, Same
<1>5. \A u \in Threads : pc[u] \notin {"barrierReset", "barrierRelease"}
  BY <1>1, EngagedAt DEF IInv, RoundInv, Gathered
<1>6. RoundInv'
  BY <1>1, <1>3, <1>5 DEF IInv, RoundInv, Same
<1>7. Present' = Present
  BY <1>2, <1>3 DEF Present
<1>8. CountInv'
  BY <1>1, <1>3, <1>5, <1>7 DEF IInv, CountInv, Same
<1>9. StageInv'
  BY <1>1, <1>2, <1>3, ThreadsFacts DEF IInv, StageInv
<1>10. Flow(t)'
  BY <1>1, <1>2, EngagedAt DEF Flow
<1>11. FlowInv'
  BY <1>1, <1>10, FlowOthers
<1> QED BY <1>4, <1>6, <1>8, <1>9, <1>11 DEF IInv

(* Who is in the team can be counted. *)
LEMMA TeamSize ==
    ASSUME IInv
    PROVE  LET Team == 0 .. n_threads_cur - 1
           IN  /\ IsFiniteSet(Team) /\ Cardinality(Team) = n_threads_cur
               /\ IsFiniteSet(Present) /\ Present \subseteq Team
               /\ Cardinality(Present) \in Nat /\ n_threads_cur \in Nat \ {0}
               /\ \A u \in Threads : u < n_threads_cur <=> u \in Team
               /\ Team \subseteq Threads
<1> DEFINE Team == 0 .. n_threads_cur - 1
<1>1. n_threads_cur \in 1 .. MaxThreads /\ MaxThreads \in Nat
  BY SizeAssumption DEF IInv, TypeOK
<1>2. IsFiniteSet(Team) /\ Cardinality(Team) = n_threads_cur
  BY <1>1, FS_Interval
<1>3. \A u \in Threads : u < n_threads_cur <=> u \in Team
  BY <1>1 DEF Threads
<1>4. Team \subseteq Threads
  BY <1>1 DEF Threads
<1>5. Present \subseteq Team
  BY <1>3, Together DEF Present, Met, Inside, InBarrier
<1>6. IsFiniteSet(Present) /\ Cardinality(Present) \in Nat
  BY <1>2, <1>5, FS_Subset, FS_CardinalityType
<1> QED BY <1>1, <1>2, <1>3, <1>4, <1>5, <1>6

LEMMA AddStep ==
    ASSUME IInv, TypeOK', NEW t \in Threads, B!BarrierAdd(t),
           UNCHANGED <<n_graph, stop, pause, state, work>>
    PROVE  IInv'
<1> DEFINE Team == 0 .. n_threads_cur - 1
<1>0. pc \in [Threads -> Labels] /\ n_barrier \in Nat /\ n_passed[t] = n_barrier_passed
  BY SizeAssumption DEF IInv, TypeOK, RoundInv, B!BarrierAdd
<1>1. /\ pc[t] = "barrierAdd" /\ n_barrier' = n_barrier + 1
      /\ pc'[t] = IF n_barrier = n_threads_cur - 1 THEN "barrierReset" ELSE "barrierWait"
      /\ n_threads_cur' = n_threads_cur /\ n_passed' = n_passed
      /\ n_barrier_passed' = n_barrier_passed /\ after' = after
      /\ n_graph' = n_graph /\ last_graph' = last_graph /\ new_graph' = new_graph
      /\ nth' = nth /\ node_n' = node_n /\ abort' = abort
      /\ \A u \in Threads \ {t} : Same(u)
  BY <1>0 DEF B!BarrierAdd, B!IsLast, B!Goto, Same, state, work
<1>2. /\ Engaged(t) /\ Engaged(t)' /\ ~Met(t) /\ Met(t)' /\ Inside(t) /\ Inside(t)'
      /\ Stage(t)' = Stage(t) /\ InNode(t)' = InNode(t) /\ AtEnd(t)' = AtEnd(t)
      /\ InBarrier(t) /\ InBarrier(t)'
  BY <1>0, <1>1 DEF Engaged, Inside, InBarrier, Finished, Behind, Met, Stage, InNode, AtEnd
<1>3. \A u \in Threads \ {t} :
          /\ Same(u) /\ Inside(u)' = Inside(u) /\ Engaged(u)' = Engaged(u)
          /\ Stage(u)' = Stage(u) /\ Met(u)' = Met(u)
  BY <1>1, SameView
<1>4. TeamInv'
  BY <1>1, <1>2, <1>3, ThreadsFacts DEF IInv, TeamInv, Same
<1>5. \A u \in Threads : pc[u] \notin {"barrierReset", "barrierRelease"}
  BY <1>1, EngagedAt DEF IInv, RoundInv, Gathered
<1>6. /\ IsFiniteSet(Team) /\ Cardinality(Team) = n_threads_cur /\ t \in Team
      /\ IsFiniteSet(Present) /\ Present \subseteq Team \ {t} /\ n_threads_cur \in Nat \ {0}
      /\ n_barrier = Cardinality(Present)
      /\ \A u \in Threads : u < n_threads_cur <=> u \in Team
  <2>1. t < n_threads_cur
    BY <1>1, EngagedAt
  <2>2. n_barrier = Cardinality(Present)
    BY <1>5 DEF IInv, CountInv
  <2> QED BY <2>1, <2>2, <1>2, TeamSize DEF Present
<1>7. Present' = Present \cup {t}
  BY <1>2, <1>3 DEF Present
<1>8. Cardinality(Present') = n_barrier + 1
  BY <1>6, <1>7, FS_AddElement
<1>9. CountInv'
  BY <1>1, <1>3, <1>5, <1>8 DEF CountInv, Same
<1>10. RoundInv'
  <2>1. CASE n_barrier = n_threads_cur - 1
    <3>1. IsFiniteSet(Team \ {t}) /\ Cardinality(Team \ {t}) = n_threads_cur - 1
      BY <1>6, FS_RemoveElement
    <3>2. Present = Team \ {t}
      BY <2>1, <3>1, <1>6, FS_Subset
    <3>3. \A u \in Threads : u < n_threads_cur /\ u # t => Met(u)
      BY <3>2, <1>6 DEF Present
    <3>4. Gathered(t)'
      BY <3>3, <1>1, <1>5 DEF Met, Gathered, Same
    <3> QED BY <3>4, <1>1, <1>3, <1>5 DEF IInv, RoundInv, Same
  <2>2. CASE n_barrier # n_threads_cur - 1
    BY <2>2, <1>1, <1>3, <1>5 DEF IInv, RoundInv, Same
  <2> QED BY <2>1, <2>2
<1>11. StageInv'
  BY <1>1, <1>2, <1>3, ThreadsFacts DEF IInv, StageInv
<1>12. Flow(t)'
  BY <1>1, <1>2, EngagedAt DEF Flow
<1>13. FlowInv'
  BY <1>1, <1>12, FlowOthers
<1> QED BY <1>4, <1>9, <1>10, <1>11, <1>13 DEF IInv

LEMMA ResetStep ==
    ASSUME IInv, TypeOK', NEW t \in Threads, B!BarrierReset(t),
           UNCHANGED <<n_graph, stop, pause, state, work>>
    PROVE  IInv'
<1>0. pc \in [Threads -> Labels]
  BY DEF IInv, TypeOK
<1>1. /\ pc[t] = "barrierReset" /\ n_barrier' = 0 /\ pc'[t] = "barrierRelease"
      /\ n_threads_cur' = n_threads_cur /\ n_passed' = n_passed
      /\ n_barrier_passed' = n_barrier_passed /\ after' = after
      /\ n_graph' = n_graph /\ last_graph' = last_graph /\ new_graph' = new_graph
      /\ nth' = nth /\ node_n' = node_n /\ abort' = abort
      /\ \A u \in Threads \ {t} : Same(u)
  BY <1>0 DEF B!BarrierReset, B!Goto, Same, state, work
<1>2. /\ Engaged(t) /\ Engaged(t)' /\ Inside(t) /\ Inside(t)'
      /\ Stage(t)' = Stage(t) /\ InNode(t)' = InNode(t) /\ AtEnd(t)' = AtEnd(t)
      /\ InBarrier(t) /\ InBarrier(t)'
  BY <1>1 DEF Engaged, Inside, InBarrier, Finished, Behind, Stage, InNode, AtEnd
<1>3. \A u \in Threads \ {t} :
          /\ Same(u) /\ Inside(u)' = Inside(u) /\ Engaged(u)' = Engaged(u)
          /\ Stage(u)' = Stage(u)
  BY <1>1, SameView
<1>4. TeamInv'
  BY <1>1, <1>2, <1>3, ThreadsFacts DEF IInv, TeamInv, Same
<1>5. \A u \in Threads \ {t} : pc[u] \notin {"barrierAdd", "barrierReset", "barrierRelease"}
  <2> SUFFICES ASSUME NEW u \in Threads, u # t
               PROVE  pc[u] \notin {"barrierAdd", "barrierReset", "barrierRelease"}
    OBVIOUS
  <2>1. u < n_threads_cur => pc[u] = "barrierWait"
    BY <1>1 DEF IInv, RoundInv, Gathered
  <2> QED BY <2>1, EngagedAt
<1>6. RoundInv'
  <2>1. Gathered(t)'
    BY <1>1 DEF IInv, RoundInv, Gathered, Same
  <2> QED BY <2>1, <1>1, <1>3, <1>5 DEF RoundInv, Same
<1>7. CountInv'
  BY <1>1 DEF CountInv
<1>8. StageInv'
  BY <1>1, <1>2, <1>3, ThreadsFacts DEF IInv, StageInv
<1>9. Flow(t)'
  BY <1>1, <1>2, EngagedAt DEF Flow
<1>10. FlowInv'
  BY <1>1, <1>9, FlowOthers
<1> QED BY <1>4, <1>6, <1>7, <1>8, <1>10 DEF IInv

(* A thread that leaves a round which has ended counted as past it. *)
LEMMA WaitStep ==
    ASSUME IInv, TypeOK', NEW t \in Threads, B!BarrierWait(t),
           UNCHANGED <<n_graph, stop, pause, state, work>>
    PROVE  IInv'
<1>0. /\ pc \in [Threads -> Labels] /\ NNodes \in Nat /\ node_n[t] \in 0 .. NNodes
      /\ after[t] \in {"chunks", "next", "end"}
  BY ShapeAssumption DEF IInv, TypeOK
<1>1. /\ pc[t] = "barrierWait" /\ n_passed[t] # n_barrier_passed /\ pc'[t] = after[t]
      /\ n_threads_cur' = n_threads_cur /\ n_passed' = n_passed /\ n_barrier' = n_barrier
      /\ n_barrier_passed' = n_barrier_passed /\ after' = after
      /\ n_graph' = n_graph /\ last_graph' = last_graph /\ new_graph' = new_graph
      /\ nth' = nth /\ node_n' = node_n /\ abort' = abort
      /\ \A u \in Threads \ {t} : Same(u)
  BY <1>0 DEF B!BarrierWait, B!Goto, B!shared, Same, state, work
<1>2. /\ Inside(t) /\ Inside(t)' /\ ~Met(t) /\ ~Met(t)' /\ (Engaged(t)' <=> Engaged(t))
      /\ t < n_threads_cur
  <2>1. /\ Inside(t) /\ Inside(t)' /\ ~Met(t) /\ ~Met(t)' /\ (Engaged(t)' <=> Engaged(t))
    BY <1>0, <1>1 DEF Engaged, Inside, InBarrier, Finished, Behind, Met
  <2> QED BY <2>1, Together
<1>3. Engaged(t) => Stage(t)' = Stage(t) /\ Flow(t)
  <2>1. Engaged(t) => Flow(t)
    BY DEF IInv, FlowInv
  <2> QED BY <2>1, <1>0, <1>1 DEF Stage, LoopStage, Flow, InBarrier, Engaged, Finished, Behind
<1>4. \A u \in Threads \ {t} :
          /\ Same(u) /\ Inside(u)' = Inside(u) /\ Engaged(u)' = Engaged(u)
          /\ Stage(u)' = Stage(u) /\ Met(u)' = Met(u)
  BY <1>1, SameView
<1>5. TeamInv'
  <2>1. t = 0 => pc'[0] \notin {"kickoff", "kickoff2"}
    BY <1>0, <1>1
  <2>2. pc'[t] # "pollActive"
    BY <1>0, <1>1
  <2> QED BY <2>1, <2>2, <1>1, <1>2, <1>4, ThreadsFacts DEF IInv, TeamInv, Same
<1>6. \A u \in Threads : pc[u] \notin {"barrierReset", "barrierRelease"}
  BY <1>1, <1>2 DEF IInv, RoundInv, Gathered
<1>7. pc'[t] \notin {"barrierAdd", "barrierReset", "barrierRelease"}
  BY <1>0, <1>1
<1>8. RoundInv'
  BY <1>1, <1>4, <1>6, <1>7 DEF IInv, RoundInv, Same
<1>9. Present' = Present
  BY <1>2, <1>4 DEF Present
<1>10. CountInv'
  BY <1>1, <1>4, <1>6, <1>7, <1>9 DEF IInv, CountInv, Same
<1>11. StageInv'
  BY <1>1, <1>2, <1>3, <1>4, ThreadsFacts DEF IInv, StageInv
<1>12. Engaged(t)' \/ (t = 0 /\ Inside(t)') => Flow(t)'
  <2>1. Engaged(t)' \/ (t = 0 /\ Inside(t)') => Flow(t)
    BY <1>2 DEF IInv, FlowInv
  <2> QED BY <2>1, <1>0, <1>1 DEF Flow, InNode, AtEnd, InBarrier
<1>13. FlowInv'
  BY <1>1, <1>12, FlowOthers
<1> QED BY <1>5, <1>8, <1>10, <1>11, <1>13 DEF IInv

(* The round ends for the whole team at once. *)
LEMMA ReleaseView ==
    ASSUME IInv, NEW t \in Threads, B!BarrierRelease(t),
           UNCHANGED <<n_graph, stop, pause, state, work>>
    PROVE  /\ pc[t] = "barrierRelease" /\ pc'[t] = after[t] /\ Engaged(t) /\ t < n_threads_cur
           /\ n_barrier' = n_barrier /\ n_barrier = 0 /\ n_threads_cur' = n_threads_cur
           /\ n_barrier_passed' = n_barrier_passed + 1 /\ n_barrier_passed' # n_barrier_passed
           /\ n_passed' = n_passed /\ after' = after
           /\ n_graph' = n_graph /\ last_graph' = last_graph /\ new_graph' = new_graph
           /\ nth' = nth /\ node_n' = node_n /\ abort' = abort
           /\ \A u \in Threads \ {t} :
                 /\ pc'[u] = pc[u] /\ (Inside(u)' <=> Inside(u))
                 /\ ~(u < n_threads_cur) => ~Inside(u)
                 /\ u < n_threads_cur => /\ pc[u] = "barrierWait" /\ n_passed[u] = n_barrier_passed
                                         /\ Engaged(u) /\ Behind(u)' /\ ~Behind(u)
                                         /\ after[u] = after[t] /\ node_n[u] = node_n[t]
<1>0. /\ pc \in [Threads -> Labels] /\ n_barrier_passed \in Nat
  BY DEF IInv, TypeOK
<1>1. /\ pc[t] = "barrierRelease" /\ pc'[t] = after[t]
      /\ n_barrier' = n_barrier /\ n_threads_cur' = n_threads_cur
      /\ n_barrier_passed' = n_barrier_passed + 1 /\ n_barrier_passed' # n_barrier_passed
      /\ n_passed' = n_passed /\ after' = after
      /\ n_graph' = n_graph /\ last_graph' = last_graph /\ new_graph' = new_graph
      /\ nth' = nth /\ node_n' = node_n /\ abort' = abort
      /\ \A u \in Threads \ {t} : pc'[u] = pc[u]
  BY <1>0 DEF B!BarrierRelease, B!Goto, state, work
<1>2. Engaged(t) /\ t < n_threads_cur /\ InBarrier(t) /\ ~Behind(t) /\ n_barrier = 0
  BY <1>1, EngagedAt DEF IInv, CountInv, InBarrier, Behind
<1>3. ASSUME NEW u \in Threads \ {t}
      PROVE  /\ Inside(u)' <=> Inside(u)
             /\ ~(u < n_threads_cur) => ~Inside(u)
             /\ u < n_threads_cur => /\ pc[u] = "barrierWait" /\ n_passed[u] = n_barrier_passed
                                     /\ Engaged(u) /\ Behind(u)' /\ ~Behind(u)
                                     /\ after[u] = after[t] /\ node_n[u] = node_n[t]
  <2>1. Inside(u)' <=> Inside(u)
    BY <1>1 DEF Inside, InBarrier
  <2>2. ~(u < n_threads_cur) => ~Inside(u)
    BY Together
  <2>3. CASE u < n_threads_cur
    <3>1. pc[u] = "barrierWait" /\ n_passed[u] = n_barrier_passed
      BY <2>3, <1>1 DEF IInv, RoundInv, Gathered
    <3>2. Engaged(u) /\ ~Behind(u) /\ InBarrier(u) /\ Behind(u)'
      BY <3>1, <1>1 DEF Engaged, Inside, InBarrier, Finished, Behind
    <3> QED BY <2>1, <2>3, <3>1, <3>2, <1>2, MeetInPlace
  <2> QED BY <2>1, <2>2, <2>3
<1> QED BY <1>1, <1>2, <1>3

LEMMA ReleaseStep ==
    ASSUME IInv, TypeOK', NEW t \in Threads, B!BarrierRelease(t),
           UNCHANGED <<n_graph, stop, pause, state, work>>
    PROVE  IInv'
<1>0. /\ NNodes \in Nat /\ node_n \in [Threads -> 0 .. NNodes]
      /\ after[t] \in {"chunks", "next", "end"}
  BY ShapeAssumption DEF IInv, TypeOK
<1> DEFINE Rest == {u \in Threads \ {t} : u < n_threads_cur}
<1>1. /\ pc[t] = "barrierRelease" /\ pc'[t] = after[t] /\ Engaged(t) /\ t < n_threads_cur
      /\ n_barrier' = 0 /\ n_threads_cur' = n_threads_cur
      /\ n_barrier_passed' = n_barrier_passed + 1 /\ n_barrier_passed' # n_barrier_passed
      /\ n_passed' = n_passed /\ after' = after
      /\ n_graph' = n_graph /\ last_graph' = last_graph /\ new_graph' = new_graph
      /\ nth' = nth /\ node_n' = node_n /\ abort' = abort
  BY ReleaseView
<1>2. \A u \in Threads \ {t} : pc'[u] = pc[u] /\ (Inside(u)' <=> Inside(u))
                               /\ (u \notin Rest => ~Inside(u))
  BY ReleaseView
<1>3. \A u \in Rest : /\ pc[u] = "barrierWait" /\ n_passed[u] = n_barrier_passed
                      /\ Engaged(u) /\ Behind(u)' /\ ~Behind(u)
                      /\ after[u] = after[t] /\ node_n[u] = node_n[t]
  BY ReleaseView
<1>4. Inside(t) /\ Inside(t)' /\ Flow(t)
  BY <1>0, <1>1, EngagedAt DEF Engaged, Inside
<1>5. RoundInv'
  BY <1>0, <1>1, <1>2, <1>3 DEF RoundInv, Inside, InBarrier
<1>6. Present' = {} /\ \A u \in Threads : pc'[u] # "barrierRelease"
  BY <1>0, <1>1, <1>2, <1>3 DEF Present, Met, Behind, Inside, InBarrier
<1>7. CountInv'
  BY <1>1, <1>6, FS_EmptySet DEF CountInv
<1>8. \A u \in Threads : u = t \/ u \in Rest => Flow(u)'
  <2>1. Flow(t)'
    BY <1>0, <1>1, <1>4 DEF Flow, InNode, AtEnd, InBarrier
  <2>2. ASSUME NEW u \in Rest PROVE Flow(u)'
    <3>1. Flow(u)
      BY <1>3, EngagedAt DEF IInv, FlowInv
    <3> QED BY <3>1, <2>2, <1>1, <1>2, <1>3 DEF Flow, InNode, AtEnd, InBarrier
  <2> QED BY <2>1, <2>2
<1>9. FlowInv'
  BY <1>2, <1>8 DEF FlowInv, Engaged
<1>10. /\ 0 = t \/ 0 \in Rest
       /\ \A u \in Workers : u < n_threads_cur => (u = t \/ u \in Rest) /\ last_graph[u] = n_graph
       /\ Engaged(0)
  <2>1. 0 < n_threads_cur
    BY <1>1, ThreadsFacts, TeamSize
  <2>2. (0 = t \/ 0 \in Rest) /\ Engaged(0)
    BY <2>1, <1>1, <1>3, ThreadsFacts
  <2> QED BY <2>2, <1>1, <1>3, ThreadsFacts DEF IInv, TeamInv
<1>11. \A u \in Threads : pc'[u] = "pollActive" => pc[u] = "pollActive"
  BY <1>0, <1>1, <1>2
<1>12. CASE after[t] = "end"
  <2>1. \A u \in Threads : ~Engaged(u)'
    BY <1>12, <1>1, <1>2, <1>3 DEF Engaged, Finished
  <2>2. TeamInv'
    BY <2>1, <1>1, <1>2, <1>4, <1>10, <1>11, <1>12, ThreadsFacts DEF IInv, TeamInv
  <2>3. StageInv'
    BY <2>1, ThreadsFacts DEF StageInv
  <2> QED BY <2>2, <2>3, <1>5, <1>7, <1>9 DEF IInv
<1>13. CASE after[t] # "end"
  <2>1. Engaged(t)' /\ \A u \in Rest : Engaged(u)'
    BY <1>13, <1>0, <1>1, <1>2, <1>3, <1>4 DEF Engaged, Finished, Inside, InBarrier, Behind
  <2>2. TeamInv'
    <3>1. pc'[0] \notin {"kickoff", "kickoff2"} /\ Engaged(0)'
      BY <2>1, <1>0, <1>1, <1>2, <1>3, <1>10, ThreadsFacts
    <3> QED BY <2>1, <3>1, <1>1, <1>2, <1>4, <1>10, <1>11, ThreadsFacts DEF IInv, TeamInv
  <2>3. \A u \in Threads : u = t \/ u \in Rest => Stage(u)' = Stage(t)'
    <3>1. node_n[t] + 1 < NNodes \/ after[t] = "chunks"
      BY <1>0, <1>1, <1>4, <1>13 DEF Flow, InBarrier
    <3>2. Stage(t)' = IF after[t] = "chunks" THEN 2 * node_n[t] + 1 ELSE 2 * node_n[t] + 2
      BY <3>1, <1>0, <1>1, <1>13 DEF Stage, LoopStage
    <3>3. ASSUME NEW u \in Rest
          PROVE  Stage(u)' = IF after[t] = "chunks" THEN 2 * node_n[t] + 1 ELSE 2 * node_n[t] + 2
      <4>1. /\ pc'[u] = "barrierWait" /\ Behind(u)' /\ after'[u] = after[t]
            /\ node_n'[u] = node_n[t]
        BY <1>1, <1>2, <1>3
      <4> QED BY <4>1, <1>0, <1>13 DEF Stage
    <3> QED BY <3>2, <3>3
  <2>4. StageInv'
    BY <2>1, <2>3, <1>1, <1>10, ThreadsFacts DEF StageInv
  <2> QED BY <2>2, <2>4, <1>5, <1>7, <1>9 DEF IInv
<1> QED BY <1>12, <1>13

-----------------------------------------------------------------------------
LEMMA InitIInv == Init => IInv
<1> SUFFICES ASSUME Init PROVE IInv
  OBVIOUS
<1>1. /\ MaxThreads \in Nat \ {0} /\ NNodes \in Nat /\ MaxGraphs \in Nat
      /\ pc = [t \in Threads |-> IF t = 0 THEN "idle" ELSE "top"] /\ pause \in BOOLEAN
  BY SizeAssumption, ShapeAssumption DEF Init
<1>2. TypeOK
  <2>1. /\ n_graph \in 0 .. MaxGraphs /\ n_barrier \in 0 .. MaxThreads /\ n_barrier_passed \in Nat
        /\ current_chunk \in Nat /\ abort \in -1 .. NNodes /\ n_threads_cur \in 1 .. MaxThreads
    BY <1>1 DEF Init
  <2>2. /\ pc \in [Threads -> Labels] /\ after \in [Threads -> {"chunks", "next", "end"}]
        /\ stop \in BOOLEAN /\ ec \in {"success", "aborted"}
    BY <1>1 DEF Init, Labels
  <2>3. /\ last_graph \in [Threads -> 0 .. MaxGraphs] /\ new_graph \in [Threads -> 0 .. MaxGraphs]
        /\ nth \in [Threads -> 0 .. MaxThreads] /\ node_n \in [Threads -> 0 .. NNodes]
        /\ chunk \in [Threads -> Nat] /\ n_passed \in [Threads -> Nat]
    BY <1>1 DEF Init
  <2>4. done \in [Nodes -> [Chunks -> Nat]]
    BY DEF Init
  <2> QED BY <1>1, <2>1, <2>2, <2>3, <2>4 DEF TypeOK
<1>3. \A t \in Threads : ~Inside(t) /\ ~Engaged(t) /\ ~Met(t) /\ pc[t] # "pollActive"
  BY <1>1 DEF Inside, InBarrier, Engaged, Met
<1>4. pc[0] = "idle" /\ 0 \in Threads
  BY <1>1, ThreadsFacts
<1>5. TeamInv
  BY <1>3, <1>4, ThreadsFacts DEF Init, TeamInv
<1>6. RoundInv /\ StageInv /\ FlowInv
  BY <1>1, <1>3, ThreadsFacts DEF RoundInv, StageInv, FlowInv
<1>7. Present = {}
  BY <1>3 DEF Present
<1>8. CountInv
  BY <1>1, <1>7, FS_EmptySet DEF Init, CountInv
<1> QED BY <1>2, <1>5, <1>6, <1>8 DEF IInv

(* The fields and locals keep their types.  The counter of the barrier     *)
(* counts threads of the team; a node is begun only if there is one.       *)
LEMMA TypeStep == IInv /\ [Next]_vars => TypeOK'
<1> SUFFICES ASSUME IInv, [Next]_vars PROVE TypeOK'
  OBVIOUS
<1>0. /\ MaxThreads \in Nat \ {0} /\ NNodes \in Nat /\ MaxGraphs \in Nat /\ RawChunks \in Nat
      /\ TypeOK /\ Sizes \subseteq (Nat \ {0}) /\ 0 \in Threads
  BY SizeAssumption, ShapeAssumption, ThreadsFacts DEF IInv
<1>1. CASE UNCHANGED vars
  BY <1>0, <1>1 DEF TypeOK, vars, pool, state, bar, work
<1>2. CASE GraphCompute
  BY <1>0, <1>2 DEF TypeOK, GraphCompute, Goto, pool, state, bar, Labels
<1>3. CASE KickoffThreads
  BY <1>0, <1>3 DEF TypeOK, KickoffThreads, Goto, state, bar, work, Labels
<1>4. CASE Pause \/ Resume \/ Free \/ FreeJoin
  <2>1. /\ UNCHANGED <<n_graph, n_threads_cur, state, bar, work, after>>
        /\ pause' \in BOOLEAN /\ stop' \in BOOLEAN
        /\ pc' \in [Threads -> Labels]
    BY <1>0, <1>4, BroadcastView DEF TypeOK, Pause, Resume, Free, FreeJoin, Goto, pool, Labels
  <2> QED BY <2>1, <1>0 DEF TypeOK, state, bar, work
<1>5. CASE KickoffGraph
  <2>1. /\ n_graph < MaxGraphs /\ pc' \in [Threads -> Labels] /\ n_graph' = n_graph + 1
        /\ pause' = FALSE /\ UNCHANGED <<n_threads_cur, stop, state, bar, work, after>>
    BY <1>0, <1>5, BroadcastView DEF KickoffGraph, IInv, TeamInv, Labels
  <2>2. n_graph \in 0 .. MaxGraphs
    BY <1>0 DEF TypeOK
  <2>3. n_graph' \in 0 .. MaxGraphs
    BY <2>1, <2>2, <1>0
  <2>4. pause' \in BOOLEAN
    BY <2>1
  <2> QED BY <2>1, <2>3, <2>4, <1>0 DEF TypeOK, state, bar, work
<1>6. ASSUME NEW t \in Threads, Look(t)
      PROVE  TypeOK'
  BY <1>0, <1>6 DEF TypeOK, Look, Top, PauseLock, StopCheck, PollEnter, Poll, PollGiveUp,
        PollActive, LockedReady, SeenGraph, Goto, pool, state, bar, work, Labels
<1>7. ASSUME NEW t \in Threads, Barrier(t)
      PROVE  TypeOK'
  <2>1. B!BarrierAdd(t) => n_barrier + 1 \in 0 .. MaxThreads
    <3> SUFFICES ASSUME B!BarrierAdd(t) PROVE n_barrier + 1 \in 0 .. MaxThreads
      OBVIOUS
    <3> DEFINE Team == 0 .. n_threads_cur - 1
    <3>1. pc[t] = "barrierAdd"
      BY DEF B!BarrierAdd
    <3>2. t < n_threads_cur /\ ~Met(t)
      BY <3>1, EngagedAt DEF Met
    <3>3. n_barrier = Cardinality(Present) \/ n_barrier = 0
      BY DEF IInv, CountInv
    <3>4. /\ IsFiniteSet(Team) /\ Cardinality(Team) = n_threads_cur /\ t \in Team
          /\ Present \subseteq Team /\ Present # Team
          /\ Cardinality(Present) \in Nat /\ n_threads_cur \in Nat \ {0}
      BY <3>2, TeamSize DEF Present
    <3>5. Cardinality(Present) <= n_threads_cur /\ Cardinality(Present) # n_threads_cur
      BY <3>4, FS_Subset
    <3>6. n_threads_cur <= MaxThreads
      BY <1>0 DEF TypeOK
    <3>7. n_barrier + 1 <= n_threads_cur /\ n_barrier \in Nat
      BY <3>3, <3>4, <3>5
    <3> QED BY <3>4, <3>6, <3>7, <1>0
  <2> QED BY <2>1, <1>0, <1>7 DEF TypeOK, Barrier, B!Inside, B!BarrierRead, B!BarrierAdd,
             B!BarrierReset, B!BarrierRelease, B!BarrierWait, B!Goto, B!shared, state, work, Labels
<1>8. ASSUME NEW t \in Threads, ComputeThread(t)
      PROVE  TypeOK'
  <2>1. CASE Start(t) \/ Loop(t) \/ ChunksDone(t) \/ End(t)
    BY <2>1, <1>0, SMTT(30) DEF TypeOK, Start, Loop, ChunksDone, End, Goto, B!CallBarrier, B!Goto,
          pool, state, bar, work, Labels
  <2>2. CASE Prepare(t)
    <3>1. t \in Nat /\ nth[t] \in Nat
      BY <1>0, ThreadsFacts DEF TypeOK
    <3> QED BY <2>2, <3>1, <1>0 DEF TypeOK, Prepare, FirstUnclaimed, B!CallBarrier, B!Goto,
               pool, state, bar, Labels
  <2>3. CASE Compute(t)
    <3>1. done \in [Nodes -> [Chunks -> Nat]]
      BY <1>0 DEF TypeOK
    <3>2. done' \in [Nodes -> [Chunks -> Nat]]
      <4>1. done' = [n \in Nodes |-> IF n = node_n[t]
                        THEN [c \in Chunks |-> IF c = chunk[t] THEN done[n][c] + 1 ELSE done[n][c]]
                        ELSE done[n]]
        BY <2>3, <3>1, ZenonT(40) DEF Compute
      <4>2. \A n \in Nodes : [c \in Chunks |-> IF c = chunk[t] THEN done[n][c] + 1 ELSE done[n][c]]
                                \in [Chunks -> Nat]
        BY <3>1
      <4> QED BY <3>1, <4>1, <4>2
    <3>3. /\ pc' \in [Threads -> Labels] /\ chunk' \in [Threads -> Nat] /\ current_chunk' \in Nat
      BY <2>3, <1>0 DEF TypeOK, Compute, Goto, Labels
    <3>4. UNCHANGED <<pool, state, bar, abort, ec, nth, node_n, after>>
      BY <2>3 DEF Compute
    <3> QED BY <3>2, <3>3, <3>4, <1>0 DEF TypeOK, pool, state, bar
  <2>4. CASE Callback(t) \/ NextNode(t)
    <3>1. node_n[t] < NNodes
      BY <2>4, EngagedAt DEF Callback, NextNode, Flow, InNode
    <3> QED BY <2>4, <3>1, <1>0 DEF TypeOK, Callback, NextNode, NodeBarrier, Goto, B!CallBarrier, B!Goto,
               pool, state, bar, Labels
  <2> QED BY <2>1, <2>2, <2>3, <2>4, <1>8 DEF ComputeThread
<1> QED BY <1>1, <1>2, <1>3, <1>4, <1>5, <1>6, <1>7, <1>8 DEF Next, Call, InCall, Step

LEMMA NextIInv == OneSize /\ IInv /\ [Next]_vars => IInv'
<1> SUFFICES ASSUME OneSize, IInv, [Next]_vars PROVE IInv'
  OBVIOUS
<1>0. TypeOK'
  BY TypeStep
<1>1. CASE UNCHANGED vars
  <2>1. \A u \in Threads : Same(u)
    BY <1>1 DEF vars, pool, state, bar, work, Same
  <2> QED BY <1>0, <1>1, <2>1, OutStep DEF vars, pool, state, bar, work, IInv, TeamInv
<1>2. CASE Call \/ InCall
  BY <1>0, <1>2, CallStep, KickoffThreadsStep, KickoffGraphStep DEF Call, InCall
<1>3. ASSUME NEW t \in Workers, Look(t)
      PROVE  IInv'
  BY <1>0, <1>3, LookStep
<1>4. ASSUME NEW t \in Threads, Barrier(t)
      PROVE  IInv'
  BY <1>0, <1>4, ReadStep, AddStep, ResetStep, ReleaseStep, WaitStep DEF Barrier, B!Inside
<1>5. ASSUME NEW t \in Threads, ComputeThread(t)
      PROVE  IInv'
  <2>1. n_threads_cur > 1 \/ n_threads_cur = 1
    BY SizeAssumption DEF IInv, TypeOK
  <2> QED BY <1>0, <1>5, <2>1, StartStep, LoopStep, SoloEndStep, PrepareStep, ChunksStep,
             CallbackStep, NextNodeStep, EndStep DEF ComputeThread
<1> QED BY <1>1, <1>2, <1>3, <1>4, <1>5 DEF Next, Step

THEOREM Invariance == OneSize => (Spec => []IInv)
<1> SUFFICES ASSUME OneSize PROVE Spec => []IInv
  OBVIOUS
<1>1. IInv /\ [Next]_vars => IInv'
  BY NextIInv
<1> QED BY <1>1, InitIInv, PTL DEF Spec

(* Type correctness: in particular the barrier's counter never exceeds the *)
(* number of threads, and no thread looks at a node behind the last.       *)
THEOREM TypeCorrect == OneSize => (Spec => []TypeOK)
<1> SUFFICES ASSUME OneSize PROVE Spec => []TypeOK
  OBVIOUS
<1>1. IInv => TypeOK
  BY DEF IInv
<1> QED BY <1>1, Invariance, PTL

(* Threads that compute at the same time are in the same phase of the same *)
(* node: the barriers of ggml_graph_compute_thread and of the matrix       *)
(* multiplication keep the phases apart, for every number of threads.      *)
THEOREM PhasesApart == OneSize => (Spec => []SamePhase)
<1> SUFFICES ASSUME OneSize PROVE Spec => []SamePhase
  OBVIOUS
<1>1. IInv => SamePhase
  <2> SUFFICES ASSUME IInv, NEW t \in Threads, NEW u \in Threads,
                      pc[t] \in {"prepare", "chunks"}, pc[u] \in {"prepare", "chunks"}
               PROVE  pc[t] = pc[u] /\ node_n[t] = node_n[u]
    BY DEF SamePhase
  <2>1. Stage(t) = Stage(u)
    BY EngagedAt, Together
  <2>2. node_n[t] \in Int /\ node_n[u] \in Int
    BY ShapeAssumption DEF IInv, TypeOK
  <2> QED BY <2>1, <2>2 DEF Stage
<1> QED BY <1>1, Invariance, PTL

(* Threads that meet in a round of the barrier are at the same place of    *)
(* the same node: an abort stops all of them in front of the same node.    *)
THEOREM AbortsTogether == OneSize => (Spec => []AbortTogether)
<1> SUFFICES ASSUME OneSize PROVE Spec => []AbortTogether
  OBVIOUS
<1>1. IInv => AbortTogether
  <2> SUFFICES ASSUME IInv, NEW t \in Threads, NEW u \in Threads, Met(t), Met(u)
               PROVE  after[t] = after[u] /\ node_n[t] = node_n[u]
    BY DEF AbortTogether
  <2>1. \A v \in Threads : Met(v) => Engaged(v) /\ InBarrier(v) /\ ~Behind(v)
    BY DEF Met, Engaged, Inside, InBarrier, Finished, Behind
  <2> QED BY <2>1, MeetInPlace
<1> QED BY <1>1, Invariance, PTL

(* "No worker threads should be accessing the parameters below at this     *)
(* stage": it holds when all graphs use the same number of threads.        *)
THEOREM ResetsAlone == OneSize => (Spec => []ResetAlone)
<1> SUFFICES ASSUME OneSize PROVE Spec => []ResetAlone
  OBVIOUS
<1>1. IInv => ResetAlone
  <2> SUFFICES ASSUME IInv, pc[0] \in {"idle", "join", "freed"}, NEW t \in Workers, Computing(t)
               PROVE  FALSE
    BY DEF ResetAlone
  <2>1. ~Engaged(0)
    BY DEF Engaged, Inside, InBarrier
  <2>2. Engaged(t)
    BY DEF Computing, Engaged, Inside, InBarrier, Finished, Behind
  <2> QED BY <2>1, <2>2, Together, ThreadsFacts
<1> QED BY <1>1, Invariance, PTL

-----------------------------------------------------------------------------
(***************************************************************************)
(* Every chunk is computed once.                                           *)
(*                                                                         *)
(* In the chunks' phase of a node the chunks below current_chunk have been *)
(* handed out: each is held by one thread or has been computed.            *)
(***************************************************************************)

(* The chunk in thread t's hands, computed next. *)
Holds(t) == pc[t] = "chunks" \/ (Behind(t) /\ after[t] = "chunks")

(* In front of the chunks' phase. *)
Ready(t) == InBarrier(t) /\ ~Behind(t) /\ after[t] = "chunks"

(* In the chunks' phase of some node. *)
OddStage(t) == \E k \in Nodes : Stage(t) = 2 * k + 1

HandedOut(c) == /\ c < NChunks(n_threads_cur) /\ c < current_chunk
                /\ \A t \in Threads : Holds(t) => chunk[t] # c

ClaimInv ==
    /\ \A t \in Threads : Holds(t) => chunk[t] < current_chunk
    /\ \A t, u \in Threads : Holds(t) /\ Holds(u) /\ chunk[t] = chunk[u] => t = u
    /\ \A t \in Threads : Ready(t) => chunk[t] = t
    /\ Ready(0) => current_chunk = n_threads_cur
    /\ \A t \in Threads : Engaged(t) /\ OddStage(t) =>
          current_chunk >= IF Holds(t) THEN n_threads_cur ELSE NChunks(n_threads_cur)

Due(k, c) == \/ 2 * k + 2 <= Stage(0) /\ c < NChunks(n_threads_cur)
             \/ 2 * k + 1 = Stage(0) /\ HandedOut(c)

DoneInv ==
    /\ pc[0] \in {"kickoff", "kickoff2"} => \A k \in Nodes, c \in Chunks : done[k][c] = 0
    /\ Engaged(0) => \A k \in Nodes, c \in Chunks : done[k][c] = IF Due(k, c) THEN 1 ELSE 0
    /\ Inside(0) /\ Finished(0) => \A k \in Nodes, c \in Chunks :
          done[k][c] = IF k < node_n[0] /\ c < NChunks(n_threads_cur) THEN 1 ELSE 0
    /\ ec = "success" => abort = -1

WInv == ClaimInv /\ DoneInv

-----------------------------------------------------------------------------
(* The number of chunks of a node is at least the number of threads. *)
LEMMA ChunksFacts ==
    ASSUME IInv
    PROVE  /\ NChunks(n_threads_cur) \in Nat /\ n_threads_cur <= NChunks(n_threads_cur)
           /\ NChunks(n_threads_cur) <= RawChunks + MaxThreads
           /\ n_threads_cur \in Nat \ {0}
<1>1. n_threads_cur \in 1 .. MaxThreads
  BY DEF IInv, TypeOK
<1>2. MaxThreads \in Nat /\ RawChunks \in Nat /\ ChunkFactor \in Nat \ {0}
  BY SizeAssumption, ShapeAssumption
<1>3. n_threads_cur <= n_threads_cur * ChunkFactor /\ n_threads_cur * ChunkFactor \in Nat
  BY <1>1, <1>2
<1> QED BY <1>1, <1>2, <1>3 DEF NChunks

(* A thread that holds a chunk is in the chunks' phase of its node. *)
LEMMA HoldsAt ==
    ASSUME IInv, NEW t \in Threads, Holds(t)
    PROVE  /\ Engaged(t) /\ Engaged(0) /\ node_n[t] \in Nodes /\ OddStage(t)
           /\ Stage(t) = 2 * node_n[t] + 1 /\ Stage(0) = 2 * node_n[t] + 1
           /\ nth[t] = n_threads_cur
<1>0. NNodes \in Nat /\ node_n[t] \in 0 .. NNodes
  BY ShapeAssumption DEF IInv, TypeOK
<1>1. Engaged(t) /\ Stage(t) = 2 * node_n[t] + 1
  BY <1>0 DEF Holds, Engaged, Inside, InBarrier, Finished, Behind, Stage
<1>2. Flow(t)
  BY <1>1 DEF IInv, FlowInv
<1>3. node_n[t] < NNodes /\ nth[t] = n_threads_cur
  BY <1>2 DEF Flow, InNode, InBarrier, Holds, Behind
<1>4. node_n[t] \in Nodes
  BY <1>0, <1>3 DEF Nodes
<1> QED BY <1>1, <1>3, <1>4, Together DEF OddStage

(* Steps that neither hand out nor compute a chunk, and take nobody past a *)
(* barrier.                                                                *)
LEMMA StillStep ==
    ASSUME IInv, WInv,
           UNCHANGED <<current_chunk, chunk, done, n_threads_cur>>,
           ec' = "success" => ec = "success" /\ abort' = abort,
           \A u \in Threads :
              /\ Holds(u)' <=> Holds(u)
              /\ Ready(u)' => Ready(u)
              /\ Engaged(u)' => (Engaged(u) /\ Stage(u)' = Stage(u)) \/ (u # 0 /\ Stage(u)' = 0),
           Inside(0)' /\ Finished(0)' => Inside(0) /\ Finished(0) /\ node_n'[0] = node_n[0],
           pc'[0] \in {"kickoff", "kickoff2"} => pc[0] \in {"kickoff", "kickoff2"}
    PROVE  WInv'
<1>1. \A u \in Threads : Engaged(u)' /\ OddStage(u)' => Engaged(u) /\ OddStage(u)
  BY DEF OddStage, Nodes
<1>2. ClaimInv'
  BY <1>1, ThreadsFacts DEF WInv, ClaimInv
<1>3. \A c : HandedOut(c)' <=> HandedOut(c)
  BY DEF HandedOut
<1>4. Engaged(0)' => Engaged(0) /\ Stage(0)' = Stage(0)
  BY ThreadsFacts
<1>5. Engaged(0)' => \A k, c : Due(k, c)' <=> Due(k, c)
  BY <1>3, <1>4 DEF Due
<1>6. DoneInv'
  BY <1>4, <1>5 DEF WInv, DoneInv
<1> QED BY <1>2, <1>6 DEF WInv

(* The same for a step of one thread. *)
LEMMA StillLocal ==
    ASSUME IInv, WInv, NEW t \in Threads,
           UNCHANGED <<current_chunk, chunk, done, n_threads_cur, n_barrier_passed>>,
           ec' = "success" => ec = "success" /\ abort' = abort,
           \A u \in Threads \ {t} : Same(u),
           Holds(t)' <=> Holds(t), Ready(t)' => Ready(t),
           Engaged(t)' => (Engaged(t) /\ Stage(t)' = Stage(t)) \/ (t # 0 /\ Stage(t)' = 0),
           t = 0 /\ Inside(0)' /\ Finished(0)' => Inside(0) /\ Finished(0) /\ node_n'[0] = node_n[0],
           t = 0 /\ pc'[0] \in {"kickoff", "kickoff2"} => pc[0] \in {"kickoff", "kickoff2"}
    PROVE  WInv'
<1>1. \A u \in Threads \ {t} :
          /\ (Holds(u)' <=> Holds(u)) /\ (Ready(u)' <=> Ready(u)) /\ (Engaged(u)' <=> Engaged(u))
          /\ Stage(u)' = Stage(u) /\ Inside(u)' = Inside(u) /\ Finished(u)' = Finished(u)
          /\ pc'[u] = pc[u] /\ node_n'[u] = node_n[u]
  BY SameView DEF Same, Holds, Ready
<1> QED BY <1>1, StillStep, ThreadsFacts

(* Before the first barrier of a graph no chunk is due. *)
LEMMA FreshStep ==
    ASSUME \A u \in Threads : ~Holds(u)' /\ ~Ready(u)' /\ (Engaged(u)' => Stage(u)' = 0),
           ~(Inside(0)' /\ Finished(0)'),
           \A k \in Nodes, c \in Chunks : done'[k][c] = 0,
           ec' = "success" => abort' = -1
    PROVE  WInv'
<1>1. \A u \in Threads : ~(Engaged(u)' /\ OddStage(u)')
  BY DEF OddStage, Nodes
<1>2. ClaimInv'
  BY <1>1, ThreadsFacts DEF ClaimInv
<1>3. ASSUME Engaged(0)', NEW k \in Nodes, NEW c
      PROVE  ~Due(k, c)'
  <2>1. Stage(0)' = 0 /\ k \in Nat
    BY <1>3, ThreadsFacts DEF Nodes
  <2> QED BY <2>1 DEF Due
<1>4. DoneInv'
  BY <1>3 DEF DoneInv
<1> QED BY <1>2, <1>4 DEF WInv

LEMMA CallChunks ==
    ASSUME IInv, WInv, Call \/ InCall
    PROVE  WInv'
<1>0. pc \in [Threads -> Labels] /\ 0 \in Threads
  BY ThreadsFacts DEF IInv, TypeOK
<1>1. CASE Pause \/ Resume \/ Free \/ FreeJoin
  <2>1. /\ UNCHANGED <<n_threads_cur, bar, work, after>>
        /\ pc[0] \in {"idle", "join"} /\ pc'[0] \in {"idle", "join", "freed"}
        /\ \A u \in Workers : \/ pc'[u] = pc[u]
                              \/ pc[u] \in {"asleep", "pauseAsleep"} /\ pc'[u] \in {"lock", "top"}
    BY <1>0, <1>1, BroadcastView, ThreadsFacts DEF Pause, Resume, Free, FreeJoin, Goto, pool
  <2>2. /\ current_chunk' = current_chunk /\ chunk' = chunk /\ done' = done /\ nth' = nth
        /\ n_threads_cur' = n_threads_cur /\ ec' = ec /\ abort' = abort /\ node_n' = node_n
        /\ after' = after /\ n_passed' = n_passed /\ n_barrier_passed' = n_barrier_passed
    BY <2>1 DEF bar, work
  <2>3. ASSUME NEW u \in Threads
        PROVE  /\ Holds(u)' <=> Holds(u)
               /\ Ready(u)' => Ready(u)
               /\ Engaged(u)' => Engaged(u) /\ Stage(u)' = Stage(u)
    <3>1. CASE pc'[u] = pc[u]
      <4>1. Same(u)
        BY <3>1, <2>2 DEF Same
      <4> QED BY <4>1, <2>2, SameView DEF Same, Holds, Ready
    <3>2. CASE pc'[u] # pc[u]
      <4>1. pc[u] \in {"asleep", "pauseAsleep", "idle", "join"} /\ pc'[u] \in {"lock", "top", "idle", "join", "freed"}
        BY <2>1, <3>2, ThreadsFacts
      <4> QED BY <4>1 DEF Holds, Ready, Engaged, Inside, InBarrier, Behind
    <3> QED BY <3>1, <3>2
  <2>4. ~Inside(0)' /\ pc'[0] \notin {"kickoff", "kickoff2"}
    BY <2>1 DEF Inside, InBarrier
  <2> QED BY <2>2, <2>3, <2>4, StillStep
<1>2. CASE GraphCompute \/ KickoffThreads \/ KickoffGraph
  <2>1. ~Engaged(0)
    BY <1>2 DEF GraphCompute, KickoffThreads, KickoffGraph, Engaged, Inside, InBarrier
  <2>2. \A u \in Threads : ~Engaged(u)
    BY <2>1, Together
  <2>3. /\ \A u \in Workers : \/ pc'[u] = pc[u]
                              \/ pc[u] \in {"asleep", "pauseAsleep"} /\ pc'[u] \in {"lock", "top"}
        /\ pc'[0] \in {"kickoff", "kickoff2", "start"}
        /\ UNCHANGED <<bar, node_n, after>>
    BY <1>0, <1>2, BroadcastView, ThreadsFacts
       DEF GraphCompute, KickoffThreads, KickoffGraph, Goto, work
  <2>4. n_passed' = n_passed /\ n_barrier_passed' = n_barrier_passed /\ node_n' = node_n /\ after' = after
    BY <2>3 DEF bar
  <2>5. ASSUME NEW u \in Threads
        PROVE  ~Holds(u)' /\ ~Ready(u)' /\ (Engaged(u)' => Stage(u)' = 0)
    <3>1. CASE u = 0
      BY <3>1, <2>3 DEF Holds, Ready, Engaged, Stage, Inside, InBarrier, Behind
    <3>2. CASE u # 0
      <4>1. u \in Workers /\ ~Engaged(u)
        BY <3>2, <2>2, ThreadsFacts
      <4> QED BY <4>1, <2>3, <2>4
                 DEF Holds, Ready, Engaged, Inside, InBarrier, Behind, Finished
    <3> QED BY <3>1, <3>2
  <2>6. ~(Inside(0)' /\ Finished(0)')
    BY <2>3 DEF Inside, InBarrier, Finished, Behind
  <2>7. \A k \in Nodes, c \in Chunks : done'[k][c] = 0
    <3>1. CASE GraphCompute
      BY <3>1 DEF GraphCompute
    <3>2. CASE KickoffThreads \/ KickoffGraph
      BY <3>2 DEF KickoffThreads, KickoffGraph, work, WInv, DoneInv
    <3> QED BY <1>2, <3>1, <3>2
  <2>8. ec' = "success" => abort' = -1
    BY <1>2 DEF GraphCompute, KickoffThreads, KickoffGraph, work, WInv, DoneInv
  <2> QED BY <2>5, <2>6, <2>7, <2>8, FreshStep
<1> QED BY <1>1, <1>2 DEF Call, InCall

LEMMA LookChunks ==
    ASSUME IInv, WInv, NEW t \in Workers, Look(t)
    PROVE  WInv'
<1>0. pc \in [Threads -> Labels] /\ t \in Threads /\ t # 0
  BY ThreadsFacts DEF IInv, TypeOK
<1>1. /\ UNCHANGED <<pool, bar, work, after>>
      /\ \A u \in Threads \ {t} : pc'[u] = pc[u]
      /\ pc[t] \in {"top", "pauseLock", "stopCheck", "pollEnter", "poll", "pollActive", "lock"}
      /\ pc'[t] \in {"top", "pauseLock", "pauseAsleep", "stopCheck", "pollEnter", "poll",
                     "pollActive", "lock", "asleep", "exit", "start"}
  BY <1>0 DEF Look, Top, PauseLock, StopCheck, PollEnter, Poll, PollGiveUp, PollActive,
              LockedReady, Goto
<1>2. /\ UNCHANGED <<current_chunk, chunk, done, n_threads_cur, n_barrier_passed>>
      /\ ec' = ec /\ abort' = abort
      /\ \A u \in Threads \ {t} : Same(u)
  BY <1>1 DEF pool, bar, work, Same
<1>3. /\ ~Holds(t) /\ ~Holds(t)' /\ ~Ready(t)' /\ (Engaged(t)' => Stage(t)' = 0)
  BY <1>1 DEF Holds, Ready, Engaged, Stage, Inside, InBarrier, Behind
<1> QED BY <1>0, <1>2, <1>3, StillLocal

LEMMA BarrierChunks ==
    ASSUME IInv, WInv, NEW t \in Threads,
           B!BarrierRead(t) \/ B!BarrierAdd(t) \/ B!BarrierReset(t) \/ B!BarrierWait(t),
           UNCHANGED <<n_graph, stop, pause, state, work>>
    PROVE  WInv'
<1>0. /\ pc \in [Threads -> Labels] /\ n_passed \in [Threads -> Nat]
      /\ NNodes \in Nat /\ node_n[t] \in 0 .. NNodes /\ after[t] \in {"chunks", "next", "end"}
  BY ShapeAssumption DEF IInv, TypeOK
<1>1. /\ current_chunk' = current_chunk /\ chunk' = chunk /\ done' = done /\ nth' = nth
      /\ n_threads_cur' = n_threads_cur /\ ec' = ec /\ abort' = abort /\ node_n' = node_n
      /\ after' = after /\ n_barrier_passed' = n_barrier_passed
      /\ \A u \in Threads \ {t} : Same(u)
      /\ \/ pc[t] = "barrier" /\ pc'[t] = "barrierAdd"
         \/ pc[t] = "barrierAdd" /\ pc'[t] \in {"barrierReset", "barrierWait"} /\ n_passed' = n_passed
            /\ n_passed[t] = n_barrier_passed
         \/ pc[t] = "barrierReset" /\ pc'[t] = "barrierRelease"
         \/ Behind(t) /\ pc'[t] = after[t]
  BY <1>0 DEF B!BarrierRead, B!BarrierAdd, B!BarrierReset, B!BarrierWait, B!Goto, B!shared,
              work, Same, IInv, RoundInv, Behind
<1>2. CASE Behind(t) /\ pc'[t] = after[t]
  <2>1. after[t] # "end" => Flow(t)
    BY <1>2 DEF IInv, FlowInv, Engaged, Finished, Inside, InBarrier, Behind
  <2>2. (Holds(t)' <=> Holds(t)) /\ ~Ready(t)'
    BY <1>0, <1>1, <1>2 DEF Holds, Ready, InBarrier, Behind
  <2>3. Engaged(t)' => Engaged(t) /\ Stage(t)' = Stage(t)
    BY <1>0, <1>1, <1>2, <2>1
       DEF Engaged, Stage, LoopStage, Flow, Inside, InBarrier, Finished, Behind
  <2>4. t = 0 /\ Inside(0)' /\ Finished(0)' => Inside(0) /\ Finished(0)
    BY <1>0, <1>1, <1>2 DEF Inside, InBarrier, Finished, Behind
  <2>5. pc'[t] \notin {"kickoff", "kickoff2"}
    BY <1>0, <1>2
  <2> QED BY <1>1, <2>2, <2>3, <2>4, <2>5, StillLocal
<1>3. CASE pc[t] \in {"barrier", "barrierAdd", "barrierReset"}
  <2>0. ~Behind(t) /\ ~Behind(t)' /\ InBarrier(t) /\ InBarrier(t)'
        /\ pc[t] \notin {"start", "loop", "prepare", "chunks", "callback", "next", "end"}
        /\ pc'[t] \notin {"start", "loop", "prepare", "chunks", "callback", "next", "end"}
    BY <1>1, <1>3 DEF Behind, InBarrier
  <2>1. (Holds(t)' <=> Holds(t)) /\ (Ready(t)' <=> Ready(t)) /\ (Engaged(t)' <=> Engaged(t))
        /\ Stage(t)' = Stage(t) /\ ~Finished(t)'
    BY <1>1, <2>0 DEF Holds, Ready, Engaged, Stage, Inside, Finished
  <2>2. pc'[t] \notin {"kickoff", "kickoff2"}
    BY <2>0 DEF InBarrier
  <2> QED BY <1>1, <2>1, <2>2, StillLocal
<1> QED BY <1>1, <1>2, <1>3

(* The control steps of ggml_graph_compute_thread that pass no barrier. *)
LEMMA ControlChunks ==
    ASSUME IInv, WInv, NEW t \in Threads,
           \/ Start(t) \/ NextNode(t) \/ End(t)
           \/ Loop(t) /\ (n_threads_cur > 1 \/ ~Stops(t))
           \/ Callback(t) /\ (n_threads_cur > 1 \/ ~(node_n[t] + 1 < NNodes))
    PROVE  WInv'
<1>0. /\ pc \in [Threads -> Labels] /\ after \in [Threads -> {"chunks", "next", "end"}]
      /\ NNodes \in Nat /\ node_n \in [Threads -> 0 .. NNodes] /\ n_threads_cur \in Nat
      /\ nth \in [Threads -> 0 .. MaxThreads]
  BY ShapeAssumption, SizeAssumption DEF IInv, TypeOK
<1>1. /\ current_chunk' = current_chunk /\ chunk' = chunk /\ done' = done
      /\ n_threads_cur' = n_threads_cur
      /\ n_passed' = n_passed /\ n_barrier_passed' = n_barrier_passed
      /\ \A u \in Threads \ {t} : Same(u)
      /\ ec' = "success" => ec = "success" /\ abort' = abort
      /\ \/ pc[t] = "start" /\ pc'[t] = "loop" /\ node_n'[t] = 0
         \/ pc[t] = "next" /\ pc'[t] = "loop" /\ node_n'[t] = node_n[t] + 1
         \/ pc[t] = "end" /\ pc'[t] \in {"idle", "top"}
         \/ pc[t] = "loop" /\ pc'[t] = "barrier" /\ after'[t] = "end" /\ node_n'[t] = node_n[t]
         \/ pc[t] = "loop" /\ pc'[t] = "prepare" /\ Stops(t) = FALSE /\ node_n'[t] = node_n[t]
         \/ pc[t] = "callback" /\ pc'[t] = "barrier" /\ after'[t] = "next" /\ node_n'[t] = node_n[t]
         \/ pc[t] = "callback" /\ pc'[t] = "next" /\ node_n'[t] = node_n[t] /\ ~(node_n[t] + 1 < NNodes)
  BY <1>0 DEF Start, NextNode, End, Loop, Stops, Callback, NodeBarrier, Goto, B!CallBarrier, B!Goto,
              pool, bar, work, Same
<1>2. pc[t] = "callback" => node_n[t] < NNodes
  BY EngagedAt DEF Flow, InNode
<1>3. ~Holds(t) /\ ~Holds(t)' /\ ~Ready(t)' /\ ~Finished(t)'
      /\ pc'[t] \notin {"kickoff", "kickoff2"}
  BY <1>1 DEF Holds, Ready, Finished, Behind, InBarrier
<1>4. Engaged(t)' => Engaged(t)
  BY <1>1 DEF Engaged, Inside, InBarrier, Finished, Behind
<1>5. Engaged(t)' => Stage(t)' = Stage(t)
  BY <1>0, <1>1, <1>2 DEF Stage, LoopStage, Stops, Engaged, Inside, InBarrier, Behind, Finished
<1> QED BY <1>1, <1>3, <1>4, <1>5, StillLocal

(* Thread 0 sets the first chunk to fetch, each thread the one it begins   *)
(* with; a single thread begins with it at once.                           *)
LEMMA PrepareChunks ==
    ASSUME IInv, WInv, IInv', NEW t \in Threads, Prepare(t)
    PROVE  WInv'
<1>0. /\ pc \in [Threads -> Labels] /\ after \in [Threads -> {"chunks", "next", "end"}]
      /\ NNodes \in Nat /\ node_n \in [Threads -> 0 .. NNodes] /\ chunk \in [Threads -> Nat]
      /\ n_threads_cur \in Nat \ {0} /\ Threads \subseteq Nat
  BY ShapeAssumption, SizeAssumption, ThreadsFacts DEF IInv, TypeOK
<1>1. /\ pc[t] = "prepare" /\ Engaged(t) /\ Flow(t) /\ t < n_threads_cur
      /\ Stage(t) = 2 * node_n[t] /\ Engaged(0) /\ Stage(0) = 2 * node_n[t]
      /\ nth[t] = n_threads_cur /\ node_n[t] < NNodes
  <2>1. pc[t] = "prepare"
    BY DEF Prepare
  <2>2. Engaged(t) /\ Flow(t) /\ t < n_threads_cur /\ Stage(t) = 2 * node_n[t]
    BY <2>1, EngagedAt DEF Stage
  <2> QED BY <2>1, <2>2, Together DEF Flow, InNode
<1>2. /\ after'[t] = "chunks" /\ pc'[t] = (IF n_threads_cur = 1 THEN "chunks" ELSE "barrier")
      /\ chunk'[t] = t /\ node_n' = node_n /\ done' = done /\ n_threads_cur' = n_threads_cur
      /\ ec' = ec /\ abort' = abort /\ n_barrier_passed' = n_barrier_passed
      /\ t = 0 => current_chunk' = n_threads_cur
      /\ t # 0 => current_chunk' = current_chunk
      /\ \A u \in Threads \ {t} : Same(u) /\ chunk'[u] = chunk[u]
  BY <1>0, <1>1 DEF Prepare, FirstUnclaimed, B!CallBarrier, B!Goto, pool, bar, Same
<1>3. \A u \in Threads \ {t} :
          /\ (Holds(u)' <=> Holds(u)) /\ (Ready(u)' <=> Ready(u)) /\ (Engaged(u)' <=> Engaged(u))
          /\ Stage(u)' = Stage(u) /\ chunk'[u] = chunk[u]
  BY <1>2, SameView DEF Same, Holds, Ready
<1>4. \A u \in Threads : ~Holds(u) /\ (Engaged(u) => ~OddStage(u))
  <2>1. ASSUME NEW u \in Threads, Engaged(u) PROVE ~OddStage(u)
    BY <2>1, <1>0, <1>1, Together DEF OddStage, Nodes
  <2> QED BY <2>1, HoldsAt
<1>5. CASE n_threads_cur > 1
  <2>1. ~Holds(t)' /\ Stage(t)' = Stage(t) /\ Engaged(t)'
    BY <1>0, <1>1, <1>2, <1>5 DEF Holds, Behind, Stage, Engaged, Inside, InBarrier, Finished
  <2>2. \A u \in Threads : ~Holds(u)' /\ (Engaged(u)' => Engaged(u) /\ ~OddStage(u)')
    BY <2>1, <1>1, <1>3, <1>4 DEF OddStage
  <2>3. ClaimInv'
    BY <2>2, <1>2, <1>3, ThreadsFacts DEF WInv, ClaimInv
  <2>4. Engaged(0)' /\ Stage(0)' = Stage(0) /\ ~Finished(0) /\ ~Finished(0)'
    BY <2>1, <1>1, <1>3, ThreadsFacts DEF Engaged
  <2>5. ASSUME NEW k \in Nodes, NEW c PROVE Due(k, c)' <=> Due(k, c)
    <3>1. 2 * k + 1 # Stage(0) /\ k \in Int
      BY <1>0, <1>1 DEF Nodes
    <3> QED BY <3>1, <2>4, <1>2 DEF Due
  <2>6. pc'[0] \notin {"kickoff", "kickoff2"}
    BY <2>4 DEF Engaged, Inside, InBarrier
  <2>7. DoneInv'
    BY <2>4, <2>5, <2>6, <1>1, <1>2 DEF WInv, DoneInv
  <2> QED BY <2>3, <2>7 DEF WInv
<1>6. CASE n_threads_cur = 1
  <2>1. t = 0 /\ current_chunk' = 1 /\ chunk'[0] = 0 /\ pc'[0] = "chunks"
    BY <1>0, <1>1, <1>2, <1>6
  <2>2. /\ Holds(0)' /\ ~Ready(0)' /\ Stage(0)' = 2 * node_n[0] + 1 /\ Engaged(0)'
        /\ ~Finished(0)'
    BY <2>1, <1>0, <1>2
       DEF Holds, Ready, Behind, Stage, Engaged, Inside, InBarrier, Finished
  <2>3. \A u \in Threads \ {0} : ~Holds(u)' /\ ~Ready(u)' /\ ~Engaged(u)'
    <3>1. \A u \in Threads \ {0} : ~Inside(u)
      BY <1>0, <1>6, Together, ThreadsFacts
    <3> QED BY <3>1, <2>1, <1>3 DEF Engaged, Inside, InBarrier, Holds, Ready, Behind
  <2>4. ClaimInv'
    BY <2>1, <2>2, <2>3, <1>2, <1>6, ThreadsFacts DEF ClaimInv
  <2>5. ASSUME NEW k \in Nodes, NEW c \in Chunks PROVE Due(k, c)' <=> Due(k, c)
    <3>1. ~HandedOut(c)'
      BY <2>1, <2>2, ThreadsFacts DEF HandedOut, Chunks
    <3>2. k \in Int /\ node_n[0] \in Int /\ Stage(0) = 2 * node_n[0]
      BY <1>0, <1>1, <2>1, ThreadsFacts DEF Nodes
    <3> QED BY <3>1, <3>2, <2>2, <1>2 DEF Due
  <2>6. DoneInv'
    BY <2>1, <2>2, <2>5, <1>1, <1>2 DEF WInv, DoneInv
  <2> QED BY <2>4, <2>6 DEF WInv
<1> QED BY <1>0, <1>5, <1>6

(* The chunks' loop comes to an end only when all chunks are handed out. *)
LEMMA ChunksDoneChunks ==
    ASSUME IInv, WInv, NEW t \in Threads, ChunksDone(t)
    PROVE  WInv'
<1>0. pc \in [Threads -> Labels] /\ chunk \in [Threads -> Nat] /\ current_chunk \in Nat
  BY DEF IInv, TypeOK
<1>1. /\ pc[t] = "chunks" /\ Holds(t) /\ nth[t] = n_threads_cur /\ Engaged(t) /\ Engaged(0)
      /\ chunk[t] >= NChunks(n_threads_cur) /\ NChunks(n_threads_cur) \in Nat
      /\ chunk[t] < current_chunk
  <2>1. pc[t] = "chunks" /\ Holds(t)
    BY DEF ChunksDone, Holds
  <2> QED BY <2>1, HoldsAt, ChunksFacts DEF ChunksDone, WInv, ClaimInv
<1>2. /\ pc'[t] = "callback" /\ UNCHANGED <<n_threads_cur, current_chunk, chunk, done, abort, ec, node_n, n_barrier_passed>>
      /\ \A u \in Threads \ {t} : Same(u)
  BY <1>0 DEF ChunksDone, Goto, pool, bar, work, Same
<1>3. \A u \in Threads \ {t} :
          /\ (Holds(u)' <=> Holds(u)) /\ (Ready(u)' <=> Ready(u)) /\ (Engaged(u)' <=> Engaged(u))
          /\ Stage(u)' = Stage(u) /\ pc'[u] = pc[u] /\ Inside(u)' = Inside(u) /\ Finished(u)' = Finished(u)
  BY <1>2, SameView DEF Same, Holds, Ready
<1>4. /\ ~Holds(t)' /\ ~Ready(t)' /\ Engaged(t)' /\ Stage(t)' = Stage(t) /\ ~Finished(t)'
  BY <1>1, <1>2 DEF Holds, Ready, Behind, Engaged, Inside, InBarrier, Finished, Stage
<1>5. \A u \in Threads : (Engaged(u)' <=> Engaged(u)) /\ (OddStage(u)' <=> OddStage(u))
  BY <1>1, <1>3, <1>4 DEF OddStage
<1>6. ClaimInv'
  <2>1. /\ \A u \in Threads : Holds(u)' => Holds(u)
        /\ \A u \in Threads : Ready(u)' => Ready(u)
    BY <1>3, <1>4
  <2>2. current_chunk >= NChunks(n_threads_cur)
    BY <1>0, <1>1
  <2>3. ASSUME NEW u \in Threads, Engaged(u)', OddStage(u)'
        PROVE  current_chunk' >= IF Holds(u)' THEN n_threads_cur' ELSE NChunks(n_threads_cur)'
    <3>1. CASE u = t
      BY <3>1, <2>2, <1>2, <1>4
    <3>2. CASE u # t
      BY <3>2, <2>3, <1>2, <1>3, <1>5 DEF WInv, ClaimInv
    <3> QED BY <3>1, <3>2
  <2> QED BY <2>1, <2>3, <1>2, ThreadsFacts DEF WInv, ClaimInv
<1>7. ASSUME NEW c \in Chunks PROVE HandedOut(c)' <=> HandedOut(c)
  <2>1. c \in Int
    BY DEF Chunks
  <2> QED BY <2>1, <1>0, <1>1, <1>2, <1>3, <1>4 DEF HandedOut
<1>8. Engaged(0)' /\ Stage(0)' = Stage(0) /\ ~Finished(0)' /\ pc'[0] \notin {"kickoff", "kickoff2"}
  BY <1>1, <1>3, <1>4, ThreadsFacts DEF Engaged, Inside, InBarrier
<1>9. \A k \in Nodes, c \in Chunks : Due(k, c)' <=> Due(k, c)
  BY <1>2, <1>7, <1>8 DEF Due
<1>10. DoneInv'
  BY <1>1, <1>2, <1>8, <1>9 DEF WInv, DoneInv
<1> QED BY <1>6, <1>10 DEF WInv

(* A chunk is computed by the thread that holds it, and the next one is    *)
(* handed out.                                                             *)
LEMMA ComputeChunks ==
    ASSUME IInv, WInv, NEW t \in Threads, Compute(t)
    PROVE  WInv'
<1> DEFINE M == NChunks(n_threads_cur)
<1>0. /\ pc \in [Threads -> Labels] /\ chunk \in [Threads -> Nat] /\ current_chunk \in Nat
      /\ done \in [Nodes -> [Chunks -> Nat]] /\ RawChunks \in Nat /\ MaxThreads \in Nat
  BY ShapeAssumption, SizeAssumption DEF IInv, TypeOK
<1>1. /\ pc[t] = "chunks" /\ Holds(t) /\ nth[t] = n_threads_cur /\ Engaged(t) /\ Engaged(0)
      /\ chunk[t] < M /\ M \in Nat /\ n_threads_cur \in Nat /\ n_threads_cur <= M
      /\ chunk[t] < current_chunk /\ current_chunk >= n_threads_cur /\ node_n[t] \in Nodes
      /\ Stage(t) = 2 * node_n[t] + 1 /\ Stage(0) = 2 * node_n[t] + 1 /\ chunk[t] \in Chunks
  <2>1. pc[t] = "chunks" /\ Holds(t)
    BY DEF Compute, Holds
  <2>2. chunk[t] < M /\ M \in Nat /\ M <= RawChunks + MaxThreads
    BY <2>1, HoldsAt, ChunksFacts DEF Compute
  <2>3. chunk[t] \in Chunks
    BY <2>2, <1>0 DEF Chunks
  <2>4. OddStage(t) /\ Engaged(t)
    BY <2>1, HoldsAt
  <2>5. chunk[t] < current_chunk /\ current_chunk >= n_threads_cur
    BY <2>1, <2>4 DEF WInv, ClaimInv
  <2> QED BY <2>1, <2>2, <2>3, <2>5, HoldsAt, ChunksFacts
<1>2. /\ n_threads_cur' = n_threads_cur /\ abort' = abort /\ ec' = ec /\ node_n' = node_n
      /\ n_barrier_passed' = n_barrier_passed /\ after' = after
      /\ \A u \in Threads \ {t} : Same(u) /\ chunk'[u] = chunk[u]
      /\ IF n_threads_cur >= M
         THEN pc'[t] = "callback" /\ chunk' = chunk /\ current_chunk' = current_chunk
         ELSE pc'[t] = "chunks" /\ chunk'[t] = current_chunk /\ current_chunk' = current_chunk + 1
  BY <1>0, <1>1 DEF Compute, Goto, pool, bar, Same
<1>3. \A u \in Threads \ {t} :
          /\ (Holds(u)' <=> Holds(u)) /\ (Ready(u)' <=> Ready(u)) /\ (Engaged(u)' <=> Engaged(u))
          /\ Stage(u)' = Stage(u)
  BY <1>2, SameView DEF Same, Holds, Ready
<1>4. /\ ~Ready(t)' /\ Engaged(t)' /\ Stage(t)' = Stage(t) /\ ~Finished(t)'
      /\ (Holds(t)' <=> ~(n_threads_cur >= M))
  BY <1>1, <1>2 DEF Holds, Ready, Behind, Engaged, Inside, InBarrier, Finished, Stage
<1>5. Engaged(0)' /\ Stage(0)' = Stage(0) /\ ~Finished(0)' /\ pc'[0] \notin {"kickoff", "kickoff2"}
  <2>1. Engaged(0)' /\ Stage(0)' = Stage(0)
    BY <1>1, <1>3, <1>4, ThreadsFacts
  <2> QED BY <2>1 DEF Engaged, Inside, InBarrier
<1>6. ~Ready(0)
  <2>1. Ready(0) => Stage(0) # 2 * node_n[t] + 1
    <3>1. node_n[t] \in Int /\ node_n[0] \in Int
      BY ShapeAssumption, ThreadsFacts DEF IInv, TypeOK
    <3> QED BY <3>1 DEF Ready, Stage, InBarrier
  <2> QED BY <2>1, <1>1
<1>7. ClaimInv'
  <2>1. \A u \in Threads : Holds(u)' => chunk'[u] < current_chunk'
    BY <1>0, <1>2, <1>3, <1>4 DEF WInv, ClaimInv
  <2>2. \A u, v \in Threads : Holds(u)' /\ Holds(v)' /\ chunk'[u] = chunk'[v] => u = v
    <3>1. \A u \in Threads \ {t} : Holds(u) => chunk[u] # current_chunk
      BY <1>0 DEF WInv, ClaimInv
    <3> QED BY <3>1, <1>2, <1>3, <1>4 DEF WInv, ClaimInv
  <2>3. \A u \in Threads : Ready(u)' => chunk'[u] = u
    BY <1>2, <1>3, <1>4 DEF WInv, ClaimInv
  <2>4. ~Ready(0)'
    BY <1>3, <1>4, <1>6, ThreadsFacts
  <2>5. ASSUME NEW u \in Threads, Engaged(u)', OddStage(u)'
        PROVE  current_chunk' >= IF Holds(u)' THEN n_threads_cur' ELSE NChunks(n_threads_cur)'
    <3>1. CASE u = t
      BY <3>1, <1>0, <1>1, <1>2, <1>4
    <3>2. CASE u # t
      <4>1. Engaged(u) /\ OddStage(u)
        BY <3>2, <2>5, <1>3 DEF OddStage
      <4>2. current_chunk >= IF Holds(u) THEN n_threads_cur ELSE M
        BY <4>1 DEF WInv, ClaimInv
      <4> QED BY <4>2, <3>2, <1>0, <1>1, <1>2, <1>3
    <3> QED BY <3>1, <3>2
  <2> QED BY <2>1, <2>2, <2>3, <2>4, <2>5 DEF ClaimInv
<1>8. ASSUME NEW c \in Chunks
      PROVE  /\ c # chunk[t] => (HandedOut(c)' <=> HandedOut(c))
             /\ c = chunk[t] => ~HandedOut(c) /\ HandedOut(c)'
  <2>1. c \in Int
    BY DEF Chunks
  <2>2. CASE c = chunk[t]
    <3>1. \A u \in Threads \ {t} : Holds(u) => chunk[u] # c
      BY <2>2, <1>1 DEF WInv, ClaimInv
    <3>2. \A u \in Threads : Holds(u)' => chunk'[u] # c
      BY <2>2, <3>1, <1>0, <1>1, <1>2, <1>3, <1>4
    <3>3. c < current_chunk' /\ c < NChunks(n_threads_cur)'
      BY <2>2, <1>0, <1>1, <1>2
    <3> QED BY <2>2, <3>2, <3>3, <1>1 DEF HandedOut
  <2>3. CASE c # chunk[t]
    BY <2>1, <2>3, <1>0, <1>1, <1>2, <1>3, <1>4 DEF HandedOut
  <2> QED BY <2>2, <2>3
<1>9. \A k \in Nodes, c \in Chunks :
          done'[k][c] = IF k = node_n[t] /\ c = chunk[t] THEN done[k][c] + 1 ELSE done[k][c]
  BY <1>0, <1>1 DEF Compute
<1>10. ASSUME NEW k \in Nodes, NEW c \in Chunks
       PROVE  done'[k][c] = IF Due(k, c)' THEN 1 ELSE 0
  <2>0. k \in Int /\ node_n[t] \in Int
    BY <1>1 DEF Nodes
  <2>1. done[k][c] = IF Due(k, c) THEN 1 ELSE 0
    BY <1>1 DEF WInv, DoneInv
  <2>2. CASE k = node_n[t] /\ c = chunk[t]
    <3>1. ~Due(k, c) /\ Due(k, c)'
      BY <2>0, <2>2, <1>1, <1>5, <1>8 DEF Due
    <3> QED BY <2>1, <2>2, <3>1, <1>9
  <2>3. CASE k = node_n[t] /\ c # chunk[t]
    <3>1. Due(k, c)' <=> Due(k, c)
      BY <2>3, <1>2, <1>5, <1>8 DEF Due
    <3> QED BY <2>1, <2>3, <3>1, <1>9
  <2>4. CASE k # node_n[t]
    <3>1. 2 * k + 1 # Stage(0)
      BY <2>0, <2>4, <1>1
    <3>2. Due(k, c)' <=> Due(k, c)
      BY <3>1, <1>2, <1>5 DEF Due
    <3> QED BY <2>1, <2>4, <3>2, <1>9
  <2> QED BY <2>2, <2>3, <2>4
<1>11. DoneInv'
  BY <1>2, <1>5, <1>10 DEF WInv, DoneInv
<1> QED BY <1>7, <1>11 DEF WInv

(* The team passes a barrier: what was in front of it counts as done.      *)
LEMMA PassChunks ==
    ASSUME IInv, WInv, Engaged(0),
           UNCHANGED <<current_chunk, chunk, done, n_threads_cur>>,
           ec' = "success" => ec = "success" /\ abort' = abort,
           \A u \in Threads : ~Holds(u) /\ ~Ready(u)',
           \A u \in Threads : Holds(u)' => Ready(u),
           (\E u \in Threads : Holds(u)') => Ready(0) /\ \A u \in Threads : u < n_threads_cur => Holds(u)',
           \A u \in Threads : Engaged(u)' => Holds(u)' \/ ~OddStage(u)',
           pc'[0] \notin {"kickoff", "kickoff2"},
           NEW n \in 0 .. NNodes,
           \/ Stage(0) = 2 * n /\ n < NNodes /\ Engaged(0)' /\ Holds(0)' /\ Stage(0)' = 2 * n + 1
           \/ Stage(0) = 2 * n - 1 /\ n > 0 /\ Engaged(0)' /\ ~Holds(0)' /\ Stage(0)' = 2 * n
           \/ Stage(0) = LoopStage(n) /\ ~Engaged(0)' /\ node_n'[0] = n /\ ~Holds(0)'
    PROVE  WInv'
<1>0. /\ NNodes \in Nat /\ n \in Int /\ 0 \in Threads /\ n_threads_cur \in Nat /\ 0 < n_threads_cur
      /\ NChunks(n_threads_cur) \in Nat /\ n_threads_cur <= NChunks(n_threads_cur)
      /\ current_chunk \in Nat /\ Threads \subseteq Nat /\ ~Finished(0)
      /\ Nodes \subseteq Int /\ Chunks \subseteq Nat
  <2>1. NNodes \in Nat /\ n \in Int /\ Nodes \subseteq Int /\ Chunks \subseteq Nat
    BY ShapeAssumption DEF Nodes, Chunks
  <2>2. current_chunk \in Nat /\ ~Finished(0)
    BY DEF IInv, TypeOK, Engaged
  <2> QED BY <2>1, <2>2, ThreadsFacts, ChunksFacts
<1>1. ClaimInv'
  <2>1. \A u \in Threads : Holds(u)' => chunk[u] = u /\ u < n_threads_cur
    BY Together DEF WInv, ClaimInv, Ready, Inside
  <2>2. (\E u \in Threads : Holds(u)') => current_chunk = n_threads_cur
    BY DEF WInv, ClaimInv
  <2>3. \A u \in Threads : Holds(u)' => chunk'[u] < current_chunk'
    BY <2>1, <2>2
  <2>4. \A u, v \in Threads : Holds(u)' /\ Holds(v)' /\ chunk'[u] = chunk'[v] => u = v
    BY <2>1
  <2>5. ASSUME NEW u \in Threads, Engaged(u)', OddStage(u)'
        PROVE  current_chunk' >= IF Holds(u)' THEN n_threads_cur' ELSE NChunks(n_threads_cur)'
    BY <2>2, <2>5, <1>0
  <2> QED BY <2>3, <2>4, <2>5, <1>0 DEF ClaimInv
<1>2. ASSUME OddStage(0)
      PROVE  \A c \in Chunks : HandedOut(c) <=> c < NChunks(n_threads_cur)
  <2>1. current_chunk >= NChunks(n_threads_cur)
    BY <1>2, <1>0 DEF WInv, ClaimInv
  <2> QED BY <2>1, <1>0 DEF HandedOut
<1>3. ASSUME NEW k \in Nodes, NEW c \in Chunks
      PROVE  done[k][c] = IF Due(k, c) THEN 1 ELSE 0
  BY DEF WInv, DoneInv
<1>4. CASE Stage(0) = 2 * n /\ n < NNodes /\ Engaged(0)' /\ Holds(0)' /\ Stage(0)' = 2 * n + 1
  <2>1. ASSUME NEW k \in Nodes, NEW c \in Chunks PROVE Due(k, c)' <=> Due(k, c)
    <3>1. ~HandedOut(c)'
      <4>1. current_chunk = n_threads_cur /\ \A u \in Threads : u < n_threads_cur => Holds(u)' /\ chunk'[u] = u
        BY <1>0, <1>4 DEF WInv, ClaimInv
      <4>2. c < n_threads_cur => c \in Threads
        BY <1>0, SizeAssumption DEF Threads, IInv, TypeOK
      <4> QED BY <4>1, <4>2, <1>0 DEF HandedOut
    <3> QED BY <3>1, <1>0, <1>4 DEF Due
  <2>2. ~Finished(0)'
    BY <1>4 DEF Engaged
  <2>3. DoneInv'
    BY <2>1, <2>2, <1>3, <1>4 DEF WInv, DoneInv
  <2> QED BY <2>3, <1>1 DEF WInv
<1>5. CASE Stage(0) = 2 * n - 1 /\ n > 0 /\ Engaged(0)' /\ ~Holds(0)' /\ Stage(0)' = 2 * n
  <2>1. OddStage(0)
    <3>1. n - 1 \in Nodes /\ Stage(0) = 2 * (n - 1) + 1
      BY <1>0, <1>5 DEF Nodes
    <3> QED BY <3>1 DEF OddStage
  <2>2. ASSUME NEW k \in Nodes, NEW c \in Chunks PROVE Due(k, c)' <=> Due(k, c)
    <3>1. k \in Int /\ (HandedOut(c) <=> c < NChunks(n_threads_cur))
      BY <2>1, <1>0, <1>2
    <3> QED BY <3>1, <1>0, <1>5 DEF Due
  <2>3. ~Finished(0)'
    BY <1>5 DEF Engaged
  <2>4. DoneInv'
    BY <2>2, <2>3, <1>3, <1>5 DEF WInv, DoneInv
  <2> QED BY <2>4, <1>1 DEF WInv
<1>6. CASE Stage(0) = LoopStage(n) /\ ~Engaged(0)' /\ node_n'[0] = n /\ ~Holds(0)'
  <2>1. ASSUME NEW k \in Nodes, NEW c \in Chunks
        PROVE  Due(k, c) <=> k < n /\ c < NChunks(n_threads_cur)
    <3>1. CASE n = NNodes /\ n > 0
      <4>1. Stage(0) = 2 * n - 1
        BY <1>6, <3>1 DEF LoopStage
      <4>2. n - 1 \in Nodes /\ Stage(0) = 2 * (n - 1) + 1
        BY <4>1, <1>0, <3>1 DEF Nodes
      <4>3. OddStage(0)
        BY <4>2 DEF OddStage
      <4>4. k \in Int /\ k < n /\ (HandedOut(c) <=> c < NChunks(n_threads_cur))
        BY <4>3, <1>0, <1>2, <3>1 DEF Nodes
      <4> QED BY <4>1, <4>4, <1>0 DEF Due
    <3>2. CASE ~(n = NNodes /\ n > 0)
      <4>1. Stage(0) = 2 * n /\ k \in Int
        BY <1>0, <1>6, <3>2 DEF LoopStage
      <4> QED BY <4>1, <1>0 DEF Due
    <3> QED BY <3>1, <3>2
  <2>2. DoneInv'
    BY <2>1, <1>3, <1>6 DEF WInv, DoneInv
  <2> QED BY <2>2, <1>1 DEF WInv
<1> QED BY <1>4, <1>5, <1>6

LEMMA ReleaseChunks ==
    ASSUME IInv, WInv, NEW t \in Threads, B!BarrierRelease(t),
           UNCHANGED <<n_graph, stop, pause, state, work>>
    PROVE  WInv'
<1>0. /\ NNodes \in Nat /\ node_n \in [Threads -> 0 .. NNodes] /\ 0 \in Threads
      /\ after[t] \in {"chunks", "next", "end"} /\ node_n[t] \in Int
  BY ShapeAssumption, ThreadsFacts DEF IInv, TypeOK
<1> DEFINE Team == {u \in Threads : u < n_threads_cur}
<1>1. /\ pc[t] = "barrierRelease" /\ pc'[t] = after[t] /\ t \in Team
      /\ n_threads_cur' = n_threads_cur /\ after' = after /\ node_n' = node_n
      /\ n_barrier_passed' # n_barrier_passed /\ n_passed' = n_passed
      /\ UNCHANGED <<current_chunk, chunk, done, n_threads_cur>> /\ ec' = ec /\ abort' = abort
  BY ReleaseView DEF work
<1>2. \A u \in Threads \ {t} : /\ pc'[u] = pc[u] /\ (Inside(u)' <=> Inside(u))
                               /\ u \notin Team => ~Inside(u)
  BY ReleaseView
<1>3. \A u \in Team \ {t} : /\ pc[u] = "barrierWait" /\ pc'[u] = "barrierWait" /\ Behind(u)' /\ ~Behind(u)
                            /\ after[u] = after[t] /\ node_n[u] = node_n[t]
  BY ReleaseView
<1>4. Flow(t) /\ InBarrier(t) /\ ~Behind(t) /\ 0 \in Team /\ ~Behind(t)'
  <2>1. 0 < n_threads_cur
    BY TeamSize
  <2> QED BY <2>1, <1>0, <1>1, EngagedAt DEF InBarrier, Behind
<1>5. \A u \in Team : InBarrier(u) /\ ~Behind(u) /\ after[u] = after[t] /\ node_n[u] = node_n[t]
                      /\ pc[u] \in {"barrierRelease", "barrierWait"}
  BY <1>1, <1>3, <1>4 DEF InBarrier
<1>6. \A u \in Threads \ Team : ~Inside(u) /\ ~Inside(u)'
  BY <1>1, <1>2
<1>7. \A u \in Team : \/ pc'[u] = after[t] /\ ~InBarrier(u)' /\ ~Behind(u)'
                      \/ pc'[u] = "barrierWait" /\ Behind(u)' /\ InBarrier(u)'
  BY <1>0, <1>1, <1>3, <1>4 DEF InBarrier
<1>8. /\ \A u \in Threads : ~Holds(u) /\ ~Ready(u)'
      /\ \A u \in Threads : Holds(u)' => u \in Team /\ after[t] = "chunks"
      /\ after[t] = "chunks" => \A u \in Team : Holds(u)' /\ Ready(u)
  <2>1. \A u \in Team : ~Holds(u) /\ ~Ready(u)' /\ (Holds(u)' <=> after[t] = "chunks")
                        /\ (after[t] = "chunks" => Ready(u))
    BY <1>0, <1>1, <1>5, <1>7 DEF Holds, Ready
  <2>2. \A u \in Threads \ Team : ~Holds(u) /\ ~Ready(u)' /\ ~Holds(u)'
    BY <1>6 DEF Holds, Ready, Inside, InBarrier, Behind
  <2> QED BY <2>1, <2>2
<1>9. \A u \in Team : Engaged(u) /\ (Engaged(u)' <=> after[t] # "end")
  BY <1>0, <1>1, <1>5, <1>7 DEF Engaged, Inside, Finished, InBarrier
<1>10. \A u \in Threads \ Team : ~Engaged(u)'
  BY <1>6 DEF Engaged
<1>11. \A u \in Team : Stage(u) = CASE after[t] = "chunks" -> 2 * node_n[t]
                                    [] after[t] = "next"   -> 2 * node_n[t] + 1
                                    [] OTHER               -> LoopStage(node_n[t])
  BY <1>0, <1>5 DEF Stage, InBarrier, LoopStage
<1>12. after[t] = "next" => node_n[t] + 1 < NNodes /\ \A u \in Team : Stage(u)' = 2 * node_n[t] + 2
  <2>1. after[t] = "next" => node_n[t] + 1 < NNodes
    BY <1>4 DEF Flow
  <2> QED BY <2>1, <1>0, <1>1, <1>5, <1>7, SMTT(30) DEF Stage, LoopStage
<1>13. after[t] = "chunks" => node_n[t] < NNodes /\ \A u \in Team : Stage(u)' = 2 * node_n[t] + 1
  <2>1. after[t] = "chunks" => node_n[t] < NNodes
    BY <1>4 DEF Flow, InNode
  <2> QED BY <2>1, <1>0, <1>1, <1>5, <1>7 DEF Stage, LoopStage
<1>14. pc'[0] \notin {"kickoff", "kickoff2"}
  BY <1>0, <1>4, <1>7
<1>15. \A u \in Threads : Engaged(u)' => Holds(u)' \/ ~OddStage(u)'
  <2> SUFFICES ASSUME NEW u \in Threads, Engaged(u)', ~Holds(u)' PROVE ~OddStage(u)'
    OBVIOUS
  <2>1. u \in Team /\ after[t] = "next"
    BY <1>0, <1>8, <1>9, <1>10
  <2>2. Stage(u)' = 2 * node_n[t] + 2
    BY <2>1, <1>12
  <2> QED BY <2>2, <1>0 DEF OddStage, Nodes
<1>16. CASE after[t] = "chunks"
  <2>1. node_n[t] \in 0 .. NNodes
    BY <1>0
  <2>2. Stage(0) = 2 * node_n[t] /\ node_n[t] < NNodes /\ Engaged(0)' /\ Holds(0)'
        /\ Stage(0)' = 2 * node_n[t] + 1
    BY <1>16, <1>4, <1>8, <1>9, <1>11, <1>13
  <2> QED BY <2>1, <2>2, <1>1, <1>4, <1>8, <1>9, <1>14, <1>15, <1>16, PassChunks
<1>17. CASE after[t] = "next"
  <2>1. node_n[t] + 1 \in 0 .. NNodes
    BY <1>0, <1>12, <1>17
  <2>2. /\ Stage(0) = 2 * (node_n[t] + 1) - 1 /\ node_n[t] + 1 > 0 /\ Engaged(0)' /\ ~Holds(0)'
        /\ Stage(0)' = 2 * (node_n[t] + 1)
    BY <1>0, <1>17, <1>4, <1>8, <1>9, <1>11, <1>12
  <2> QED BY <2>1, <2>2, <1>1, <1>4, <1>8, <1>9, <1>14, <1>15, <1>17, PassChunks
<1>18. CASE after[t] = "end"
  <2>1. node_n[t] \in 0 .. NNodes
    BY <1>0
  <2>2. Stage(0) = LoopStage(node_n[t]) /\ ~Engaged(0)' /\ node_n'[0] = node_n[t] /\ ~Holds(0)'
    BY <1>18, <1>1, <1>4, <1>5, <1>8, <1>9, <1>11
  <2> QED BY <2>1, <2>2, <1>1, <1>4, <1>8, <1>9, <1>14, <1>15, <1>18, PassChunks
<1> QED BY <1>0, <1>16, <1>17, <1>18

(* The barriers that a single thread passes at once. *)
LEMMA SoloChunks ==
    ASSUME IInv, WInv, NEW t \in Threads, n_threads_cur = 1,
           \/ Loop(t) /\ Stops(t)
           \/ Callback(t) /\ node_n[t] + 1 < NNodes
    PROVE  WInv'
<1>0. /\ NNodes \in Nat /\ node_n \in [Threads -> 0 .. NNodes] /\ 0 \in Threads
      /\ pc \in [Threads -> Labels] /\ after \in [Threads -> {"chunks", "next", "end"}]
      /\ \A u \in Threads : u \in Nat
  BY ShapeAssumption, ThreadsFacts DEF IInv, TypeOK
<1>1. /\ pc[t] \in {"loop", "callback"} /\ Engaged(t) /\ t = 0 /\ Engaged(0) /\ ~Finished(0)
  <2>1. pc[t] \in {"loop", "callback"}
    BY DEF Loop, Callback
  <2>2. Engaged(t) /\ t < n_threads_cur
    BY <2>1, EngagedAt
  <2>3. t = 0
    BY <2>2, <1>0
  <2> QED BY <2>1, <2>2, <2>3 DEF Engaged
<1>2. /\ UNCHANGED <<current_chunk, chunk, done, n_threads_cur, n_barrier_passed>>
      /\ node_n' = node_n
      /\ ec' = "success" => ec = "success" /\ abort' = abort
      /\ \A u \in Threads \ {0} : Same(u)
      /\ \/ pc[0] = "loop" /\ pc'[0] = "end"
         \/ pc[0] = "callback" /\ pc'[0] = "next" /\ node_n[0] + 1 < NNodes
  BY <1>0, <1>1 DEF Loop, Callback, NodeBarrier, B!CallBarrier, B!Goto, pool, bar, work, Same
<1>3. \A u \in Threads \ {0} : ~Inside(u) /\ ~Inside(u)'
  <2>1. \A u \in Threads \ {0} : ~Inside(u)
    BY <1>0, Together
  <2> QED BY <2>1, <1>2, SameView
<1>4. ~Holds(0) /\ ~Holds(0)' /\ ~Ready(0)' /\ ~Ready(0) /\ pc'[0] \notin {"kickoff", "kickoff2"}
  BY <1>2 DEF Holds, Ready, InBarrier, Behind
<1>5. \A u \in Threads \ {0} : ~Holds(u) /\ ~Holds(u)' /\ ~Ready(u)' /\ ~Engaged(u)'
  BY <1>3 DEF Holds, Ready, Inside, InBarrier, Behind, Engaged
<1>6. CASE pc[0] = "loop" /\ pc'[0] = "end"
  <2>1. ~Engaged(0)' /\ Stage(0) = LoopStage(node_n[0]) /\ node_n'[0] = node_n[0]
    BY <1>2, <1>6 DEF Engaged, Finished, Stage
  <2> QED BY <2>1, <1>0, <1>1, <1>2, <1>4, <1>5, PassChunks
<1>7. CASE pc[0] = "callback" /\ pc'[0] = "next" /\ node_n[0] + 1 < NNodes
  <2>1. /\ node_n[0] \in Int /\ node_n[0] >= 0 /\ node_n[0] + 1 \in 0 .. NNodes
    BY <1>0, <1>7
  <2>2. /\ Engaged(0)' /\ Stage(0) = 2 * (node_n[0] + 1) - 1 /\ Stage(0)' = 2 * (node_n[0] + 1)
    BY <1>0, <1>2, <1>7, <2>1 DEF Engaged, Inside, Finished, Behind, Stage, LoopStage
  <2>3. ~OddStage(0)'
    BY <2>1, <2>2 DEF OddStage, Nodes
  <2> QED BY <2>1, <2>2, <2>3, <1>0, <1>1, <1>2, <1>4, <1>5, PassChunks
<1> QED BY <1>2, <1>6, <1>7

LEMMA InitWInv == Init => WInv
<1> SUFFICES ASSUME Init PROVE WInv
  OBVIOUS
<1>1. \A t \in Threads : pc[t] \in {"idle", "top"}
  BY DEF Init
<1>2. \A t \in Threads : ~Holds(t) /\ ~Ready(t) /\ ~Engaged(t) /\ ~Inside(t)
                         /\ pc[t] \notin {"kickoff", "kickoff2"}
  BY <1>1 DEF Holds, Ready, Engaged, Inside, InBarrier, Behind
<1> QED BY <1>2, ThreadsFacts DEF Init, WInv, ClaimInv, DoneInv

LEMMA NextWInv == IInv /\ IInv' /\ WInv /\ [Next]_vars => WInv'
<1> SUFFICES ASSUME IInv, IInv', WInv, [Next]_vars PROVE WInv'
  OBVIOUS
<1>1. CASE UNCHANGED vars
  BY <1>1 DEF vars, pool, state, bar, work, WInv, ClaimInv, DoneInv, Holds, Ready, Engaged, Inside,
              InBarrier, Behind, Finished, OddStage, Stage, Due, HandedOut
<1>2. CASE Call \/ InCall
  BY <1>2, CallChunks
<1>3. ASSUME NEW t \in Workers, Look(t)
      PROVE  WInv'
  BY <1>3, LookChunks
<1>4. ASSUME NEW t \in Threads, Barrier(t)
      PROVE  WInv'
  BY <1>4, BarrierChunks, ReleaseChunks DEF Barrier, B!Inside
<1>5. ASSUME NEW t \in Threads, ComputeThread(t)
      PROVE  WInv'
  <2>1. n_threads_cur > 1 \/ n_threads_cur = 1
    BY SizeAssumption DEF IInv, TypeOK
  <2> QED BY <1>5, <2>1, ControlChunks, SoloChunks, PrepareChunks, ComputeChunks, ChunksDoneChunks
             DEF ComputeThread
<1> QED BY <1>1, <1>2, <1>3, <1>4, <1>5 DEF Next, Step

(* When ggml_graph_compute returns, every chunk of every node in front of  *)
(* the one it stopped at has been computed exactly once, whatever the      *)
(* number of threads and chunks and whichever thread fetched which chunk;  *)
(* without an abort these are all nodes.                                   *)
THEOREM ComputesOnce == OneSize => (Spec => []ComputedOnce)
<1> SUFFICES ASSUME OneSize PROVE Spec => []ComputedOnce
  OBVIOUS
<1>1. IInv /\ WInv => ComputedOnce
  <2> SUFFICES ASSUME IInv, WInv, pc[0] = "end" PROVE
          /\ \A n \in Nodes, c \in Chunks :
                done[n][c] = IF n < node_n[0] /\ c < NChunks(nth[0]) THEN 1 ELSE 0
          /\ ec = "success" => node_n[0] = NNodes
    BY DEF ComputedOnce
  <2>1. Inside(0) /\ Finished(0) /\ AtEnd(0)
    BY DEF Inside, Finished, AtEnd
  <2>2. nth[0] = n_threads_cur /\ (node_n[0] = NNodes \/ abort = node_n[0])
    BY <2>1, ThreadsFacts DEF IInv, FlowInv, Flow
  <2>3. node_n[0] \in Nat
    BY ThreadsFacts, ShapeAssumption DEF IInv, TypeOK
  <2> QED BY <2>1, <2>2, <2>3 DEF WInv, DoneInv
<1>2. IInv /\ [Next]_vars => IInv'
  BY NextIInv
<1> QED BY <1>1, <1>2, InitIInv, InitWInv, NextWInv, PTL DEF Spec
=============================================================================
