----------------------------- MODULE ThreadPool -----------------------------
(***************************************************************************)
(* The CPU backend's thread pool (ggml/src/ggml-cpu/ggml-cpu.c, the build  *)
(* without OpenMP): the hybrid poll/sleep loop of the workers, the kickoff *)
(* of a graph, pause, resume and free, the spinning barrier, the loop over *)
(* the nodes of a graph with its abort callback, and the distribution of a *)
(* matrix multiplication over the threads in chunks.                       *)
(*                                                                         *)
(* Thread 0 is the caller of ggml_graph_compute; it computes too.  Every   *)
(* access to an atomic variable that can interleave with a conflicting one *)
(* is an action of its own, a critical section of the mutex is one action. *)
(* All atomics are taken to be sequentially consistent.                    *)
(*                                                                         *)
(* Every node is a matrix multiplication: it has a barrier inside, and its *)
(* chunks are the unit of work.  What a chunk computes is left out.        *)
(***************************************************************************)
EXTENDS Integers, FiniteSets

CONSTANTS
    MaxThreads,  (* n_threads_max: threads of the pool, the caller included *)
    Sizes,       (* the values of cplan->n_threads that callers use         *)
    NNodes,      (* cgraph->n_nodes                                         *)
    RawChunks,   (* nchunk0 * nchunk1 before the number of threads is seen  *)
    ChunkFactor, (* fewer than this many chunks per thread: one per thread  *)
    MaxGraphs,   (* bound: calls of ggml_graph_compute in a behaviour       *)
    CanPause,    (* whether the caller pauses the pool                      *)
    CanAbort     (* whether the abort callback ever returns true            *)

ASSUME SizeAssumption  == /\ MaxThreads \in Nat \ {0}
                          /\ Sizes \subseteq (Nat \ {0})
ASSUME ShapeAssumption == /\ NNodes \in Nat /\ RawChunks \in Nat \ {0}
                          /\ ChunkFactor \in Nat \ {0} /\ MaxGraphs \in Nat
ASSUME FlagAssumption  == CanPause \in BOOLEAN /\ CanAbort \in BOOLEAN

VARIABLES
    (* struct ggml_threadpool *)
    n_graph, n_barrier, n_barrier_passed, current_chunk,
    stop, pause, abort, ec, n_threads_cur,
    (* struct ggml_compute_state and the locals of each thread *)
    pc, last_graph, new_graph, nth, node_n, chunk, n_passed, after,
    (* history: how often each chunk of each node of this graph was computed *)
    done

pool   == <<n_graph, n_threads_cur, stop, pause>>
state  == <<last_graph, new_graph>>
bar    == <<n_barrier, n_barrier_passed, n_passed>>
work   == <<current_chunk, abort, ec, nth, node_n, chunk, done>>
vars   == <<pool, state, bar, work, pc, after>>

Threads == 0 .. MaxThreads - 1
Workers == Threads \ {0}
Nodes   == 0 .. NNodes - 1

Goto(t, l) == pc' = [pc EXCEPT ![t] = l]

(* The number of chunks that a node is cut into. *)
NChunks(n) == IF RawChunks < n * ChunkFactor THEN n ELSE RawChunks

Chunks == 0 .. RawChunks + MaxThreads - 1

(* What broadcasting the condition variable does to the sleeping threads:  *)
(* they go on after their wait, one with the mutex after the other.        *)
Broadcast_Lost == pc
Broadcast ==
    [t \in Threads |-> CASE pc[t] = "asleep"      -> "lock"
                         [] pc[t] = "pauseAsleep" -> "top"
                         [] OTHER                 -> pc[t]]

-----------------------------------------------------------------------------
(* ggml_threadpool_new_impl: the workers have been created. *)
Init ==
    /\ n_graph = 0 /\ n_barrier = 0 /\ n_barrier_passed = 0
    /\ current_chunk = 0 /\ stop = FALSE /\ abort = -1 /\ ec = "success"
    /\ pause \in (IF CanPause THEN BOOLEAN ELSE {FALSE})
    /\ n_threads_cur = MaxThreads
    /\ pc         = [t \in Threads |-> IF t = 0 THEN "idle" ELSE "top"]
    /\ last_graph = [t \in Threads |-> 0]
    /\ new_graph  = [t \in Threads |-> 0]
    /\ nth        = [t \in Threads |-> 0]
    /\ node_n     = [t \in Threads |-> 0]
    /\ chunk      = [t \in Threads |-> 0]
    /\ n_passed   = [t \in Threads |-> 0]
    /\ after      = [t \in Threads |-> "end"]
    /\ done       = [n \in Nodes |-> [c \in Chunks |-> 0]]

-----------------------------------------------------------------------------
(***************************************************************************)
(* The caller.                                                             *)
(***************************************************************************)

(* ggml_graph_compute up to the kickoff: the parameters are reset without  *)
(* the mutex.  cgraph and cplan are replaced here too; since every graph   *)
(* has the same shape only the history of the work shows it.               *)
GraphCompute ==
    /\ pc[0] = "idle"
    /\ n_graph < MaxGraphs
    /\ current_chunk' = 0
    /\ abort' = -1
    /\ ec'    = "success"
    /\ done'  = [n \in Nodes |-> [c \in Chunks |-> 0]]
    /\ Goto(0, "kickoff")
    /\ UNCHANGED <<pool, state, bar, nth, node_n, chunk, after>>

(* ggml_graph_compute_kickoff stores n_threads_cur and then n_graph, under *)
(* the mutex; a polling worker may look between the two stores.            *)
KickoffThreads ==
    /\ pc[0] = "kickoff"
    /\ \E n \in Sizes : n_threads_cur' = IF n > MaxThreads THEN MaxThreads ELSE n
    /\ Goto(0, "kickoff2")
    /\ UNCHANGED <<n_graph, stop, pause, state, bar, work, after>>

KickoffGraph ==
    /\ pc[0]    = "kickoff2"
    /\ n_graph' = n_graph + 1
    /\ pause'   = FALSE
    /\ pc'      = [Broadcast EXCEPT ![0] = "start"]
    /\ UNCHANGED <<n_threads_cur, stop, state, bar, work, after>>

(* ggml_threadpool_pause, ggml_threadpool_resume *)
Pause ==
    /\ CanPause
    /\ pc[0]  = "idle"
    /\ pause' = TRUE
    /\ pc'    = IF pause THEN pc ELSE Broadcast
    /\ UNCHANGED <<n_graph, n_threads_cur, stop, state, bar, work, after>>

Resume ==
    /\ CanPause
    /\ pc[0]  = "idle"
    /\ pause' = FALSE
    /\ pc'    = IF pause THEN Broadcast ELSE pc
    /\ UNCHANGED <<n_graph, n_threads_cur, stop, state, bar, work, after>>

(* ggml_threadpool_free: the critical section, and the joins. *)
Free ==
    /\ pc[0]  = "idle"
    /\ stop'  = TRUE
    /\ pause' = FALSE
    /\ pc'    = [Broadcast EXCEPT ![0] = "join"]
    /\ UNCHANGED <<n_graph, n_threads_cur, state, bar, work, after>>

FreeJoin ==
    /\ pc[0] = "join"
    /\ \A t \in Workers : pc[t] = "exit"
    /\ Goto(0, "freed")
    /\ UNCHANGED <<pool, state, bar, work, after>>

-----------------------------------------------------------------------------
(***************************************************************************)
(* ggml_graph_compute_secondary_thread.                                    *)
(***************************************************************************)

(* while (threadpool->pause), read without the mutex *)
Top(t) ==
    /\ pc[t] = "top"
    /\ Goto(t, IF pause THEN "pauseLock" ELSE "stopCheck")
    /\ UNCHANGED <<pool, state, bar, work, after>>

(* The caller holds the mutex from the first store of the kickoff to the   *)
(* last.                                                                   *)
MutexFree == pc[0] # "kickoff2"

(* the same condition again, under the mutex *)
PauseLock(t) ==
    /\ pc[t] = "pauseLock"
    /\ MutexFree
    /\ Goto(t, IF pause THEN "pauseAsleep" ELSE "top")
    /\ UNCHANGED <<pool, state, bar, work, after>>

StopCheck(t) ==
    /\ pc[t] = "stopCheck"
    /\ Goto(t, IF stop THEN "exit" ELSE "pollEnter")
    /\ UNCHANGED <<pool, state, bar, work, after>>

(* ggml_graph_compute_poll_for_work: unused threads do not poll. *)
Active(t, n) == t < n

PollEnter(t) ==
    /\ pc[t] = "pollEnter"
    /\ Goto(t, IF Active(t, n_threads_cur) THEN "poll" ELSE "lock")
    /\ UNCHANGED <<pool, state, bar, work, after>>

(* A round of polling, ggml_graph_compute_thread_ready without the mutex.  *)
(* stop, pause and n_graph are read in one step: the caller changes each   *)
(* of them only while it computes no graph.  If n_graph changed, whether   *)
(* this thread takes part is read from n_threads_cur in a later step.      *)
Poll(t) ==
    /\ pc[t] = "poll"
    /\ \/ /\ stop \/ pause
          /\ Goto(t, "lock")
          /\ UNCHANGED new_graph
       \/ /\ ~stop /\ ~pause
          /\ n_graph # last_graph[t]
          /\ new_graph' = [new_graph EXCEPT ![t] = n_graph]
          /\ Goto(t, "pollActive")
    /\ UNCHANGED <<pool, last_graph, bar, work, after>>

(* The rounds of polling are used up. *)
PollGiveUp(t) ==
    /\ pc[t] = "poll"
    /\ ~stop /\ ~pause /\ n_graph = last_graph[t]
    /\ Goto(t, "lock")
    /\ UNCHANGED <<pool, state, bar, work, after>>

PollActive(t) ==
    /\ pc[t] = "pollActive"
    /\ last_graph' = [last_graph EXCEPT ![t] = new_graph[t]]
    /\ Goto(t, IF Active(t, n_threads_cur) THEN "start" ELSE "poll")
    /\ UNCHANGED <<pool, new_graph, bar, work, after>>

(* ggml_graph_compute_check_for_work with the mutex: thread_ready in one   *)
(* step, and sleep if there is nothing to do.                              *)
SeenGraph_NotNoted(t) == last_graph[t]
SeenGraph(t) == n_graph

LockedReady(t) ==
    /\ pc[t] = "lock"
    /\ MutexFree
    /\ IF stop \/ pause
       THEN /\ Goto(t, "top")
            /\ UNCHANGED last_graph
       ELSE /\ last_graph' = [last_graph EXCEPT ![t] = SeenGraph(t)]
            /\ Goto(t, IF n_graph # last_graph[t] /\ Active(t, n_threads_cur)
                       THEN "start" ELSE "asleep")
    /\ UNCHANGED <<pool, new_graph, bar, work, after>>

-----------------------------------------------------------------------------
(***************************************************************************)
(* ggml_barrier, from module GgmlBarrier.                                  *)
(***************************************************************************)
B == INSTANCE GgmlBarrier WITH MaxRounds <- 0

Barrier(t) == B!Inside(t) /\ UNCHANGED <<n_graph, stop, pause, state, work>>

-----------------------------------------------------------------------------
(***************************************************************************)
(* ggml_graph_compute_thread.                                              *)
(***************************************************************************)
Start(t) ==
    /\ pc[t] = "start"
    /\ nth'    = [nth EXCEPT ![t] = n_threads_cur]
    /\ node_n' = [node_n EXCEPT ![t] = 0]
    /\ Goto(t, "loop")
    /\ UNCHANGED <<pool, state, bar, current_chunk, abort, ec, chunk, done, after>>

(* The loop's condition; without another node, the final barrier. *)
Stops(t) == node_n[t] >= NNodes \/ abort = node_n[t]

Loop(t) ==
    /\ pc[t] = "loop"
    /\ IF Stops(t) THEN B!CallBarrier(t, "end")
                   ELSE Goto(t, "prepare") /\ UNCHANGED after
    /\ UNCHANGED <<pool, state, bar, work>>

(* ggml_compute_forward_mul_mat: convert src1, then thread 0 sets the      *)
(* first chunk nobody begins with, then a barrier.                         *)
FirstUnclaimed_OffByOne(t) == nth[t] - 1
FirstUnclaimed(t) == nth[t]

Prepare(t) ==
    /\ pc[t] = "prepare"
    /\ current_chunk' = IF t = 0 THEN FirstUnclaimed(t) ELSE current_chunk
    /\ chunk' = [chunk EXCEPT ![t] = t]
    /\ B!CallBarrier(t, "chunks")
    /\ UNCHANGED <<pool, state, bar, abort, ec, nth, node_n, done>>

(* A round of the chunk loop: compute a chunk, fetch the next one. *)
Compute(t) ==
    /\ pc[t] = "chunks"
    /\ chunk[t] < NChunks(nth[t])
    /\ done' = [done EXCEPT ![node_n[t]][chunk[t]] = @ + 1]
    /\ IF nth[t] >= NChunks(nth[t])
       THEN /\ Goto(t, "callback")
            /\ UNCHANGED <<chunk, current_chunk>>
       ELSE /\ chunk' = [chunk EXCEPT ![t] = current_chunk]
            /\ current_chunk' = current_chunk + 1
            /\ UNCHANGED pc
    /\ UNCHANGED <<pool, state, bar, abort, ec, nth, node_n, after>>

ChunksDone(t) ==
    /\ pc[t] = "chunks"
    /\ chunk[t] >= NChunks(nth[t])
    /\ Goto(t, "callback")
    /\ UNCHANGED <<pool, state, bar, work, after>>

(* The abort callback, and the barrier between two nodes. *)
NodeBarrier_Missing(t) ==
    /\ Goto(t, "next")
    /\ UNCHANGED after
NodeBarrier(t) ==
    IF node_n[t] + 1 < NNodes
    THEN B!CallBarrier(t, "next")
    ELSE Goto(t, "next") /\ UNCHANGED after

Callback(t) ==
    /\ pc[t] = "callback"
    /\ \/ UNCHANGED <<abort, ec>>
       \/ /\ CanAbort /\ t = 0
          /\ abort' = node_n[t] + 1
          /\ ec'    = "aborted"
    /\ NodeBarrier(t)
    /\ UNCHANGED <<pool, state, bar, current_chunk, nth, node_n, chunk, done>>

NextNode(t) ==
    /\ pc[t] = "next"
    /\ node_n' = [node_n EXCEPT ![t] = @ + 1]
    /\ Goto(t, "loop")
    /\ UNCHANGED <<pool, state, bar, current_chunk, abort, ec, nth, chunk, done, after>>

(* Behind the final barrier: the caller returns, a worker looks for work. *)
End(t) ==
    /\ pc[t] = "end"
    /\ Goto(t, IF t = 0 THEN "idle" ELSE "top")
    /\ UNCHANGED <<pool, state, bar, work, after>>

-----------------------------------------------------------------------------
Call == GraphCompute \/ Pause \/ Resume \/ Free

InCall == KickoffThreads \/ KickoffGraph \/ FreeJoin

Look(t) ==
    \/ Top(t) \/ PauseLock(t) \/ StopCheck(t)
    \/ PollEnter(t) \/ Poll(t) \/ PollGiveUp(t) \/ PollActive(t) \/ LockedReady(t)

ComputeThread(t) ==
    \/ Start(t) \/ Loop(t) \/ Prepare(t) \/ Compute(t) \/ ChunksDone(t)
    \/ Callback(t) \/ NextNode(t) \/ End(t)

Step(t) ==
    \/ t \in Workers /\ Look(t)
    \/ Barrier(t)
    \/ ComputeThread(t)

Next == Call \/ InCall \/ \E t \in Threads : Step(t)

Spec == Init /\ [][Next]_vars

(* Every thread that can run is run; the caller need not call anything. *)
FairSpec ==
    /\ Spec
    /\ WF_vars(InCall)
    /\ \A t \in Threads : WF_vars(Step(t))

-----------------------------------------------------------------------------
Labels == {"idle", "kickoff", "kickoff2", "join", "freed", "top", "pauseLock", "pauseAsleep",
           "stopCheck", "pollEnter", "poll", "pollActive", "lock", "asleep", "exit",
           "barrier", "barrierAdd", "barrierReset", "barrierRelease", "barrierWait",
           "start", "loop", "prepare", "chunks", "callback", "next", "end"}

(* The pool's fields and the threads' locals keep their ranges; the barrier's *)
(* counter never exceeds the number of threads.                               *)
TypeOK ==
    /\ n_graph \in 0 .. MaxGraphs
    /\ n_barrier \in 0 .. MaxThreads
    /\ n_barrier_passed \in Nat
    /\ current_chunk \in Nat
    /\ stop \in BOOLEAN /\ pause \in BOOLEAN
    /\ abort \in -1 .. NNodes
    /\ ec \in {"success", "aborted"}
    /\ n_threads_cur \in 1 .. MaxThreads
    /\ pc         \in [Threads -> Labels]
    /\ last_graph \in [Threads -> 0 .. MaxGraphs]
    /\ new_graph  \in [Threads -> 0 .. MaxGraphs]
    /\ nth        \in [Threads -> 0 .. MaxThreads]
    /\ node_n     \in [Threads -> 0 .. NNodes]
    /\ chunk      \in [Threads -> Nat]
    /\ n_passed   \in [Threads -> Nat]
    /\ after      \in [Threads -> {"chunks", "next", "end"}]
    /\ done       \in [Nodes -> [Chunks -> Nat]]

(* A thread is inside ggml_graph_compute_thread and has not yet arrived at  *)
(* its final barrier.                                                       *)
Computing(t) ==
    \/ pc[t] \in {"start", "loop", "prepare", "chunks", "callback", "next"}
    \/ pc[t] \in {"barrier", "barrierAdd", "barrierReset", "barrierRelease", "barrierWait"}
       /\ after[t] # "end"

(* Threads that read and write tensors at the same time do so in the same   *)
(* phase of the same node: ggml_barrier keeps a node's conversion of src1   *)
(* from its chunks, and a node from the nodes before and after it.          *)
SamePhase ==
    \A t, u \in Threads :
        (pc[t] \in {"prepare", "chunks"} /\ pc[u] \in {"prepare", "chunks"})
            => (pc[t] = pc[u] /\ node_n[t] = node_n[u])

(* When ggml_graph_compute is about to return, every chunk of every node in *)
(* front of the one it stopped at has been computed exactly once, and no    *)
(* other chunk; and it stopped in front of the end only if it says so.      *)
ComputedOnce ==
    pc[0] = "end" =>
        /\ \A n \in Nodes, c \in Chunks :
              done[n][c] = IF n < node_n[0] /\ c < NChunks(nth[0]) THEN 1 ELSE 0
        /\ ec = "success" => node_n[0] = NNodes

(* A thread has been counted in the round of the barrier that is open.      *)
Met(t) == \/ pc[t] \in {"barrierReset", "barrierRelease"}
          \/ pc[t] = "barrierWait" /\ n_passed[t] = n_barrier_passed

(* An abort stops all threads in front of the same node: the threads that   *)
(* meet in a round of the barrier are at the same place of the same node,   *)
(* and nobody meets in the final barrier a thread that goes on computing.   *)
AbortTogether ==
    \A t, u \in Threads :
        Met(t) /\ Met(u) => after[t] = after[u] /\ node_n[t] = node_n[u]

(* "No worker threads should be accessing the parameters below at this      *)
(* stage": while the caller is outside of a graph, where it resets current  *)
(* chunk, abort, cgraph and cplan, no worker computes.                      *)
ResetAlone == pc[0] \in {"idle", "join", "freed"} => \A t \in Workers : ~Computing(t)

(* A call of ggml_graph_compute returns, and ggml_threadpool_free joins      *)
(* every worker, polling, asleep or paused.                                  *)
CallsReturn ==
    /\ (pc[0] = "kickoff") ~> (pc[0] = "idle")
    /\ (pc[0] = "join") ~> (pc[0] = "freed")
=============================================================================
