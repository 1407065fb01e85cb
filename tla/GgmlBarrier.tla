----------------------------- MODULE GgmlBarrier -----------------------------
(***************************************************************************)
(* ggml_barrier (ggml/src/ggml-cpu/ggml-cpu.c, the build without OpenMP):  *)
(* a spinning barrier made of two atomic counters.  Every access to a      *)
(* counter that can interleave with a conflicting one is an action.        *)
(*                                                                         *)
(* A thread calls the barrier with CallBarrier, which names the label at   *)
(* which the thread goes on; module ThreadPool uses these actions for its  *)
(* threads.  Spec, below, is the barrier by itself: threads that do        *)
(* nothing but work and meet.                                              *)
(***************************************************************************)
EXTENDS Integers, FiniteSets

CONSTANTS
    Threads,    (* the threads that call the barrier      *)
    MaxRounds   (* bound: rounds of the barrier by itself *)

ASSUME ThreadsAssumption == IsFiniteSet(Threads)
ASSUME RoundsAssumption  == MaxRounds \in Nat

VARIABLES
    n_threads_cur, n_barrier, n_barrier_passed,  (* of the thread pool *)
    n_passed,   (* n_passed[t]: the local variable of ggml_barrier     *)
    pc, after   (* where thread t is, and where it goes on             *)

shared == <<n_threads_cur, n_barrier, n_barrier_passed>>
vars   == <<shared, n_passed, pc, after>>

Goto(t, l) == pc' = [pc EXCEPT ![t] = l]

(* n_threads is loaded first: a single thread does not wait. *)
CallBarrier(t, l) ==
    /\ Goto(t, IF n_threads_cur = 1 THEN l ELSE "barrier")
    /\ after' = [after EXCEPT ![t] = l]

BarrierRead(t) ==
    /\ pc[t] = "barrier"
    /\ n_passed' = [n_passed EXCEPT ![t] = n_barrier_passed]
    /\ Goto(t, "barrierAdd")
    /\ UNCHANGED <<shared, after>>

(* Whether the arriving thread is the last one, n_barrier having been n. *)
IsLast_OneEarly(n) == n = n_threads_cur - 2
IsLast(n) == n = n_threads_cur - 1

BarrierAdd(t) ==
    /\ pc[t] = "barrierAdd"
    /\ n_barrier' = n_barrier + 1
    /\ Goto(t, IF IsLast(n_barrier) THEN "barrierReset" ELSE "barrierWait")
    /\ UNCHANGED <<n_threads_cur, n_barrier_passed, n_passed, after>>

(* The last thread stores 0 first and lets the others pass afterwards. *)
BarrierReset_Skipped(t) ==
    /\ pc[t] = "barrierReset"
    /\ Goto(t, "barrierRelease")
    /\ UNCHANGED <<shared, n_passed, after>>
BarrierReset(t) ==
    /\ pc[t] = "barrierReset"
    /\ n_barrier' = 0
    /\ Goto(t, "barrierRelease")
    /\ UNCHANGED <<n_threads_cur, n_barrier_passed, n_passed, after>>

BarrierRelease(t) ==
    /\ pc[t] = "barrierRelease"
    /\ n_barrier_passed' = n_barrier_passed + 1
    /\ Goto(t, after[t])
    /\ UNCHANGED <<n_threads_cur, n_barrier, n_passed, after>>

BarrierWait_NotWaiting(t) ==
    /\ pc[t] = "barrierWait"
    /\ Goto(t, after[t])
    /\ UNCHANGED <<shared, n_passed, after>>
BarrierWait(t) ==
    /\ pc[t] = "barrierWait"
    /\ n_barrier_passed # n_passed[t]
    /\ Goto(t, after[t])
    /\ UNCHANGED <<shared, n_passed, after>>

Inside(t) ==
    \/ BarrierRead(t) \/ BarrierAdd(t) \/ BarrierReset(t)
    \/ BarrierRelease(t) \/ BarrierWait(t)

-----------------------------------------------------------------------------
(***************************************************************************)
(* The barrier by itself.                                                  *)
(***************************************************************************)
Init ==
    /\ n_threads_cur    = Cardinality(Threads)
    /\ n_barrier        = 0
    /\ n_barrier_passed = 0
    /\ n_passed = [t \in Threads |-> 0]
    /\ pc       = [t \in Threads |-> "work"]
    /\ after    = [t \in Threads |-> "work"]

Enter(t) ==
    /\ pc[t] = "work"
    /\ n_barrier_passed < MaxRounds
    /\ CallBarrier(t, "work")
    /\ UNCHANGED <<shared, n_passed>>

Next == \E t \in Threads : Enter(t) \/ Inside(t)

Spec == Init /\ [][Next]_vars

(* A thread inside the barrier keeps running; none is obliged to enter. *)
FairSpec == Spec /\ \A t \in Threads : WF_vars(Inside(t))

-----------------------------------------------------------------------------
Labels == {"work", "barrier", "barrierAdd", "barrierReset", "barrierRelease", "barrierWait"}

(* The counters keep their ranges: n_barrier never exceeds the number of threads. *)
TypeOK ==
    /\ n_threads_cur = Cardinality(Threads)
    /\ n_barrier \in 0 .. n_threads_cur
    /\ n_barrier_passed \in Nat
    /\ n_passed \in [Threads -> Nat]
    /\ pc    \in [Threads -> Labels]
    /\ after \in [Threads -> {"work"}]

(* The barrier implements the rendezvous.  A thread has arrived in the      *)
(* current round once its increment of n_barrier is done, and it has left   *)
(* a round when it goes on; the rounds are counted by n_barrier_passed.     *)
Arrived(t) ==
    CASE pc[t] = "barrierWait"                         -> n_passed[t] + 1
      [] pc[t] \in {"barrierReset", "barrierRelease"}  -> n_barrier_passed + 1
      [] OTHER                                         -> n_barrier_passed

Left(t) ==
    IF pc[t] \in {"barrierWait", "barrierReset", "barrierRelease"}
    THEN Arrived(t) - 1 ELSE Arrived(t)

R == INSTANCE Rendezvous WITH
        arrived <- [t \in Threads |-> Arrived(t)],
        left    <- [t \in Threads |-> Left(t)]

(* ggml_barrier implements the specification of a barrier: no thread passes *)
(* before every thread has arrived in the same round, although the counters *)
(* are reused at once by the threads that leave first.                      *)
MeetsRendezvous == R!Spec

(* Once every thread has arrived in a round, every thread leaves it, even   *)
(* if the first to leave arrive in the next round meanwhile.                *)
AllPass ==
    \A r \in 1 .. MaxRounds :
        (\A t \in Threads : Arrived(t) >= r) ~> (\A t \in Threads : Left(t) >= r)
=============================================================================
