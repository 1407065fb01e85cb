------------------------- MODULE GgmlBarrierProofs -------------------------
(***************************************************************************)
(* ggml_barrier implements a rendezvous, for every number of threads and   *)
(* of rounds.                                                              *)
(*                                                                         *)
(* The counters are reused: threads that have left a round may already     *)
(* count in the next one while others still spin in the last one.  The     *)
(* invariant therefore says of every waiting thread in which of the two    *)
(* rounds it is, and that n_barrier counts the threads of the current one. *)
(***************************************************************************)
EXTENDS GgmlBarrier, FiniteSetTheorems, TLAPS

(* Threads that have arrived in the current round. *)
Present == {t \in Threads : \/ pc[t] \in {"barrierReset", "barrierRelease"}
                            \/ pc[t] = "barrierWait" /\ n_passed[t] = n_barrier_passed}

(* The other threads wait in the current round. *)
Gathered(t) ==
    \A u \in Threads \ {t} : pc[u] = "barrierWait" /\ n_passed[u] = n_barrier_passed

RoundInv ==
    \A t \in Threads :
        /\ pc[t] = "barrierAdd"  => n_passed[t] = n_barrier_passed
        /\ pc[t] = "barrierWait" => n_passed[t] \in {n_barrier_passed, n_barrier_passed - 1}
        /\ pc[t] \in {"barrierReset", "barrierRelease"} => Gathered(t)

CountInv ==
    n_barrier = IF \E t \in Threads : pc[t] = "barrierRelease"
                THEN 0 ELSE Cardinality(Present)

IInv == TypeOK /\ RoundInv /\ CountInv

-----------------------------------------------------------------------------
LEMMA InitIInv == Init => IInv
<1> SUFFICES ASSUME Init PROVE IInv
  OBVIOUS
<1>1. Cardinality(Threads) \in Nat
  BY ThreadsAssumption, FS_CardinalityType
<1>2. TypeOK
  BY <1>1 DEF Init, TypeOK, Labels
<1>3. Present = {}
  BY DEF Init, Present
<1>4. CountInv
  BY <1>3, FS_EmptySet DEF Init, CountInv
<1> QED BY <1>2, <1>4 DEF Init, IInv, RoundInv

(* Arriving changes the set of present threads by the thread itself.  The  *)
(* last to arrive finds all others waiting.                                *)
LEMMA AddStep ==
    ASSUME IInv, NEW t \in Threads, BarrierAdd(t)
    PROVE  IInv'
<1>1. /\ pc[t] = "barrierAdd" /\ n_passed[t] = n_barrier_passed
      /\ n_barrier' = n_barrier + 1 /\ n_barrier_passed' = n_barrier_passed
      /\ n_passed' = n_passed /\ n_threads_cur' = n_threads_cur /\ after' = after
      /\ pc' = [pc EXCEPT ![t] = IF n_barrier = n_threads_cur - 1 THEN "barrierReset" ELSE "barrierWait"]
      /\ pc \in [Threads -> Labels] /\ n_threads_cur = Cardinality(Threads)
      /\ n_barrier \in Nat /\ n_barrier_passed \in Nat
  BY DEF IInv, RoundInv, TypeOK, BarrierAdd, Goto, IsLast
<1>2. \A u \in Threads : pc[u] \notin {"barrierReset", "barrierRelease"}
  BY <1>1 DEF IInv, RoundInv, Gathered
<1>3. IsFiniteSet(Threads) /\ IsFiniteSet(Threads \ {t}) /\ IsFiniteSet(Present)
      /\ Present \subseteq Threads \ {t}
  BY ThreadsAssumption, FS_Subset, <1>1 DEF Present
<1>4. n_barrier = Cardinality(Present) /\ Cardinality(Present) \in Nat
      /\ Cardinality(Threads) \in Nat
      /\ Cardinality(Threads \ {t}) = Cardinality(Threads) - 1
      /\ Cardinality(Present) <= Cardinality(Threads \ {t})
  BY <1>2, <1>3, FS_CardinalityType, FS_RemoveElement, FS_Subset DEF IInv, CountInv
<1>5. Present' = Present \cup {t}
  BY <1>1 DEF Present, Labels
<1>6. Cardinality(Present') = n_barrier + 1
  BY <1>3, <1>4, <1>5, FS_AddElement
<1>7. CountInv'
  BY <1>1, <1>2, <1>6 DEF CountInv
<1>8. TypeOK'
  BY <1>1, <1>4 DEF IInv, TypeOK, Labels
<1>9. RoundInv'
  <2>1. CASE n_barrier = n_threads_cur - 1
    <3>1. Present = Threads \ {t}
      BY <2>1, <1>1, <1>3, <1>4, FS_Subset
    <3>2. Gathered(t)
      BY <3>1, <1>2 DEF Present, Gathered
    <3> QED BY <3>2, <2>1, <1>1, <1>2 DEF RoundInv, Gathered
  <2>2. CASE n_barrier # n_threads_cur - 1
    BY <2>2, <1>1, <1>2 DEF IInv, RoundInv
  <2> QED BY <2>1, <2>2
<1> QED BY <1>7, <1>8, <1>9 DEF IInv

(* Entering and reading n_barrier_passed leave the present threads alone. *)
LEMMA ApproachStep ==
    ASSUME IInv, NEW t \in Threads, Enter(t) \/ BarrierRead(t)
    PROVE  IInv'
<1>1. /\ pc[t] \in {"work", "barrier"} /\ n_barrier' = n_barrier
      /\ n_barrier_passed' = n_barrier_passed /\ n_threads_cur' = n_threads_cur
      /\ n_barrier_passed \in Nat
  BY DEF Enter, BarrierRead, shared, IInv, TypeOK
<1>2. /\ \A u \in Threads \ {t} : pc'[u] = pc[u] /\ n_passed'[u] = n_passed[u]
      /\ pc'[t] \in {"work", "barrier", "barrierAdd"}
      /\ pc'[t] = "barrierAdd" => n_passed'[t] = n_barrier_passed
      /\ pc' \in [Threads -> Labels] /\ n_passed' \in [Threads -> Nat]
      /\ after' \in [Threads -> {"work"}]
  BY <1>1 DEF Enter, BarrierRead, CallBarrier, Goto, IInv, TypeOK, Labels
<1>3. \A u \in Threads : pc[u] \notin {"barrierReset", "barrierRelease"}
  BY <1>1 DEF IInv, RoundInv, Gathered
<1>4. Present' = Present
  BY <1>1, <1>2 DEF Present
<1>5. TypeOK'
  BY <1>1, <1>2 DEF IInv, TypeOK
<1>6. RoundInv'
  BY <1>1, <1>2, <1>3 DEF IInv, RoundInv
<1>7. CountInv'
  BY <1>1, <1>2, <1>3, <1>4 DEF IInv, CountInv
<1> QED BY <1>5, <1>6, <1>7 DEF IInv

LEMMA ResetStep ==
    ASSUME IInv, NEW t \in Threads, BarrierReset(t)
    PROVE  IInv'
<1>1. /\ pc[t] = "barrierReset" /\ n_barrier' = 0 /\ pc' = [pc EXCEPT ![t] = "barrierRelease"]
      /\ n_barrier_passed' = n_barrier_passed /\ n_threads_cur' = n_threads_cur
      /\ n_passed' = n_passed /\ after' = after /\ pc \in [Threads -> Labels]
      /\ Gathered(t) /\ n_threads_cur \in Nat
  BY ThreadsAssumption, FS_CardinalityType DEF BarrierReset, Goto, IInv, TypeOK, RoundInv
<1>2. TypeOK'
  BY <1>1 DEF IInv, TypeOK, Labels
<1>3. RoundInv'
  BY <1>1 DEF IInv, RoundInv, Gathered
<1>4. CountInv'
  BY <1>1 DEF CountInv
<1> QED BY <1>2, <1>3, <1>4 DEF IInv

(* The round ends: all others wait in what is now the last round. *)
LEMMA ReleaseStep ==
    ASSUME IInv, NEW t \in Threads, BarrierRelease(t)
    PROVE  IInv'
<1>1. /\ pc[t] = "barrierRelease" /\ n_barrier' = n_barrier /\ pc' = [pc EXCEPT ![t] = "work"]
      /\ n_barrier_passed' = n_barrier_passed + 1 /\ n_threads_cur' = n_threads_cur
      /\ n_passed' = n_passed /\ after' = after /\ pc \in [Threads -> Labels]
      /\ Gathered(t) /\ n_barrier_passed \in Nat
  BY DEF BarrierRelease, Goto, IInv, TypeOK, RoundInv
<1>2. n_barrier = 0
  BY <1>1 DEF IInv, CountInv
<1>3. TypeOK'
  BY <1>1 DEF IInv, TypeOK, Labels
<1>4. \A u \in Threads \ {t} : pc'[u] = "barrierWait" /\ n_passed'[u] = n_barrier_passed' - 1
                               /\ n_passed'[u] # n_barrier_passed'
  BY <1>1 DEF Gathered
<1>5. RoundInv'
  BY <1>1, <1>4 DEF RoundInv
<1>6. Present' = {}
  BY <1>1, <1>4 DEF Present
<1>7. CountInv'
  BY <1>1, <1>2, <1>4, <1>6, FS_EmptySet DEF CountInv
<1> QED BY <1>3, <1>5, <1>7 DEF IInv

(* A thread that stops waiting was in the last round. *)
LEMMA WaitStep ==
    ASSUME IInv, NEW t \in Threads, BarrierWait(t)
    PROVE  IInv'
<1>1. /\ pc[t] = "barrierWait" /\ n_passed[t] # n_barrier_passed
      /\ n_barrier' = n_barrier /\ pc' = [pc EXCEPT ![t] = "work"]
      /\ n_barrier_passed' = n_barrier_passed /\ n_threads_cur' = n_threads_cur
      /\ n_passed' = n_passed /\ after' = after /\ pc \in [Threads -> Labels]
  BY DEF BarrierWait, shared, Goto, IInv, TypeOK
<1>2. \A u \in Threads : pc[u] \notin {"barrierReset", "barrierRelease"}
  BY <1>1 DEF IInv, RoundInv, Gathered
<1>3. Present' = Present
  BY <1>1 DEF Present
<1>4. TypeOK'
  BY <1>1 DEF IInv, TypeOK, Labels
<1>5. RoundInv'
  BY <1>1, <1>2 DEF IInv, RoundInv
<1>6. CountInv'
  BY <1>1, <1>2, <1>3 DEF IInv, CountInv
<1> QED BY <1>4, <1>5, <1>6 DEF IInv

LEMMA NextIInv == IInv /\ [Next]_vars => IInv'
<1> SUFFICES ASSUME IInv, [Next]_vars PROVE IInv'
  OBVIOUS
<1>1. CASE UNCHANGED vars
  BY <1>1 DEF vars, shared, IInv, TypeOK, RoundInv, CountInv, Present, Gathered
<1>2. ASSUME NEW t \in Threads, Enter(t) \/ Inside(t)
      PROVE  IInv'
  BY <1>2, ApproachStep, AddStep, ResetStep, ReleaseStep, WaitStep DEF Inside
<1> QED BY <1>1, <1>2 DEF Next

THEOREM Invariance == Spec => []IInv
BY InitIInv, NextIInv, PTL DEF Spec

(* Type correctness of the barrier: n_barrier never exceeds the number of  *)
(* threads, although it is reset while threads of the last round still     *)
(* spin.                                                                   *)
THEOREM TypeCorrect == Spec => []TypeOK
<1>1. IInv => TypeOK
  BY DEF IInv
<1> QED BY <1>1, Invariance, PTL

-----------------------------------------------------------------------------
(***************************************************************************)
(* Refinement.                                                             *)
(***************************************************************************)
LEMMA InitRefines == Init => R!Init
<1> SUFFICES ASSUME Init PROVE R!Init
  OBVIOUS
<1>1. \A t \in Threads : Arrived(t) = 0 /\ Left(t) = 0
  BY DEF Init, Arrived, Left
<1> QED BY <1>1 DEF R!Init

(* Seen by the rendezvous, a step changes only what it does to thread t:   *)
(* nothing, an arrival, or a departure.                                    *)
LEMMA StepRefines ==
    ASSUME IInv, NEW t \in Threads, Enter(t) \/ Inside(t)
    PROVE  \/ R!Arrive(t)
           \/ R!Leave(t)
           \/ \A u \in Threads : Arrived(u)' = Arrived(u) /\ Left(u)' = Left(u)
<1>0. n_barrier_passed \in Nat /\ n_passed \in [Threads -> Nat] /\ pc \in [Threads -> Labels]
  BY DEF IInv, TypeOK
<1>1. CASE Enter(t) \/ BarrierRead(t)
  <2>1. /\ n_barrier_passed' = n_barrier_passed
        /\ \A u \in Threads \ {t} : pc'[u] = pc[u] /\ n_passed'[u] = n_passed[u]
        /\ pc[t] \in {"work", "barrier"} /\ pc'[t] \in {"work", "barrier", "barrierAdd"}
    BY <1>0, <1>1 DEF Enter, BarrierRead, CallBarrier, Goto, shared
  <2>2. \A u \in Threads : Arrived(u)' = Arrived(u) /\ Left(u)' = Left(u)
    BY <2>1 DEF Arrived, Left
  <2> QED BY <2>2
<1>2. CASE BarrierAdd(t)
  <2>1. /\ n_barrier_passed' = n_barrier_passed /\ n_passed' = n_passed
        /\ \A u \in Threads \ {t} : pc'[u] = pc[u]
        /\ pc[t] = "barrierAdd" /\ pc'[t] \in {"barrierReset", "barrierWait"}
        /\ n_passed[t] = n_barrier_passed
    BY <1>0, <1>2 DEF BarrierAdd, Goto, IInv, RoundInv
  <2>2. \A u \in Threads \ {t} : Arrived(u)' = Arrived(u) /\ Left(u)' = Left(u)
    BY <2>1 DEF Arrived, Left
  <2>3. /\ Arrived(t) = n_barrier_passed /\ Left(t) = n_barrier_passed
        /\ Arrived(t)' = n_barrier_passed + 1 /\ Left(t)' = n_barrier_passed
    BY <1>0, <2>1 DEF Arrived, Left
  <2> QED BY <2>2, <2>3 DEF R!Arrive
<1>3. CASE BarrierReset(t)
  <2>1. /\ n_barrier_passed' = n_barrier_passed /\ n_passed' = n_passed
        /\ \A u \in Threads \ {t} : pc'[u] = pc[u]
        /\ pc[t] = "barrierReset" /\ pc'[t] = "barrierRelease"
    BY <1>0, <1>3 DEF BarrierReset, Goto
  <2>2. \A u \in Threads : Arrived(u)' = Arrived(u) /\ Left(u)' = Left(u)
    BY <2>1 DEF Arrived, Left
  <2> QED BY <2>2
<1>4. CASE BarrierRelease(t)
  <2>1. /\ n_barrier_passed' = n_barrier_passed + 1 /\ n_passed' = n_passed
        /\ \A u \in Threads \ {t} : /\ pc'[u] = "barrierWait" /\ pc[u] = "barrierWait"
                                    /\ n_passed[u] = n_barrier_passed
        /\ pc[t] = "barrierRelease" /\ pc'[t] = "work"
    BY <1>0, <1>4 DEF BarrierRelease, Goto, IInv, TypeOK, RoundInv, Gathered
  <2>2. \A u \in Threads \ {t} : /\ Arrived(u)' = Arrived(u) /\ Left(u)' = Left(u)
                                 /\ Arrived(u) = n_barrier_passed + 1
    BY <2>1 DEF Arrived, Left
  <2>3. /\ Arrived(t) = n_barrier_passed + 1 /\ Left(t) = n_barrier_passed
        /\ Arrived(t)' = n_barrier_passed + 1 /\ Left(t)' = n_barrier_passed + 1
    BY <1>0, <2>1 DEF Arrived, Left
  <2>4. \A u \in Threads : Arrived(u) = n_barrier_passed + 1
    BY <2>2, <2>3
  <2>5. [u \in Threads |-> Arrived(u)]' = [u \in Threads |-> Arrived(u)]
    BY <2>2, <2>3
  <2>6. [u \in Threads |-> Left(u)]' =
            [[u \in Threads |-> Left(u)] EXCEPT ![t] = [u \in Threads |-> Left(u)][t] + 1]
    BY <1>0, <2>2, <2>3
  <2>7. /\ [u \in Threads |-> Left(u)][t] < [u \in Threads |-> Arrived(u)][t]
        /\ \A v \in Threads : [u \in Threads |-> Arrived(u)][v] >= [u \in Threads |-> Arrived(u)][t]
    BY <1>0, <2>3, <2>4
  <2> QED BY <2>5, <2>6, <2>7 DEF R!Leave
<1>5. CASE BarrierWait(t)
  <2>1. /\ n_barrier_passed' = n_barrier_passed /\ n_passed' = n_passed
        /\ \A u \in Threads \ {t} : pc'[u] = pc[u]
        /\ pc[t] = "barrierWait" /\ pc'[t] = "work"
        /\ n_passed[t] = n_barrier_passed - 1
    BY <1>0, <1>5 DEF BarrierWait, shared, Goto, IInv, TypeOK, RoundInv
  <2>2. \A u \in Threads \ {t} : Arrived(u)' = Arrived(u) /\ Left(u)' = Left(u)
    BY <2>1 DEF Arrived, Left
  <2>3. /\ Arrived(t) = n_barrier_passed /\ Left(t) = n_barrier_passed - 1
        /\ Arrived(t)' = n_barrier_passed /\ Left(t)' = n_barrier_passed
    BY <1>0, <2>1 DEF Arrived, Left
  <2>4. \A u \in Threads : Arrived(u) \in Int /\ Arrived(u) >= n_barrier_passed
    BY <1>0 DEF Arrived, IInv, RoundInv
  <2>5. [u \in Threads |-> Arrived(u)]' = [u \in Threads |-> Arrived(u)]
    BY <2>2, <2>3
  <2>6. [u \in Threads |-> Left(u)]' =
            [[u \in Threads |-> Left(u)] EXCEPT ![t] = [u \in Threads |-> Left(u)][t] + 1]
    <3>1. Left(t)' = Left(t) + 1
      BY <1>0, <2>3
    <3> QED BY <2>2, <3>1
  <2>7. /\ [u \in Threads |-> Left(u)][t] < [u \in Threads |-> Arrived(u)][t]
        /\ \A v \in Threads : [u \in Threads |-> Arrived(u)][v] >= [u \in Threads |-> Arrived(u)][t]
    BY <1>0, <2>3, <2>4
  <2> QED BY <2>5, <2>6, <2>7 DEF R!Leave
<1> QED BY <1>1, <1>2, <1>3, <1>4, <1>5 DEF Inside

LEMMA NextRefines ==
    IInv /\ [Next]_vars
      => [R!Next]_<<[t \in Threads |-> Arrived(t)], [t \in Threads |-> Left(t)]>>
<1> SUFFICES ASSUME IInv, [Next]_vars
             PROVE  [R!Next]_<<[t \in Threads |-> Arrived(t)], [t \in Threads |-> Left(t)]>>
  OBVIOUS
<1>1. CASE UNCHANGED vars
  BY <1>1 DEF vars, shared, Arrived, Left
<1>2. ASSUME NEW t \in Threads, Enter(t) \/ Inside(t)
      PROVE  [R!Next]_<<[u \in Threads |-> Arrived(u)], [u \in Threads |-> Left(u)]>>
  BY <1>2, StepRefines DEF R!Next
<1> QED BY <1>1, <1>2 DEF Next

(* ggml_barrier implements the rendezvous: no thread leaves a round in     *)
(* which some thread has not arrived, for every number of threads.         *)
THEOREM Refinement == Spec => MeetsRendezvous
BY InitRefines, NextRefines, Invariance, PTL DEF Spec, MeetsRendezvous, R!Spec
=============================================================================
