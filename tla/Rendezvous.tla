----------------------------- MODULE Rendezvous -----------------------------
(***************************************************************************)
(* What a barrier promises its callers.  Threads meet in rounds: a thread  *)
(* that arrived in a round leaves it only when every thread has arrived.   *)
(***************************************************************************)
EXTENDS Integers

CONSTANT Threads

VARIABLES
    arrived,  (* arrived[t]: rounds in which t has arrived *)
    left      (* left[t]: rounds that t has left           *)

Init ==
    /\ arrived = [t \in Threads |-> 0]
    /\ left    = [t \in Threads |-> 0]

Arrive(t) ==
    /\ arrived[t] = left[t]
    /\ arrived' = [arrived EXCEPT ![t] = @ + 1]
    /\ UNCHANGED left

Leave(t) ==
    /\ left[t] < arrived[t]
    /\ \A u \in Threads : arrived[u] >= arrived[t]
    /\ left' = [left EXCEPT ![t] = @ + 1]
    /\ UNCHANGED arrived

Next == \E t \in Threads : Arrive(t) \/ Leave(t)

Spec == Init /\ [][Next]_<<arrived, left>>
=============================================================================
