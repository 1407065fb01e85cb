------------------------- MODULE ServerQueueProofs -------------------------
(***************************************************************************)
(* Proofs about ServerQueue: for any clients, requests, slots and tasks    *)
(* the moves of a task between the queue, the deferred tasks and the slots *)
(* neither lose nor double it, a task is answered at most once and leaves  *)
(* no result behind, and a slot works for a client that has cancelled only *)
(* until the cancellation is taken from the queue.                         *)
(***************************************************************************)
EXTENDS ServerQueue, FiniteSetTheorems, SequenceTheorems, TLAPS

(* x is at most once in q. *)
Once(q, x) == \A i, j \in 1 .. Len(q) : q[i] = x /\ q[j] = x => i = j

(* x is at most once in the two sequences together. *)
OnceInBoth(q, d, x) ==
    /\ Once(q, x) /\ Once(d, x)
    /\ ~(Contains(q, x) /\ Contains(d, x))

Runs(s, t) == busy[s] /\ id_task[s] = t
Running(t) == \E s \in Slots : Runs(s, t)
Present(t) == Pending(t) \/ InHand(t) \/ Running(t)

(* A task is in one place only. *)
PlaceInv ==
    \A t \in Tasks :
        /\ OnceInBoth(queue, deferred, Work(t))
        /\ \A r, s \in Slots : Runs(r, t) /\ Runs(s, t) => r = s
        /\ ~(Pending(t) /\ InHand(t))
        /\ ~(Pending(t) /\ Running(t))
        /\ ~(InHand(t) /\ Running(t))

(* Only the tasks of a request are posted, and waited for; cancel_tasks     *)
(* has removed those that are not left.                                     *)
OwnerInv ==
    \A t \in Tasks :
        /\ Present(t) => /\ t \in TasksOf(Owner(t))
                         /\ pc[Owner(t)] \notin {"new", "post"}
        /\ t \in waiting => /\ t \in TasksOf(Owner(t))
                            /\ pc[Owner(t)] \notin {"new", "gone"}
                            /\ pc[Owner(t)] = "cancel" => t \in left[Owner(t)]

(* A task that is waited for and has not been answered is there. *)
KeptInv ==
    \A t \in Tasks :
        Receiving(Owner(t)) /\ t \in waiting /\ finals[t] = 0 => Present(t)

(* A slot that is processing has a task, and the slots of the batch are     *)
(* processing.                                                              *)
SlotInv ==
    /\ \A s \in Slots : busy[s] => id_task[s] \in Tasks
    /\ main = "slots" => \A s \in batch : busy[s]

(* A cancelled task that was not pending runs only as long as its           *)
(* cancellation is on its way.                                              *)
CancelInv ==
    \A t \in Tasks \ ghosts :
        pc[Owner(t)] = "gone" =>
            /\ ~Pending(t) /\ ~InHand(t)
            /\ Running(t) => \/ Contains(queue, Cancel(t))
                             \/ main = "process" /\ cur = Cancel(t)

(* Only the tasks of a client that has left are cancelled. *)
Cancelling(t) ==
    \/ Contains(queue, Cancel(t)) \/ Contains(deferred, Cancel(t))
    \/ main = "process" /\ cur = Cancel(t)
GoneInv == \A t \in Tasks : Cancelling(t) => pc[Owner(t)] \in {"gone", "dead"}

Inv == /\ TypeOK /\ PlaceInv /\ OwnerInv /\ KeptInv /\ SlotInv /\ CancelInv
       /\ GoneInv

(* The answers, as long as no decode has failed. *)
Ends(r, t) == r.id = t /\ r.type # "partial"
Answering(t) == \E i \in 1 .. Len(results) : Ends(results[i], t)
Received(t) == finals[t] = 1 /\ ~Answering(t)

(* A task that has been answered is gone, and its answer is the last of its *)
(* results.                                                                 *)
AnswerInv ==
    \A t \in Tasks :
        /\ finals[t] \in {0, 1}
        /\ finals[t] = 1 => ~Present(t) /\ pc[Owner(t)] \notin {"new", "post"}
        /\ Answering(t) => finals[t] = 1
        /\ Received(t) => \A i \in 1 .. Len(results) : results[i].id # t

ResultInv ==
    /\ \A i \in 1 .. Len(results) : results[i].id \in waiting
    /\ \A i, j \in 1 .. Len(results) :
          i < j /\ results[i].id = results[j].id => results[i].type = "partial"

(* A handler counts the tasks whose answer it has received. *)
Got(c) == {t \in TasksOf(c) : Received(t)}
HasLeft(c) == pc[c] \in {"cancel", "gone", "dead"}
FinishInv ==
    \A c \in Clients :
        /\ ~HasLeft(c) => finished[c] = Cardinality(Got(c))
        /\ pc[c] \in {"finish", "done"} => finished[c] = req[c].n
        /\ left[c] \subseteq TasksOf(c)

Answers == AnswerInv /\ ResultInv /\ FinishInv
AnsInv == fails = 0 => Answers

IInv == Inv /\ AnsInv

-----------------------------------------------------------------------------
(***************************************************************************)
(* Sequences.                                                              *)
(***************************************************************************)

(* The elements at a set of indexes are in the order of the indexes, and    *)
(* none is left out.                                                        *)
LEMMA AtIndexes ==
    ASSUME NEW X, NEW q \in Seq(X), NEW I \in SUBSET (1 .. Len(q))
    PROVE  /\ Cardinality(I) \in Nat
           /\ \E e \in [1 .. Cardinality(I) -> I] :
                 /\ \A k, l \in 1 .. Cardinality(I) : k < l => e[k] < e[l]
                 /\ \A i \in I : \E k \in 1 .. Cardinality(I) : e[k] = i
                 /\ At(q, I) = [k \in 1 .. Cardinality(I) |-> q[e[k]]]
  <1> DEFINE P(i) == {j \in I : j <= i}
             rank == [i \in I |-> Cardinality(P(i))]
             e == [k \in 1 .. Cardinality(I) |-> Nth(I, k)]
  <1>0. \A i \in I : i \in Int
    OBVIOUS
  <1>1. IsFiniteSet(I) /\ Cardinality(I) \in Nat
    <2>1. IsFiniteSet(1 .. Len(q))
      BY FS_Interval
    <2>2. IsFiniteSet(I)
      BY <2>1, FS_Subset
    <2> QED  BY <2>2, FS_CardinalityType
  <1>2. \A i \in I : /\ IsFiniteSet(P(i)) /\ Cardinality(P(i)) \in 1 .. Cardinality(I)
    <2> TAKE i \in I
    <2>1. P(i) \in SUBSET I  OBVIOUS
    <2>2. i \in P(i)  OBVIOUS
    <2>3. IsFiniteSet(P(i)) /\ Cardinality(P(i)) <= Cardinality(I)
      BY <1>1, <2>1, FS_Subset
    <2>4. Cardinality(P(i)) \in Nat
      BY <2>3, FS_CardinalityType
    <2>5. Cardinality(P(i)) # 0
      BY <2>2, <2>3, FS_EmptySet
    <2> HIDE DEF P
    <2> QED  BY <1>1, <2>3, <2>4, <2>5
  <1>3. \A i, j \in I : i < j => Cardinality(P(i)) < Cardinality(P(j))
    <2> SUFFICES ASSUME NEW i \in I, NEW j \in I, i < j
                 PROVE  Cardinality(P(i)) < Cardinality(P(j))
      OBVIOUS
    <2>1. \A k \in I : k <= i => k <= j  BY <1>0
    <2>2. P(i) \in SUBSET P(j)  BY <2>1
    <2>3. j \in P(j) /\ j \notin P(i)  BY <1>0
    <2>4. P(i) # P(j)  BY <2>3
    <2>5. /\ Cardinality(P(i)) <= Cardinality(P(j))
          /\ Cardinality(P(j)) # Cardinality(P(i))
      BY <1>2, <2>2, <2>4, FS_Subset
    <2> HIDE DEF P
    <2> QED  BY <1>2, <2>5
  <1>4. rank \in [I -> 1 .. Cardinality(I)]
    BY <1>2
  <1>5. \A i, j \in I : rank[i] = rank[j] => i = j
    <2> SUFFICES ASSUME NEW i \in I, NEW j \in I, rank[i] = rank[j]
                 PROVE  i = j
      OBVIOUS
    <2>1. i < j \/ j < i \/ i = j  OBVIOUS
    <2>2. Cardinality(P(i)) = Cardinality(P(j)) /\ Cardinality(P(i)) \in 1 .. Cardinality(I)
      BY <1>2
    <2> HIDE DEF P
    <2> QED  BY <1>1, <1>3, <2>1, <2>2
  <1> HIDE DEF rank
  <1>6. rank \in Injection(I, 1 .. Cardinality(I))
    BY <1>4, <1>5 DEF Injection, IsInjective
  <1>7. /\ IsFiniteSet(1 .. Cardinality(I))
        /\ Cardinality(1 .. Cardinality(I)) = Cardinality(I)
    BY <1>1, FS_Interval
  <1>8. rank \in Surjection(I, 1 .. Cardinality(I))
    BY <1>6, <1>7, FS_Injection
  <1>9. \A k \in 1 .. Cardinality(I) : \E i \in I : rank[i] = k
    BY <1>8 DEF Surjection
  <1>10. \A k \in 1 .. Cardinality(I) : \E i \in I : Cardinality(P(i)) = k
    BY <1>9 DEF rank
  <1> HIDE DEF P
  <1>11. \A k \in 1 .. Cardinality(I) : e[k] \in I /\ Cardinality(P(e[k])) = k
    BY <1>10 DEF Nth, P
  <1>12. \A i \in I : \E k \in 1 .. Cardinality(I) : e[k] = i
    <2> TAKE i \in I
    <2>1. /\ Cardinality(P(i)) \in 1 .. Cardinality(I)
          /\ Cardinality(P(e[Cardinality(P(i))])) = Cardinality(P(i))
          /\ e[Cardinality(P(i))] \in I
      BY <1>2, <1>11
    <2>2. e[Cardinality(P(i))] = i
      BY <1>5, <2>1 DEF rank
    <2> QED  BY <2>1, <2>2
  <1>13. \A k, l \in 1 .. Cardinality(I) : k < l => e[k] < e[l]
    <2> SUFFICES ASSUME NEW k \in 1 .. Cardinality(I), NEW l \in 1 .. Cardinality(I),
                        k < l, ~(e[k] < e[l])
                 PROVE  FALSE
      OBVIOUS
    <2>1. /\ e[k] \in I /\ Cardinality(P(e[k])) = k
          /\ e[l] \in I /\ Cardinality(P(e[l])) = l
      BY <1>11
    <2> HIDE DEF e
    <2>2. e[k] \in Int /\ e[l] \in Int
      BY <1>0, <2>1
    <2>3. e[l] < e[k] \/ e[l] = e[k]
      BY <2>2
    <2>4. CASE e[l] = e[k]
      BY <1>1, <2>1, <2>4
    <2>5. CASE e[l] < e[k]
      <3>1. l < k
        BY <1>3, <2>1, <2>5
      <3> QED  BY <1>1, <3>1
    <2> QED  BY <2>3, <2>4, <2>5
  <1>14. e \in [1 .. Cardinality(I) -> I]
    BY <1>11
  <1>15. At(q, I) = [k \in 1 .. Cardinality(I) |-> q[e[k]]]
    BY DEF At
  <1> HIDE DEF e
  <1> QED  BY <1>1, <1>12, <1>13, <1>14, <1>15

LEMMA AtFacts ==
    ASSUME NEW X, NEW q \in Seq(X), NEW I \in SUBSET (1 .. Len(q))
    PROVE  /\ At(q, I) \in Seq(X)
           /\ \A k \in 1 .. Len(At(q, I)) : \E i \in I : At(q, I)[k] = q[i]
           /\ \A i \in I : \E k \in 1 .. Len(At(q, I)) : At(q, I)[k] = q[i]
           /\ \A x : Once(q, x) => Once(At(q, I), x)
           /\ \A k, l \in 1 .. Len(At(q, I)) : k < l =>
                 \E i, j \in I : /\ i < j
                                 /\ At(q, I)[k] = q[i] /\ At(q, I)[l] = q[j]
  <1> DEFINE n == Cardinality(I)
             a == At(q, I)
  <1>1. /\ n \in Nat
        /\ \E e \in [1 .. n -> I] :
              /\ \A k, l \in 1 .. n : k < l => e[k] < e[l]
              /\ \A i \in I : \E k \in 1 .. n : e[k] = i
              /\ a = [k \in 1 .. n |-> q[e[k]]]
    BY AtIndexes
  <1> HIDE DEF n, a
  <1>2. PICK e \in [1 .. n -> I] :
              /\ \A k, l \in 1 .. n : k < l => e[k] < e[l]
              /\ \A i \in I : \E k \in 1 .. n : e[k] = i
              /\ a = [k \in 1 .. n |-> q[e[k]]]
    BY <1>1
  <1>3. \A k \in 1 .. n : e[k] \in I /\ a[k] = q[e[k]] /\ q[e[k]] \in X
    <2>1. \A i \in I : q[i] \in X
      OBVIOUS
    <2>2. \A k \in 1 .. n : e[k] \in I
      BY <1>2
    <2> QED  BY <1>2, <2>1, <2>2
  <1>4. a \in [1 .. n -> X]
    BY <1>2, <1>3
  <1>5. a \in Seq(X) /\ Len(a) = n
    BY <1>1, <1>4
  <1>6. \A i \in I : \E k \in 1 .. n : a[k] = q[i]
    BY <1>2, <1>3
  <1>7. \A k, l \in 1 .. n : k # l => e[k] # e[l]
    <2> SUFFICES ASSUME NEW k \in 1 .. n, NEW l \in 1 .. n, k < l
                 PROVE  e[k] # e[l]
      BY <1>1
    <2>1. e[k] < e[l]
      BY <1>2
    <2>2. \A i \in I : i \in Int
      OBVIOUS
    <2>3. e[k] \in Int /\ e[l] \in Int
      BY <1>3, <2>2
    <2> QED  BY <2>1, <2>3
  <1>8. ASSUME NEW x, Once(q, x)  PROVE Once(a, x)
    <2> SUFFICES ASSUME NEW k \in 1 .. n, NEW l \in 1 .. n, a[k] = x, a[l] = x
                 PROVE  k = l
      BY <1>5 DEF Once
    <2>1. e[k] \in 1 .. Len(q) /\ e[l] \in 1 .. Len(q) /\ q[e[k]] = x /\ q[e[l]] = x
      BY <1>3
    <2>2. e[k] = e[l]
      BY <1>8, <2>1 DEF Once
    <2> QED  BY <1>7, <2>2
  <1>9. \A k, l \in 1 .. n : k < l => \E i, j \in I : i < j /\ a[k] = q[i] /\ a[l] = q[j]
    BY <1>2, <1>3
  <1>10. \A k \in 1 .. n : \E i \in I : a[k] = q[i]
    BY <1>3
  <1> QED
    <2>1. /\ a \in Seq(X)
          /\ \A k \in 1 .. Len(a) : \E i \in I : a[k] = q[i]
          /\ \A i \in I : \E k \in 1 .. Len(a) : a[k] = q[i]
          /\ \A x : Once(q, x) => Once(a, x)
          /\ \A k, l \in 1 .. Len(a) : k < l =>
                \E i, j \in I : i < j /\ a[k] = q[i] /\ a[l] = q[j]
      BY <1>5, <1>6, <1>8, <1>9, <1>10
    <2> QED  BY <2>1 DEF a

LEMMA LeastIndex ==
    ASSUME NEW X, NEW q \in Seq(X), NEW I \in SUBSET (1 .. Len(q)), I # {}
    PROVE  \E i \in I : \A j \in I : i <= j
  <1> DEFINE n == Cardinality(I)
  <1>1. n \in Nat /\ \E e \in [1 .. n -> I] :
              /\ \A k, l \in 1 .. n : k < l => e[k] < e[l]
              /\ \A i \in I : \E k \in 1 .. n : e[k] = i
              /\ At(q, I) = [k \in 1 .. n |-> q[e[k]]]
    BY AtIndexes
  <1> HIDE DEF n
  <1>2. PICK e \in [1 .. n -> I] : /\ \A k, l \in 1 .. n : k < l => e[k] < e[l]
                                   /\ \A i \in I : \E k \in 1 .. n : e[k] = i
    BY <1>1
  <1>3. \A i \in I : i \in Nat
    OBVIOUS
  <1>4. \A k \in 1 .. n : e[k] \in I /\ e[k] \in Nat
    BY <1>2, <1>3
  <1>5. 1 \in 1 .. n
    <2>1. PICK i \in I : TRUE
      OBVIOUS
    <2>2. PICK k \in 1 .. n : e[k] = i
      BY <1>2
    <2> QED  BY <1>1, <2>2
  <1>6. \A k \in 1 .. n : k # 1 => e[1] < e[k]
    BY <1>1, <1>2, <1>5
  <1>7. \A j \in I : e[1] <= j
    BY <1>2, <1>4, <1>5, <1>6
  <1> QED  BY <1>4, <1>5, <1>7

LEMMA ConcatFacts ==
    ASSUME NEW X, NEW p \in Seq(X), NEW q \in Seq(X), NEW x
    PROVE  /\ p \o q \in Seq(X)
           /\ Contains(p \o q, x) <=> Contains(p, x) \/ Contains(q, x)
           /\ Once(p \o q, x) <=> OnceInBoth(p, q, x)
  <1>1. /\ p \o q \in Seq(X)
        /\ Len(p \o q) = Len(p) + Len(q)
        /\ \A i \in 1 .. Len(p) : (p \o q)[i] = p[i]
        /\ \A i \in 1 .. Len(q) : (p \o q)[Len(p) + i] = q[i]
        /\ Len(p) \in Nat /\ Len(q) \in Nat
    OBVIOUS
  <1> DEFINE r == p \o q
  <1>2. /\ r \in Seq(X)
        /\ Len(r) = Len(p) + Len(q)
        /\ \A i \in 1 .. Len(p) : r[i] = p[i]
        /\ \A i \in 1 .. Len(q) : r[Len(p) + i] = q[i]
    BY <1>1
  <1> HIDE DEF r
  <1>3. \A i \in 1 .. Len(r) : \/ i \in 1 .. Len(p)
                               \/ i - Len(p) \in 1 .. Len(q) /\ r[i] = q[i - Len(p)]
    <2> TAKE i \in 1 .. Len(r)
    <2>1. CASE i <= Len(p)
      BY <1>1, <1>2, <2>1
    <2>2. CASE i > Len(p)
      <3>1. i - Len(p) \in 1 .. Len(q) /\ i = Len(p) + (i - Len(p))
        BY <1>1, <1>2, <2>2
      <3> QED  BY <1>2, <3>1
    <2> QED  BY <1>1, <1>2, <2>1, <2>2
  <1>4. \A i \in 1 .. Len(p) : i \in 1 .. Len(r)
    BY <1>1, <1>2
  <1>5. \A i \in 1 .. Len(q) : Len(p) + i \in 1 .. Len(r)
    BY <1>1, <1>2
  <1>6. Contains(r, x) <=> Contains(p, x) \/ Contains(q, x)
    BY <1>2, <1>3, <1>4, <1>5 DEF Contains
  <1>7. ASSUME Once(r, x)  PROVE OnceInBoth(p, q, x)
    <2>1. Once(p, x)
      BY <1>2, <1>4, <1>7 DEF Once
    <2>2. Once(q, x)
      <3> SUFFICES ASSUME NEW i \in 1 .. Len(q), NEW j \in 1 .. Len(q), q[i] = x, q[j] = x
                   PROVE  i = j
        BY DEF Once
      <3>1. Len(p) + i = Len(p) + j
        BY <1>2, <1>5, <1>7 DEF Once
      <3> QED  BY <1>1, <3>1
    <2>3. ASSUME Contains(p, x), Contains(q, x)  PROVE FALSE
      <3>1. PICK i \in 1 .. Len(p), j \in 1 .. Len(q) : p[i] = x /\ q[j] = x
        BY <2>3 DEF Contains
      <3>2. i = Len(p) + j
        BY <1>2, <1>4, <1>5, <1>7, <3>1 DEF Once
      <3> QED  BY <1>1, <3>2
    <2> QED  BY <2>1, <2>2, <2>3 DEF OnceInBoth
  <1>8. ASSUME OnceInBoth(p, q, x)  PROVE Once(r, x)
    <2> SUFFICES ASSUME NEW i \in 1 .. Len(r), NEW j \in 1 .. Len(r), r[i] = x, r[j] = x
                 PROVE  i = j
      BY DEF Once
    <2>1. CASE i \in 1 .. Len(p) /\ j \in 1 .. Len(p)
      BY <1>2, <1>8, <2>1 DEF OnceInBoth, Once
    <2>2. CASE i \in 1 .. Len(p) /\ j - Len(p) \in 1 .. Len(q)
      <3>1. p[i] = x /\ q[j - Len(p)] = x
        BY <1>1, <1>2, <1>3, <2>2
      <3> QED  BY <1>8, <2>2, <3>1 DEF OnceInBoth, Contains
    <2>3. CASE j \in 1 .. Len(p) /\ i - Len(p) \in 1 .. Len(q)
      <3>1. p[j] = x /\ q[i - Len(p)] = x
        BY <1>1, <1>2, <1>3, <2>3
      <3> QED  BY <1>8, <2>3, <3>1 DEF OnceInBoth, Contains
    <2>4. CASE i - Len(p) \in 1 .. Len(q) /\ j - Len(p) \in 1 .. Len(q)
      <3>1. q[i - Len(p)] = r[i] /\ q[j - Len(p)] = r[j]
        BY <1>3, <2>4, <1>1, <1>2
      <3>2. i - Len(p) = j - Len(p)
        BY <1>8, <2>4, <3>1 DEF OnceInBoth, Once
      <3> QED  BY <1>1, <1>2, <3>2
    <2> QED  BY <1>3, <2>1, <2>2, <2>3, <2>4
  <1> QED  BY <1>2, <1>6, <1>7, <1>8 DEF r

LEMMA SingleFacts ==
    ASSUME NEW X, NEW y \in X, NEW x
    PROVE  /\ <<y>> \in Seq(X)
           /\ Contains(<<y>>, x) <=> y = x
           /\ Once(<<y>>, x)
  BY DEF Contains, Once

LEMMA AppendFacts ==
    ASSUME NEW X, NEW q \in Seq(X), NEW y \in X, NEW x
    PROVE  /\ Append(q, y) \in Seq(X)
           /\ Contains(Append(q, y), x) <=> Contains(q, x) \/ y = x
           /\ Once(q, x) /\ ~(Contains(q, x) /\ y = x) => Once(Append(q, y), x)
  <1>1. Append(q, y) = q \o <<y>>
    OBVIOUS
  <1>2. /\ <<y>> \in Seq(X)
        /\ Contains(<<y>>, x) <=> y = x
        /\ Once(<<y>>, x)
    BY SingleFacts
  <1>3. /\ q \o <<y>> \in Seq(X)
        /\ Contains(q \o <<y>>, x) <=> Contains(q, x) \/ Contains(<<y>>, x)
        /\ Once(q \o <<y>>, x) <=> OnceInBoth(q, <<y>>, x)
    BY <1>2, ConcatFacts
  <1> QED  BY <1>1, <1>2, <1>3 DEF OnceInBoth

(* Taking the head. *)
LEMMA TailFacts ==
    ASSUME NEW X, NEW q \in Seq(X), q # <<>>, NEW x
    PROVE  /\ Head(q) \in X /\ Tail(q) \in Seq(X)
           /\ Contains(q, x) <=> Head(q) = x \/ Contains(Tail(q), x)
           /\ Once(q, x) => Once(Tail(q), x) /\ ~(Head(q) = x /\ Contains(Tail(q), x))
  <1>1. q = <<Head(q)>> \o Tail(q) /\ Head(q) \in X /\ Tail(q) \in Seq(X)
    OBVIOUS
  <1>2. /\ Contains(<<Head(q)>> \o Tail(q), x) <=>
              Contains(<<Head(q)>>, x) \/ Contains(Tail(q), x)
        /\ Once(<<Head(q)>> \o Tail(q), x) <=> OnceInBoth(<<Head(q)>>, Tail(q), x)
    BY <1>1, SingleFacts, ConcatFacts, ZenonT(40)
  <1> QED  BY <1>1, <1>2, SingleFacts DEF OnceInBoth

(* Cutting in two. *)
LEMMA CutFacts ==
    ASSUME NEW X, NEW d \in Seq(X), NEW k \in 0 .. Len(d), NEW x
    PROVE  LET p == SubSeq(d, 1, k)
               r == SubSeq(d, k + 1, Len(d))
           IN  /\ p \in Seq(X) /\ r \in Seq(X)
               /\ Contains(d, x) <=> Contains(p, x) \/ Contains(r, x)
               /\ Once(d, x) <=> OnceInBoth(p, r, x)
  <1> DEFINE p == SubSeq(d, 1, k)
             r == SubSeq(d, k + 1, Len(d))
  <1>1. p \in Seq(X) /\ r \in Seq(X)
    OBVIOUS
  <1>2. d = p \o r
    <2>1. /\ Len(d) \in Nat /\ Len(p) = k /\ Len(r) = Len(d) - k
          /\ \A i \in 1 .. k : p[i] = d[i]
          /\ \A i \in 1 .. Len(d) - k : r[i] = d[k + i]
      OBVIOUS
    <2> HIDE DEF p, r
    <2>2. /\ p \o r \in Seq(X) /\ Len(p \o r) = Len(d)
          /\ \A i \in 1 .. k : (p \o r)[i] = p[i]
          /\ \A i \in k + 1 .. Len(d) : (p \o r)[i] = r[i - k]
      BY <1>1, <2>1
    <2>3. \A i \in k + 1 .. Len(d) : i - k \in 1 .. Len(d) - k /\ k + (i - k) = i
      BY <2>1
    <2>4. \A i \in 1 .. Len(d) : (p \o r)[i] = d[i]
      <3> TAKE i \in 1 .. Len(d)
      <3>1. CASE i <= k
        BY <2>1, <2>2, <3>1
      <3>2. CASE i > k
        <4>1. i \in k + 1 .. Len(d)
          BY <2>1, <3>2
        <4>2. (p \o r)[i] = r[i - k] /\ r[i - k] = d[k + (i - k)]
          BY <2>1, <2>2, <2>3, <4>1
        <4> QED  BY <2>3, <4>1, <4>2
      <3> QED  BY <2>1, <3>1, <3>2
    <2> QED  BY <2>2, <2>4, SeqEqual
  <1> HIDE DEF p, r
  <1>3. /\ Contains(p \o r, x) <=> Contains(p, x) \/ Contains(r, x)
        /\ Once(p \o r, x) <=> OnceInBoth(p, r, x)
    BY <1>1, ConcatFacts
  <1>4. /\ Contains(d, x) <=> Contains(p, x) \/ Contains(r, x)
        /\ Once(d, x) <=> OnceInBoth(p, r, x)
    BY <1>2, <1>3
  <1> QED  BY <1>1, <1>4 DEF p, r

-----------------------------------------------------------------------------
(***************************************************************************)
(* Tasks, messages and results.                                            *)
(***************************************************************************)
LEMMA TaskFacts ==
    /\ NoTask \notin Tasks
    /\ \A t \in Tasks : Owner(t) \in Clients
    /\ \A c \in Clients, i \in 1 .. MaxTasks : <<c, i>> \in Tasks /\ Owner(<<c, i>>) = c
  BY DEF NoTask, Tasks, Owner

LEMMA MessageFacts ==
    /\ NextResponse \in Messages /\ NextResponse.type = "next"
    /\ \A t \in Tasks : /\ Work(t) \in Messages /\ Cancel(t) \in Messages
                        /\ Work(t).type = "work" /\ Cancel(t).type = "cancel"
                        /\ Work(t).id = t /\ Cancel(t).id_target = t
                        /\ Work(t).id_target = NoTask
    /\ \A m \in Messages : /\ m.type = "work" => m.id \in Tasks /\ m = Work(m.id)
                           /\ m.type = "cancel" => /\ m.id_target \in Tasks
                                                   /\ m = Cancel(m.id_target)
                           /\ m.type = "next" => m = NextResponse
                           /\ m.type \in {"work", "cancel", "next"}
  BY DEF Messages, Work, Cancel, NextResponse

(* What the queue and the slots are told apart by. *)
LEMMA MessageDistinct ==
    /\ \A t, u \in Tasks : /\ Work(t) = Work(u) => t = u
                           /\ Cancel(t) = Cancel(u) => t = u
                           /\ Work(t) # Cancel(u)
    /\ \A t \in Tasks : Work(t) # NextResponse /\ Cancel(t) # NextResponse
  BY DEF Work, Cancel, NextResponse

LEMMA RequestFacts ==
    ASSUME TypeOK, NEW c \in Clients
    PROVE  /\ req[c].n \in 1 .. MaxTasks /\ req[c].id_slot \in 0 .. NSlots + 1
           /\ req[c].mode \in Modes
           /\ TasksOf(c) \in SUBSET Tasks
           /\ \A t \in TasksOf(c) : Owner(t) = c
           /\ IsFiniteSet(TasksOf(c)) /\ Cardinality(TasksOf(c)) = req[c].n
  <1>1. req[c] \in Request
    BY ServerAssumption DEF TypeOK
  <1>2. req[c].n \in 1 .. MaxTasks /\ req[c].id_slot \in 0 .. NSlots + 1 /\ req[c].mode \in Modes
    BY <1>1 DEF Request
  <1>3. \A i \in 1 .. req[c].n : i \in 1 .. MaxTasks
    BY <1>2, ServerAssumption
  <1>4. /\ TasksOf(c) \in SUBSET Tasks
        /\ \A t \in TasksOf(c) : Owner(t) = c
    BY <1>3, TaskFacts DEF TasksOf
  <1>5. IsFiniteSet(1 .. req[c].n) /\ Cardinality(1 .. req[c].n) = req[c].n
    <2> DEFINE n == req[c].n
    <2>1. n \in Int /\ n >= 1
      BY <1>2, ServerAssumption
    <2> HIDE DEF n
    <2>2. IsFiniteSet(1 .. n) /\ Cardinality(1 .. n) = n
      BY <2>1, FS_Interval
    <2> QED  BY <2>2 DEF n
  <1> DEFINE f == [i \in 1 .. req[c].n |-> <<c, i>>]
  <1>6. f \in Bijection(1 .. req[c].n, TasksOf(c))
    BY DEF Bijection, Injection, Surjection, IsInjective, TasksOf
  <1>7. ExistsBijection(1 .. req[c].n, TasksOf(c))
    BY <1>6 DEF ExistsBijection
  <1>8. IsFiniteSet(TasksOf(c)) /\ Cardinality(TasksOf(c)) = req[c].n
    BY <1>5, <1>7, FS_Bijection
  <1> QED  BY <1>2, <1>4, <1>8

(* send() of one result. *)
LEMMA SendOne ==
    ASSUME TypeOK, NEW r \in Results, Send(<<r>>)
    PROVE  /\ waiting' = waiting /\ resRunning' = resRunning
           /\ r.id \in waiting =>
                 /\ results' = Append(results, r)
                 /\ finals' = [t \in Tasks |-> IF Ends(r, t) THEN finals[t] + 1 ELSE finals[t]]
                 /\ pc' = Woken
           /\ r.id \notin waiting =>
                 results' = results /\ finals' = finals /\ pc' = pc
  <1> DEFINE I == {i \in DOMAIN <<r>> : <<r>>[i].id \in waiting}
             E(t) == {i \in DOMAIN <<r>> : /\ <<r>>[i].id = t /\ t \in waiting
                                           /\ <<r>>[i].type # "partial"}
  <1>1. /\ results' = results \o At(<<r>>, I)
        /\ finals' = [t \in Tasks |-> finals[t] + Cardinality(E(t))]
        /\ pc' = IF At(<<r>>, I) = <<>> THEN pc ELSE Woken
        /\ UNCHANGED <<waiting, resRunning>>
    BY DEF Send, Queued
  <1>2. results \in Seq(Results) /\ finals \in [Tasks -> Nat]
    BY DEF TypeOK
  <1>3. <<r>> \in Seq(Results) /\ Len(<<r>>) = 1 /\ <<r>>[1] = r /\ DOMAIN <<r>> = {1}
    OBVIOUS
  <1>4. I \in SUBSET (1 .. Len(<<r>>))
    BY <1>3
  <1>5. CASE r.id \in waiting
    <2>1. I = {1}
      BY <1>3, <1>5
    <2>2. Cardinality(I) = 1
      BY <2>1, FS_Singleton
    <2>3. At(<<r>>, I) = <<r>>
      <3> HIDE DEF I
      <3> DEFINE a == At(<<r>>, I)
      <3>1. /\ a \in Seq(Results)
            /\ \A k \in 1 .. Len(a) : \E i \in I : a[k] = <<r>>[i]
        BY <1>3, <1>4, AtFacts
      <3>2. DOMAIN a = 1 .. 1
        BY <2>2 DEF At
      <3> HIDE DEF a
      <3>3. Len(a) = 1
        BY <3>1, <3>2
      <3>4. a[1] = r
        BY <1>3, <2>1, <3>1, <3>3
      <3>5. a = <<r>>
        BY <3>1, <3>3, <3>4
      <3> QED  BY <3>5 DEF a
    <2>4. \A t \in Tasks : E(t) = IF Ends(r, t) THEN {1} ELSE {}
      BY <1>3, <1>5 DEF Ends
    <2>5. \A t \in Tasks : Cardinality(E(t)) = IF Ends(r, t) THEN 1 ELSE 0
      BY <2>4, FS_Singleton, FS_EmptySet
    <2> HIDE DEF E
    <2>6. finals' = [t \in Tasks |-> IF Ends(r, t) THEN finals[t] + 1 ELSE finals[t]]
      BY <1>1, <1>2, <2>5
    <2>7. results' = Append(results, r) /\ pc' = Woken
      <3>1. results \o <<r>> = Append(results, r) /\ <<r>> # <<>>
        BY <1>2
      <3> QED  BY <1>1, <2>3, <3>1
    <2> QED  BY <1>1, <1>5, <2>6, <2>7
  <1>6. CASE r.id \notin waiting
    <2>1. I = {}
      BY <1>3, <1>6
    <2>2. Cardinality(I) = 0
      BY <2>1, FS_EmptySet
    <2>3. At(<<r>>, I) = <<>>
      <3> DEFINE a == At(<<r>>, I)
      <3>1. /\ a \in Seq(Results)
            /\ \A k \in 1 .. Len(a) : \E i \in I : a[k] = <<r>>[i]
        BY <1>3, <1>4, AtFacts
      <3> HIDE DEF a
      <3>2. Len(a) = 0
        BY <2>1, <3>1
      <3>3. a = <<>>
        BY <3>1, <3>2
      <3> QED  BY <3>3 DEF a
    <2>4. \A t \in Tasks : E(t) = {}
      BY <1>3, <1>6
    <2>5. \A t \in Tasks : Cardinality(E(t)) = 0
      BY <2>4, FS_EmptySet
    <2> HIDE DEF E
    <2>6. finals' = finals
      BY <1>1, <1>2, <2>5
    <2>7. results' = results /\ pc' = pc
      <3>1. results \o <<>> = results
        BY <1>2
      <3> QED  BY <1>1, <2>3, <3>1
    <2> QED  BY <1>1, <1>6, <2>6, <2>7
  <1> QED  BY <1>5, <1>6

(* send() of an error for every slot. *)
LEMMA SendAll ==
    ASSUME TypeOK, Send([s \in Slots |-> Result(id_task[s], "error")])
    PROVE  /\ waiting' = waiting /\ resRunning' = resRunning
           /\ results' \in Seq(Results)
           /\ finals' \in [Tasks -> Nat]
           /\ \A t \in Tasks : /\ finals'[t] = 0 => finals[t] = 0
                               /\ Running(t) /\ t \in waiting => finals'[t] # 0
           /\ pc' = pc \/ pc' = Woken
  <1> DEFINE rs == [s \in Slots |-> Result(id_task[s], "error")]
             X == [id : Tasks \cup {NoTask}, type : {"partial", "final", "error"}]
             I == {i \in DOMAIN rs : rs[i].id \in waiting}
             E(t) == {i \in DOMAIN rs : /\ rs[i].id = t /\ t \in waiting
                                        /\ rs[i].type # "partial"}
  <1>1. /\ results' = results \o At(rs, I)
        /\ finals' = [t \in Tasks |-> finals[t] + Cardinality(E(t))]
        /\ pc' = IF At(rs, I) = <<>> THEN pc ELSE Woken
        /\ UNCHANGED <<waiting, resRunning>>
    BY DEF Send, Queued
  <1>2. results \in Seq(Results) /\ finals \in [Tasks -> Nat] /\ waiting \in SUBSET Tasks
        /\ id_task \in [Slots -> Tasks \cup {NoTask}]
    BY DEF TypeOK
  <1>3. NSlots \in Nat
    BY ServerAssumption
  <1>4. \A s \in Slots : rs[s] \in X /\ rs[s].id = id_task[s] /\ rs[s].type = "error"
    BY <1>2 DEF Result
  <1>5. rs \in [1 .. NSlots -> X] /\ DOMAIN rs = Slots
    BY <1>4 DEF Slots
  <1> HIDE DEF rs
  <1>6. rs \in Seq(X) /\ Len(rs) = NSlots
    <2> HIDE DEF X
    <2> QED  BY <1>3, <1>5
  <1>7. I \in SUBSET (1 .. Len(rs))
    BY <1>5, <1>6 DEF Slots
  <1>8. \A i \in I : rs[i] \in Results
    BY <1>2, <1>4, <1>5 DEF Results
  <1> HIDE DEF I
  <1>9. /\ At(rs, I) \in Seq(X)
        /\ \A k \in 1 .. Len(At(rs, I)) : \E i \in I : At(rs, I)[k] = rs[i]
    BY <1>6, <1>7, AtFacts
  <1>10. At(rs, I) \in Seq(Results)
    BY <1>8, <1>9
  <1>11. IsFiniteSet(Slots)
    BY <1>3, FS_Interval DEF Slots
  <1>12. \A t \in Tasks : IsFiniteSet(E(t)) /\ Cardinality(E(t)) \in Nat
    <2> TAKE t \in Tasks
    <2>1. E(t) \in SUBSET Slots
      BY <1>5
    <2>2. IsFiniteSet(E(t))
      BY <1>11, <2>1, FS_Subset
    <2> QED  BY <2>2, FS_CardinalityType
  <1>13. ASSUME NEW t \in Tasks, Running(t), t \in waiting  PROVE Cardinality(E(t)) # 0
    <2>1. PICK s \in Slots : id_task[s] = t
      BY <1>13 DEF Running, Runs
    <2>2. s \in E(t)
      BY <1>4, <1>5, <1>13, <2>1
    <2> QED  BY <1>12, <2>2, FS_EmptySet
  <1> HIDE DEF E
  <1>14. \A t \in Tasks : finals'[t] = finals[t] + Cardinality(E(t))
    BY <1>1
  <1>15. finals' \in [Tasks -> Nat]
    BY <1>1, <1>2, <1>12
  <1>16. \A t \in Tasks : /\ finals'[t] = 0 => finals[t] = 0
                          /\ Running(t) /\ t \in waiting => finals'[t] # 0
    BY <1>2, <1>12, <1>13, <1>14
  <1>17. results' \in Seq(Results)
    BY <1>1, <1>2, <1>10
  <1> QED  BY <1>1, <1>15, <1>16, <1>17

-----------------------------------------------------------------------------
(***************************************************************************)
(* The moves between the queues.                                           *)
(***************************************************************************)
LEMMA ReleaseFacts ==
    ASSUME TypeOK, NEW ss \in SUBSET Slots, Release(ss)
    PROVE  /\ queue' \in Seq(Messages) /\ deferred' \in Seq(Messages)
           /\ busy' = [s \in Slots |-> busy[s] /\ s \notin ss]
           /\ rounds' \in [Slots -> 0 .. MaxRounds]
           /\ running' = running /\ id_task' = id_task
           /\ \A x : /\ Contains(queue, x) \/ Contains(deferred, x) <=>
                           Contains(queue', x) \/ Contains(deferred', x)
                     /\ Contains(queue, x) => Contains(queue', x)
                     /\ OnceInBoth(queue, deferred, x) => OnceInBoth(queue', deferred', x)
  <1> DEFINE n == Cardinality({s \in ss : busy[s]})
             k == IF n < Len(deferred) THEN n ELSE Len(deferred)
             p == SubSeq(deferred, 1, k)
             r == SubSeq(deferred, k + 1, Len(deferred))
  <1>1. queue' = queue \o p /\ deferred' = r
    BY DEF Release, Popped
  <1>2. queue \in Seq(Messages) /\ deferred \in Seq(Messages)
    BY DEF TypeOK
  <1>3. n \in Nat
    <2>1. IsFiniteSet(Slots)
      BY ServerAssumption, FS_Interval DEF Slots
    <2>2. {s \in ss : busy[s]} \in SUBSET Slots
      OBVIOUS
    <2>3. IsFiniteSet({s \in ss : busy[s]})
      BY <2>1, <2>2, FS_Subset
    <2> QED  BY <2>3, FS_CardinalityType
  <1> HIDE DEF n
  <1>4. Len(deferred) \in Nat /\ k \in 0 .. Len(deferred)
    BY <1>2, <1>3
  <1> HIDE DEF k
  <1>5. /\ p \in Seq(Messages) /\ r \in Seq(Messages)
        /\ \A x : /\ Contains(deferred, x) <=> Contains(p, x) \/ Contains(r, x)
                  /\ Once(deferred, x) <=> OnceInBoth(p, r, x)
    BY <1>2, <1>4, CutFacts
  <1> HIDE DEF p, r
  <1>6. /\ queue \o p \in Seq(Messages)
        /\ \A x : /\ Contains(queue \o p, x) <=> Contains(queue, x) \/ Contains(p, x)
                  /\ Once(queue \o p, x) <=> OnceInBoth(queue, p, x)
    BY <1>2, <1>5, ConcatFacts
  <1>7. rounds' \in [Slots -> 0 .. MaxRounds]
    BY ServerAssumption DEF TypeOK, Release
  <1>8. /\ busy' = [s \in Slots |-> busy[s] /\ s \notin ss]
        /\ running' = running /\ id_task' = id_task
    BY DEF Release
  <1>9. ASSUME NEW x
        PROVE  /\ Contains(queue, x) \/ Contains(deferred, x) <=>
                     Contains(queue', x) \/ Contains(deferred', x)
               /\ Contains(queue, x) => Contains(queue', x)
               /\ OnceInBoth(queue, deferred, x) => OnceInBoth(queue', deferred', x)
    BY <1>1, <1>5, <1>6 DEF OnceInBoth
  <1> QED  BY <1>1, <1>5, <1>6, <1>7, <1>8, <1>9

LEMMA CleanedFacts ==
    ASSUME NEW q \in Seq(Messages), NEW ts \in SUBSET Tasks
    PROVE  /\ Cleaned(q, ts) \in Seq(Messages)
           /\ \A t \in Tasks : /\ Contains(Cleaned(q, ts), Work(t)) <=> Contains(q, Work(t))
                               /\ Once(q, Work(t)) => Once(Cleaned(q, ts), Work(t))
           /\ \A t \in Tasks \ ts : Contains(q, Cancel(t)) => Contains(Cleaned(q, ts), Cancel(t))
  <1> DEFINE I == {i \in DOMAIN q : q[i].id_target \notin ts}
             a == Cleaned(q, ts)
  <1>1. I \in SUBSET (1 .. Len(q))
    OBVIOUS
  <1>2. /\ a \in Seq(Messages)
        /\ \A k \in 1 .. Len(a) : \E i \in I : a[k] = q[i]
        /\ \A i \in I : \E k \in 1 .. Len(a) : a[k] = q[i]
        /\ \A x : Once(q, x) => Once(a, x)
    BY <1>1, AtFacts, ZenonT(40) DEF Cleaned
  <1>3. \A i \in 1 .. Len(q) : \A t \in Tasks : q[i] = Work(t) => i \in I
    BY MessageFacts, TaskFacts
  <1>4. \A i \in 1 .. Len(q) : \A t \in Tasks \ ts : q[i] = Cancel(t) => i \in I
    BY MessageFacts
  <1>5. \A t \in Tasks : Contains(a, Work(t)) => Contains(q, Work(t))
    BY <1>1, <1>2 DEF Contains
  <1> HIDE DEF I, a
  <1>6. \A t \in Tasks : Contains(q, Work(t)) => Contains(a, Work(t))
    BY <1>2, <1>3 DEF Contains
  <1>7. \A t \in Tasks \ ts : Contains(q, Cancel(t)) => Contains(a, Cancel(t))
    BY <1>2, <1>4 DEF Contains
  <1> QED  BY <1>2, <1>5, <1>6, <1>7 DEF a

LEMMA WorkFacts ==
    ASSUME TypeOK, NEW c \in Clients
    PROVE  LET work == [i \in 1 .. req[c].n |-> Work(<<c, i>>)]
           IN  /\ work \in Seq(Messages)
               /\ \A t \in Tasks : /\ Contains(work, Work(t)) <=> t \in TasksOf(c)
                                   /\ Once(work, Work(t))
                                   /\ ~Contains(work, Cancel(t))
  <1> DEFINE n == req[c].n
             work == [i \in 1 .. n |-> Work(<<c, i>>)]
  <1>1. n \in Nat /\ \A i \in 1 .. n : <<c, i>> \in Tasks
    <2>1. n \in 1 .. MaxTasks /\ MaxTasks \in Nat
      BY RequestFacts, ServerAssumption
    <2> HIDE DEF n
    <2>2. \A i \in 1 .. n : i \in 1 .. MaxTasks
      BY <2>1
    <2> QED  BY <2>1, <2>2, TaskFacts
  <1>2. TasksOf(c) = {<<c, i>> : i \in 1 .. n}
    BY DEF TasksOf
  <1> HIDE DEF n
  <1>3. \A i \in 1 .. n : work[i] = Work(<<c, i>>) /\ work[i] \in Messages
    BY <1>1, MessageFacts
  <1>4. work \in Seq(Messages) /\ Len(work) = n
    BY <1>1, <1>3
  <1> HIDE DEF work
  <1>5. ASSUME NEW t \in Tasks
        PROVE  /\ Contains(work, Work(t)) <=> t \in TasksOf(c)
               /\ Once(work, Work(t))
               /\ ~Contains(work, Cancel(t))
    <2>1. \A i \in 1 .. n : work[i] = Work(t) <=> t = <<c, i>>
      BY <1>1, <1>3, MessageDistinct
    <2>2. \A i \in 1 .. n : work[i] # Cancel(t)
      BY <1>1, <1>3, MessageDistinct
    <2>3. \A i, j \in 1 .. n : <<c, i>> = <<c, j>> => i = j
      OBVIOUS
    <2> QED  BY <1>2, <1>4, <2>1, <2>2, <2>3 DEF Contains, Once
  <1> QED  BY <1>4, <1>5 DEF work, n

LEMMA CancelFacts ==
    ASSUME TypeOK, NEW c \in Clients, NEW order \in Bijection(1 .. req[c].n, TasksOf(c))
    PROVE  LET cancels == [i \in 1 .. req[c].n |-> Cancel(order[i])]
           IN  /\ cancels \in Seq(Messages)
               /\ \A t \in Tasks : ~Contains(cancels, Work(t)) /\ Once(cancels, Work(t))
               /\ \A t \in TasksOf(c) : Contains(cancels, Cancel(t))
  <1> DEFINE n == req[c].n
             cancels == [i \in 1 .. n |-> Cancel(order[i])]
  <1>1. n \in Nat
    BY RequestFacts, ServerAssumption
  <1>2. /\ order \in [1 .. n -> TasksOf(c)]
        /\ \A t \in TasksOf(c) : \E i \in 1 .. n : order[i] = t
    BY DEF Bijection, Injection, Surjection
  <1>3. TasksOf(c) \in SUBSET Tasks
    BY RequestFacts
  <1> HIDE DEF n
  <1>4. \A i \in 1 .. n : order[i] \in Tasks /\ cancels[i] = Cancel(order[i]) /\ cancels[i] \in Messages
    BY <1>2, <1>3, MessageFacts
  <1>5. cancels \in Seq(Messages) /\ Len(cancels) = n
    BY <1>1, <1>4
  <1> HIDE DEF cancels
  <1>6. \A t \in Tasks : \A i \in 1 .. n : cancels[i] # Work(t)
    BY <1>4, MessageDistinct
  <1>7. \A t \in Tasks : ~Contains(cancels, Work(t)) /\ Once(cancels, Work(t))
    BY <1>5, <1>6 DEF Contains, Once
  <1>8. \A t \in TasksOf(c) : Contains(cancels, Cancel(t))
    BY <1>2, <1>4, <1>5 DEF Contains
  <1> QED  BY <1>5, <1>7, <1>8 DEF cancels, n

-----------------------------------------------------------------------------
(***************************************************************************)
(* Type correctness.                                                       *)
(***************************************************************************)
LEMMA SlotFacts ==
    /\ NSlots \in Nat \ {0} /\ Slots = 1 .. NSlots /\ IsFiniteSet(Slots)
  BY ServerAssumption, FS_Interval DEF Slots

(* The results that are left when some are removed. *)
LEMMA RemovedFacts ==
    ASSUME TypeOK
    PROVE  /\ \A t \in Tasks : Without(t) \in Seq(Results)
           /\ \A c \in Clients :
                 At(results, {i \in DOMAIN results : Owner(results[i].id) # c}) \in Seq(Results)
           /\ \A i \in 1 .. Len(results) : RemoveAt(results, i) \in Seq(Results)
  <1>1. results \in Seq(Results)
    BY DEF TypeOK
  <1>2. \A I \in SUBSET (1 .. Len(results)) : At(results, I) \in Seq(Results)
    BY <1>1, AtFacts
  <1>3. \A t \in Tasks : {i \in DOMAIN results : results[i].id # t} \in SUBSET (1 .. Len(results))
    BY <1>1
  <1>4. \A c \in Clients : {i \in DOMAIN results : Owner(results[i].id) # c}
                              \in SUBSET (1 .. Len(results))
    BY <1>1
  <1>5. \A i \in 1 .. Len(results) : RemoveAt(results, i) \in Seq(Results)
    BY <1>1 DEF RemoveAt
  <1> QED  BY <1>2, <1>3, <1>4, <1>5 DEF Without

LEMMA WokenFacts ==
    ASSUME TypeOK
    PROVE  /\ Woken \in [Clients -> {"new", "post", "recv", "checked", "asleep", "cancel",
                                     "finish", "done", "gone", "dead"}]
           /\ \A c \in Clients : /\ Woken[c] # pc[c] => pc[c] = "asleep" /\ Woken[c] = "recv"
  BY DEF TypeOK, Woken

(* The first of a client's results. *)
LEMMA FirstFacts ==
    ASSUME TypeOK, NEW c \in Clients, Matching(c) # {}
    PROVE  /\ First(c) \in 1 .. Len(results) /\ Owner(results[First(c)].id) = c
           /\ results[First(c)] \in Results
           /\ \A i \in 1 .. Len(results) : Owner(results[i].id) = c => First(c) <= i
  <1>1. results \in Seq(Results)
    BY DEF TypeOK
  <1>2. /\ Matching(c) \in SUBSET Nat /\ DOMAIN results = 1 .. Len(results)
        /\ Matching(c) \in SUBSET (1 .. Len(results))
    BY <1>1 DEF Matching
  <1>4. \E i \in Matching(c) : \A j \in Matching(c) : i <= j
    BY <1>1, <1>2, LeastIndex
  <1>5. First(c) \in Matching(c) /\ \A j \in Matching(c) : First(c) <= j
    BY <1>4 DEF First
  <1>6. \A j : j \in Matching(c) <=> j \in DOMAIN results /\ Owner(results[j].id) = c
    BY DEF Matching
  <1> QED  BY <1>1, <1>2, <1>5, <1>6

LEMMA TypeStep ==
    ASSUME TypeOK, SlotInv, Next
    PROVE  TypeOK'
  <1> USE DEF taskq, resq, slots, loop, http, history
  <1>1. ASSUME NEW c \in Clients, AddWaiting(c)  PROVE TypeOK'
    BY <1>1, RequestFacts DEF TypeOK, AddWaiting
  <1>2. ASSUME NEW c \in Clients, Post(c)  PROVE TypeOK'
    <2> DEFINE work == [i \in 1 .. req[c].n |-> Work(<<c, i>>)]
    <2>1. work \in Seq(Messages)
      BY WorkFacts
    <2>2. queue' = queue \o work \/ queue' = work \o queue
      BY <1>2 DEF Post
    <2> HIDE DEF work
    <2>3. queue' \in Seq(Messages)
      <3>1. queue \in Seq(Messages)
        BY DEF TypeOK
      <3>2. queue \o work \in Seq(Messages) /\ work \o queue \in Seq(Messages)
        BY <2>1, <3>1
      <3> QED  BY <2>2, <3>2
    <2> QED  BY <1>2, <2>3 DEF TypeOK, Post
  <1>3. ASSUME NEW c \in Clients, Take(c)  PROVE TypeOK'
    <2>1. Matching(c) # {} /\ results' = RemoveAt(results, First(c))
      BY <1>3 DEF Take
    <2>2. results' \in Seq(Results)
      BY <2>1, FirstFacts, RemovedFacts
    <2>3. AfterResult(c, results[First(c)].type) \in {"cancel", "finish", "recv"}
      BY DEF AfterResult
    <2>4. TasksOf(c) \in SUBSET Tasks
      BY RequestFacts
    <2>5. finished' \in [Clients -> Nat] /\ left' \in [Clients -> SUBSET Tasks]
      BY <1>3, <2>4 DEF TypeOK, Take
    <2>6. pc' = [pc EXCEPT ![c] = AfterResult(c, results[First(c)].type)]
      BY <1>3 DEF Take
    <2> QED  BY <1>3, <2>2, <2>3, <2>5, <2>6 DEF TypeOK, Take
  <1>4. ASSUME NEW c \in Clients, Disconnected(c)  PROVE TypeOK'
    BY <1>4, RequestFacts DEF TypeOK, Disconnected
  <1>5. ASSUME NEW c \in Clients, RecvTest(c) \/ RecvSleep(c) \/ RecvAborts(c)  PROVE TypeOK'
    <2>1. pc' \in [Clients -> {"new", "post", "recv", "checked", "asleep", "cancel",
                               "finish", "done", "gone", "dead"}]
      BY <1>5 DEF TypeOK, RecvTest, RecvSleep, RecvAborts
    <2>2. CASE RecvTest(c)
      BY <2>1, <2>2 DEF TypeOK, RecvTest
    <2>3. CASE RecvSleep(c)
      BY <2>1, <2>3 DEF TypeOK, RecvSleep
    <2>4. CASE RecvAborts(c)
      BY <2>1, <2>4 DEF TypeOK, RecvAborts
    <2> QED  BY <1>5, <2>2, <2>3, <2>4
  <1>6. ASSUME NEW c \in Clients, CancelWaiting(c)  PROVE TypeOK'
    <2>1. PICK t \in left[c] : /\ waiting' = waiting \ {t}
                               /\ results' = Without(t)
                               /\ left' = [left EXCEPT ![c] = @ \ {t}]
      BY <1>6 DEF CancelWaiting
    <2>2. t \in Tasks
      BY DEF TypeOK
    <2>3. results' \in Seq(Results)
      BY <2>1, <2>2, RemovedFacts
    <2>4. left' \in [Clients -> SUBSET Tasks]
      BY <2>1 DEF TypeOK
    <2> QED  BY <1>6, <2>1, <2>3, <2>4 DEF TypeOK, CancelWaiting
  <1>7. ASSUME NEW c \in Clients, PostCancel(c)  PROVE TypeOK'
    <2>1. PICK order \in Bijection(1 .. req[c].n, TasksOf(c)) :
             queue' = [i \in 1 .. req[c].n |-> Cancel(order[i])] \o Cleaned(queue, TasksOf(c))
      BY <1>7 DEF PostCancel
    <2> DEFINE cancels == [i \in 1 .. req[c].n |-> Cancel(order[i])]
    <2>2. cancels \in Seq(Messages)
      BY CancelFacts
    <2> HIDE DEF cancels
    <2>3. TasksOf(c) \in SUBSET Tasks
      BY RequestFacts
    <2>4. Cleaned(queue, TasksOf(c)) \in Seq(Messages) /\ Cleaned(deferred, TasksOf(c)) \in Seq(Messages)
      BY <2>3, CleanedFacts DEF TypeOK
    <2>5. queue' = cancels \o Cleaned(queue, TasksOf(c))
      BY <2>1 DEF cancels
    <2>6. queue' \in Seq(Messages) /\ deferred' \in Seq(Messages)
      BY <1>7, <2>2, <2>4, <2>5, ConcatFacts DEF PostCancel
    <2> QED  BY <1>7, <2>3, <2>6 DEF TypeOK, PostCancel
  <1>8. ASSUME NEW c \in Clients, Finish(c)  PROVE TypeOK'
    <2>1. results' \in Seq(Results)
      BY <1>8, RemovedFacts DEF Finish, TypeOK
    <2> QED  BY <1>8, <2>1 DEF TypeOK, Finish
  <1>9. CASE TakeTask
    BY <1>9, TailFacts DEF TypeOK, TakeTask
  <1>10. CASE NoMoreTasks \/ Wait \/ LoopEnds \/ ProcessNext \/ UpdateIdle \/ UpdateDone \/ Join
    BY <1>10, MessageFacts DEF TypeOK, NoMoreTasks, Wait, LoopEnds, ProcessNext, UpdateIdle, UpdateDone, Join, Goto
  <1>11. CASE ProcessDefer
    <2>1. deferred' = Append(deferred, Work(cur.id)) /\ cur.id \in Tasks
      BY <1>11, MessageFacts DEF TypeOK, ProcessDefer, Defer
    <2>2. deferred' \in Seq(Messages)
      BY <2>1, MessageFacts DEF TypeOK
    <2> QED  BY <1>11, <2>2, MessageFacts DEF TypeOK, ProcessDefer, Goto
  <1>12. ASSUME NEW r \in Results, Send(<<r>>)
         PROVE  /\ results' \in Seq(Results) /\ finals' \in [Tasks -> Nat]
                /\ waiting' = waiting /\ resRunning' = resRunning
                /\ pc' \in [Clients -> {"new", "post", "recv", "checked", "asleep", "cancel",
                                        "finish", "done", "gone", "dead"}]
    <2>1. results \in Seq(Results) /\ finals \in [Tasks -> Nat]
      BY DEF TypeOK
    <2>2. r.id \in waiting \/ r.id \notin waiting
      OBVIOUS
    <2>3. Append(results, r) \in Seq(Results)
      BY <2>1
    <2>4. [t \in Tasks |-> IF Ends(r, t) THEN finals[t] + 1 ELSE finals[t]] \in [Tasks -> Nat]
      BY <2>1
    <2>5. pc \in [Clients -> {"new", "post", "recv", "checked", "asleep", "cancel",
                              "finish", "done", "gone", "dead"}]
      BY DEF TypeOK
    <2>6. CASE r.id \in waiting
      BY <1>12, <2>3, <2>4, <2>6, SendOne, WokenFacts
    <2>7. CASE r.id \notin waiting
      BY <1>12, <2>1, <2>5, <2>7, SendOne
    <2> QED  BY <2>2, <2>6, <2>7
  <1>13. ASSUME NEW t \in Tasks, NEW type \in {"partial", "final", "error"}
         PROVE  Result(t, type) \in Results
    BY DEF Result, Results
  <1>14. CASE ProcessLaunch
    <2>1. cur.id \in Tasks
      BY <1>14, MessageFacts DEF TypeOK, ProcessLaunch
    <2>2. PICK s \in Available(cur.id) :
             /\ id_task' = [id_task EXCEPT ![s] = cur.id]
             /\ busy' = [busy EXCEPT ![s] = ~IsBad(cur.id)]
      BY <1>14 DEF ProcessLaunch
    <2>3. s \in Slots
      BY <2>1, TaskFacts, RequestFacts, SlotFacts DEF Available, Candidates
    <2>4. id_task' \in [Slots -> Tasks \cup {NoTask}] /\ busy' \in [Slots -> BOOLEAN]
      BY <2>1, <2>2, <2>3 DEF TypeOK
    <2>5. CASE IsBad(cur.id)
      BY <1>12, <1>13, <1>14, <2>1, <2>4, <2>5, MessageFacts DEF TypeOK, ProcessLaunch, Goto
    <2>6. CASE ~IsBad(cur.id)
      BY <1>14, <2>4, <2>6, MessageFacts DEF TypeOK, ProcessLaunch, Goto
    <2> QED  BY <2>5, <2>6
  <1>15. CASE ProcessAtOnce
    <2>1. cur.id \in Tasks
      BY <1>15, MessageFacts DEF TypeOK, ProcessAtOnce
    <2>2. PICK type \in {"final", "error"} : Send(<<Result(cur.id, type)>>)
      BY <1>15 DEF ProcessAtOnce
    <2>3. Result(cur.id, type) \in Results
      BY <1>13, <2>1
    <2> QED  BY <1>12, <1>15, <2>2, <2>3, MessageFacts DEF TypeOK, ProcessAtOnce, Goto
  <1>16. ASSUME NEW ss \in SUBSET Slots, Release(ss)
         PROVE  /\ queue' \in Seq(Messages) /\ deferred' \in Seq(Messages)
                /\ busy' \in [Slots -> BOOLEAN]
                /\ rounds' \in [Slots -> 0 .. MaxRounds]
                /\ running' = running /\ id_task' = id_task
    <2>1. busy' = [s \in Slots |-> busy[s] /\ s \notin ss]
      BY <1>16 DEF Release
    <2>2. busy' \in [Slots -> BOOLEAN]
      BY <2>1
    <2> QED  BY <1>16, <2>2, ReleaseFacts
  <1>17. CASE ProcessCancel
    <2>1. SlotOf(cur.id_target) \in SUBSET Slots
      BY DEF SlotOf
    <2> QED  BY <1>16, <1>17, <2>1, MessageFacts DEF TypeOK, ProcessCancel, Goto
  <1>18. CASE UpdateBatch
    <2>1. queue' \in Seq(Messages)
      BY <1>18, MessageFacts DEF TypeOK, UpdateBatch
    <2> QED  BY <1>18, <2>1 DEF TypeOK, UpdateBatch
  <1>19. CASE DecodeFails
    <2>1. Release(Slots) /\ Send([s \in Slots |-> Result(id_task[s], "error")])
      BY <1>19 DEF DecodeFails
    <2>2. fails' \in 0 .. MaxFailures
      BY <1>19, ServerAssumption DEF DecodeFails, TypeOK
    <2>3. pc' \in [Clients -> {"new", "post", "recv", "checked", "asleep", "cancel",
                              "finish", "done", "gone", "dead"}]
      <3>1. pc \in [Clients -> {"new", "post", "recv", "checked", "asleep", "cancel",
                                "finish", "done", "gone", "dead"}]
        BY DEF TypeOK
      <3>2. pc' = pc \/ pc' = Woken
        BY <2>1, SendAll
      <3> QED  BY <3>1, <3>2, WokenFacts
    <2> QED  BY <1>16, <1>19, <2>1, <2>2, <2>3, SendAll DEF TypeOK, DecodeFails
  <1>20. ASSUME NEW s \in Slots, SlotAdvances(s)  PROVE TypeOK'
    <2>1. rounds' \in [Slots -> 0 .. MaxRounds]
      BY <1>20, ServerAssumption DEF TypeOK, SlotAdvances
    <2>2. CASE UNCHANGED <<resq, pc>>
      BY <1>20, <2>1, <2>2 DEF TypeOK, SlotAdvances
    <2>3. CASE Mode(id_task[s]) = "stream" /\ Send(<<Result(id_task[s], "partial")>>)
      <3>1. id_task[s] \in Tasks
        BY <1>20 DEF SlotAdvances, InBatch, SlotInv
      <3> QED  BY <1>12, <1>13, <1>20, <2>1, <2>3, <3>1 DEF TypeOK, SlotAdvances
    <2> QED  BY <1>20, <2>2, <2>3 DEF SlotAdvances
  <1>21. ASSUME NEW s \in Slots, SlotStops(s)  PROVE TypeOK'
    <2>1. id_task[s] \in Tasks
      BY <1>21 DEF SlotStops, InBatch, SlotInv
    <2>2. PICK type \in {"partial", "final", "error"} : Send(<<Result(id_task[s], type)>>)
      BY <1>21 DEF SlotStops
    <2>3. Result(id_task[s], type) \in Results
      BY <1>13, <2>1
    <2>4. Release({s})
      BY <1>21 DEF SlotStops
    <2>5. /\ results' \in Seq(Results) /\ finals' \in [Tasks -> Nat]
          /\ waiting' = waiting /\ resRunning' = resRunning
          /\ pc' \in [Clients -> {"new", "post", "recv", "checked", "asleep", "cancel",
                                  "finish", "done", "gone", "dead"}]
      BY <1>12, <2>2, <2>3
    <2>6. /\ queue' \in Seq(Messages) /\ deferred' \in Seq(Messages)
          /\ busy' \in [Slots -> BOOLEAN]
          /\ rounds' \in [Slots -> 0 .. MaxRounds]
          /\ running' = running /\ id_task' = id_task
      BY <1>16, <2>4
    <2>7. /\ batch' = batch \ {s}
          /\ UNCHANGED <<main, cur, left, finished, req, history>>
      BY <1>21 DEF SlotStops
    <2> QED  BY <2>5, <2>6, <2>7 DEF TypeOK
  <1>22. CASE Signal
    BY <1>22 DEF TypeOK, Signal
  <1>23. CASE CleanUp
    BY <1>23, WokenFacts, MessageFacts DEF TypeOK, CleanUp, Goto
  <1> QED
    BY <1>1, <1>2, <1>3, <1>4, <1>5, <1>6, <1>7, <1>8, <1>9, <1>10, <1>11, <1>14, <1>15,
       <1>17, <1>18, <1>19, <1>20, <1>21, <1>22, <1>23 DEF Next, MainStep, ClientStep

-----------------------------------------------------------------------------
(***************************************************************************)
(* Where the tasks are: the steps that move none.                          *)
(***************************************************************************)
Unmoved ==
    /\ UNCHANGED <<queue, deferred, busy, id_task, req>>
    /\ \/ main' = main /\ cur' = cur
       \/ /\ main' # "process"
          /\ main = "process" => cur = NextResponse

LEMMA UnmovedPlaces ==
    ASSUME Inv, Unmoved
    PROVE  /\ PlaceInv'
           /\ \A t \in Tasks : /\ Present(t)' <=> Present(t)
                               /\ Pending(t)' <=> Pending(t)
                               /\ InHand(t)' <=> InHand(t)
                               /\ Running(t)' <=> Running(t)
                               /\ TasksOf(Owner(t))' = TasksOf(Owner(t))
                               /\ (main = "process" /\ cur = Cancel(t))' <=>
                                     (main = "process" /\ cur = Cancel(t))
  <1>1. \A t \in Tasks : \A s \in Slots : Runs(s, t)' <=> Runs(s, t)
    BY DEF Runs, Unmoved
  <1>2. \A t \in Tasks : Running(t)' <=> Running(t)
    BY <1>1 DEF Running
  <1>3. \A t \in Tasks : Pending(t)' <=> Pending(t)
    BY DEF Pending, Unmoved
  <1>4. \A t \in Tasks : /\ InHand(t)' <=> InHand(t)
                         /\ (main = "process" /\ cur = Cancel(t))' <=>
                               (main = "process" /\ cur = Cancel(t))
    BY MessageDistinct DEF InHand, Unmoved
  <1>5. \A t \in Tasks : TasksOf(Owner(t))' = TasksOf(Owner(t))
    BY DEF TasksOf, Unmoved
  <1>6. PlaceInv'
    BY <1>1, <1>2, <1>3, <1>4 DEF Inv, PlaceInv, Unmoved
  <1> QED  BY <1>2, <1>3, <1>4, <1>5, <1>6 DEF Present

(* A step of the main thread that moves no task and sends nothing that ends *)
(* one.                                                                     *)
LEMMA MainUnmoved ==
    ASSUME Inv, Unmoved, UNCHANGED <<waiting, left, ghosts, finals>>,
           pc' = pc \/ pc' = Woken
    PROVE  OwnerInv' /\ KeptInv' /\ CancelInv'
  <1>1. \A t \in Tasks : Owner(t) \in Clients
    BY TaskFacts
  <1>2. \A c \in Clients : \/ pc'[c] = pc[c]
                           \/ pc[c] = "asleep" /\ pc'[c] = "recv"
    BY WokenFacts DEF Inv
  <1>3. OwnerInv'
    BY <1>1, <1>2, UnmovedPlaces DEF Inv, OwnerInv
  <1>4. KeptInv'
    BY <1>1, <1>2, UnmovedPlaces DEF Inv, KeptInv, Receiving
  <1>5. CancelInv'
    BY <1>1, <1>2, UnmovedPlaces DEF Inv, CancelInv, Unmoved
  <1> QED  BY <1>3, <1>4, <1>5

LEMMA UnmovedStep ==
    ASSUME Inv,
           \/ NoMoreTasks \/ Wait \/ LoopEnds \/ ProcessNext \/ UpdateIdle \/ UpdateDone
           \/ Signal \/ CleanUp \/ Join \/ \E s \in Slots : SlotAdvances(s)
           \/ \E c \in Clients :
                 \/ AddWaiting(c) \/ Take(c) \/ Disconnected(c) \/ RecvTest(c) \/ RecvSleep(c)
                 \/ CancelWaiting(c) \/ Finish(c)
    PROVE  PlaceInv' /\ OwnerInv' /\ KeptInv' /\ SlotInv' /\ CancelInv'
  <1> USE DEF taskq, resq, slots, loop, http, history
  <1>0. TypeOK /\ SlotInv
    BY DEF Inv
  <1>1. CASE NoMoreTasks \/ Wait \/ LoopEnds \/ ProcessNext \/ UpdateIdle \/ UpdateDone \/ Join
    <2>1. Unmoved
      BY <1>0, <1>1, MessageFacts DEF TypeOK, Unmoved, NoMoreTasks, Wait, LoopEnds, ProcessNext,
         UpdateIdle, UpdateDone, Join, Goto
    <2>2. UNCHANGED <<waiting, left, ghosts, finals, pc, busy, id_task>> /\ main' # "slots"
      BY <1>1 DEF NoMoreTasks, Wait, LoopEnds, ProcessNext, UpdateIdle, UpdateDone, Join, Goto
    <2>3. SlotInv'
      BY <1>0, <2>2 DEF SlotInv
    <2> QED  BY <2>1, <2>2, <2>3, UnmovedPlaces, MainUnmoved
  <1>2. CASE Signal
    <2>1. Unmoved /\ UNCHANGED <<waiting, left, ghosts, finals, pc>>
      BY <1>2 DEF Unmoved, Signal
    <2>2. SlotInv'
      BY <1>0, <1>2 DEF SlotInv, Signal
    <2> QED  BY <2>1, <2>2, UnmovedPlaces, MainUnmoved
  <1>3. CASE CleanUp
    <2>1. Unmoved /\ UNCHANGED <<waiting, left, ghosts, finals>> /\ pc' = Woken
      BY <1>3 DEF Unmoved, CleanUp, Goto
    <2>2. SlotInv'
      BY <1>0, <1>3 DEF SlotInv, CleanUp, Goto
    <2> QED  BY <2>1, <2>2, UnmovedPlaces, MainUnmoved
  <1>4. ASSUME NEW s \in Slots, SlotAdvances(s)
        PROVE  PlaceInv' /\ OwnerInv' /\ KeptInv' /\ SlotInv' /\ CancelInv'
    <2>1. Unmoved /\ UNCHANGED <<left, ghosts>>
      BY <1>4 DEF Unmoved, SlotAdvances
    <2>2. id_task[s] \in Tasks
      BY <1>0, <1>4 DEF SlotInv, SlotAdvances, InBatch
    <2>3. UNCHANGED <<waiting, finals>> /\ (pc' = pc \/ pc' = Woken)
      <3> DEFINE r == Result(id_task[s], "partial")
      <3>1. CASE UNCHANGED <<resq, pc>>
        BY <3>1
      <3>2. CASE Send(<<r>>)
        <4>1. r \in Results /\ \A t \in Tasks : ~Ends(r, t)
          BY <2>2 DEF Result, Results, Ends
        <4>2. finals = [t \in Tasks |-> finals[t]]
          BY <1>0 DEF TypeOK
        <4> HIDE DEF r
        <4> QED  BY <1>0, <3>2, <4>1, <4>2, SendOne
      <3> QED  BY <1>4, <3>1, <3>2 DEF SlotAdvances
    <2>4. SlotInv'
      BY <1>0, <1>4 DEF SlotInv, SlotAdvances
    <2> QED  BY <2>1, <2>3, <2>4, UnmovedPlaces, MainUnmoved
  <1>5. ASSUME NEW c \in Clients,
               \/ AddWaiting(c) \/ Take(c) \/ Disconnected(c) \/ RecvTest(c) \/ RecvSleep(c)
               \/ CancelWaiting(c) \/ Finish(c)
        PROVE  PlaceInv' /\ OwnerInv' /\ KeptInv' /\ SlotInv' /\ CancelInv'
    <2>1. Unmoved /\ UNCHANGED <<ghosts, batch, main, finals, busy, id_task, queue>>
      BY <1>5 DEF Unmoved, AddWaiting, Take, Disconnected, RecvTest, RecvSleep, CancelWaiting, Finish
    <2>2. PlaceInv' /\ SlotInv'
      BY <1>0, <2>1, UnmovedPlaces DEF SlotInv
    <2>3. \A t \in Tasks : Owner(t) \in Clients
      BY TaskFacts
    <2>4. /\ pc \in [Clients -> {"new", "post", "recv", "checked", "asleep", "cancel",
                                 "finish", "done", "gone", "dead"}]
          /\ left \in [Clients -> SUBSET Tasks] /\ waiting \in SUBSET Tasks
      BY <1>0 DEF TypeOK
    <2>5. \A t \in TasksOf(c) : t \in Tasks /\ Owner(t) = c
      BY <1>0, RequestFacts
    <2>6. /\ pc[c] # "gone" /\ pc'[c] # "gone"
          /\ \A d \in Clients \ {c} : pc'[d] = pc[d] /\ left'[d] = left[d]
      BY <1>5, <2>4 DEF AddWaiting, Take, AfterResult, Disconnected, RecvTest, RecvSleep, CancelWaiting,
         Finish
    <2>7. CancelInv'
      BY <2>1, <2>3, <2>6, UnmovedPlaces DEF Inv, CancelInv
    <2>8. CASE AddWaiting(c)
      <3>1. /\ waiting' = waiting \cup TasksOf(c) /\ pc[c] = "new" /\ pc'[c] = "post"
            /\ left' = left
        BY <2>4, <2>8 DEF AddWaiting
      <3>2. OwnerInv'
        BY <2>3, <2>5, <2>6, <3>1, <2>1, UnmovedPlaces DEF Inv, OwnerInv
      <3>3. KeptInv'
        BY <2>3, <2>5, <2>6, <3>1, <2>1, UnmovedPlaces DEF Inv, KeptInv, Receiving
      <3> QED  BY <2>2, <2>7, <3>2, <3>3
    <2>9. CASE Take(c) \/ Disconnected(c) \/ RecvTest(c) \/ RecvSleep(c)
      <3>1. /\ waiting' = waiting /\ Receiving(c) /\ pc'[c] \notin {"new", "post", "gone"}
            /\ pc'[c] = "cancel" => left'[c] = TasksOf(c)
        BY <2>4, <2>9 DEF Take, Disconnected, RecvTest, RecvSleep, AfterResult, Receiving
      <3>2. OwnerInv'
        BY <2>3, <2>5, <2>6, <3>1, <2>1, UnmovedPlaces DEF Inv, OwnerInv
      <3>3. KeptInv'
        BY <2>3, <2>5, <2>6, <3>1, <2>1, UnmovedPlaces DEF Inv, KeptInv, Receiving
      <3> QED  BY <2>2, <2>7, <3>2, <3>3
    <2>10. CASE CancelWaiting(c)
      <3>1. PICK t \in left[c] : waiting' = waiting \ {t} /\ left' = [left EXCEPT ![c] = @ \ {t}]
        BY <2>10 DEF CancelWaiting
      <3>2. pc' = pc /\ pc[c] = "cancel" /\ left'[c] = left[c] \ {t}
        BY <2>4, <2>10, <3>1 DEF CancelWaiting
      <3>3. OwnerInv'
        BY <2>3, <2>6, <3>1, <3>2, <2>1, UnmovedPlaces DEF Inv, OwnerInv
      <3>4. KeptInv'
        BY <2>3, <3>1, <3>2, <2>1, UnmovedPlaces DEF Inv, KeptInv, Receiving
      <3> QED  BY <2>2, <2>7, <3>3, <3>4
    <2>11. CASE Finish(c)
      <3>1. /\ waiting' \subseteq waiting /\ left' = left /\ pc[c] = "finish" /\ pc'[c] = "done"
        BY <2>4, <2>11 DEF Finish
      <3>2. OwnerInv'
        BY <2>3, <2>6, <3>1, <2>1, UnmovedPlaces DEF Inv, OwnerInv
      <3>3. KeptInv'
        BY <2>3, <2>6, <3>1, <2>1, UnmovedPlaces DEF Inv, KeptInv, Receiving
      <3> QED  BY <2>2, <2>7, <3>2, <3>3
    <2> QED  BY <1>5, <2>8, <2>9, <2>10, <2>11
  <1> QED  BY <1>1, <1>2, <1>3, <1>4, <1>5

(***************************************************************************)
(* The steps that move a task.                                             *)
(***************************************************************************)

(* The head of the queue is taken in hand. *)
LEMMA TakeTaskStep ==
    ASSUME Inv, TakeTask
    PROVE  /\ PlaceInv' /\ OwnerInv' /\ KeptInv' /\ SlotInv' /\ CancelInv'
           /\ \A t \in Tasks : Present(t)' => Present(t)
  <1> USE DEF taskq, resq, slots, loop, http, history
  <1>1. /\ main = "tasks" /\ main' = "process" /\ queue # <<>>
        /\ cur' = Head(queue) /\ queue' = Tail(queue)
        /\ UNCHANGED <<deferred, waiting, finals, id_task, busy, batch, req, pc, left, ghosts>>
    BY DEF TakeTask
  <1>2. queue \in Seq(Messages)
    BY DEF Inv, TypeOK
  <1>3. \A x : /\ Contains(queue, x) <=> cur' = x \/ Contains(queue', x)
               /\ Once(queue, x) => Once(queue', x) /\ ~(cur' = x /\ Contains(queue', x))
    BY <1>1, <1>2, TailFacts
  <1>4. \A t \in Tasks : /\ InHand(t)' <=> cur' = Work(t)
                         /\ ~InHand(t)
                         /\ \A s \in Slots : Runs(s, t)' <=> Runs(s, t)
                         /\ TasksOf(Owner(t))' = TasksOf(Owner(t))
    BY <1>1 DEF InHand, Runs, TasksOf
  <1>5. \A t \in Tasks : Running(t)' <=> Running(t)
    BY <1>4 DEF Running
  <1>6. \A t \in Tasks : Pending(t) <=> Pending(t)' \/ InHand(t)'
    BY <1>1, <1>3, <1>4 DEF Pending
  <1>7. \A t \in Tasks : Present(t)' <=> Present(t)
    BY <1>4, <1>5, <1>6 DEF Present
  <1>8. \A t \in Tasks : /\ OnceInBoth(queue, deferred, Work(t)) => OnceInBoth(queue, deferred, Work(t))'
                         /\ OnceInBoth(queue, deferred, Work(t)) => ~(Pending(t)' /\ InHand(t)')
    BY <1>1, <1>3, <1>4 DEF OnceInBoth, Pending
  <1>9. PlaceInv'
    BY <1>4, <1>5, <1>6, <1>8 DEF Inv, PlaceInv
  <1>10. OwnerInv'
    BY <1>1, <1>4, <1>7 DEF Inv, OwnerInv
  <1>11. KeptInv'
    BY <1>1, <1>7 DEF Inv, KeptInv, Receiving
  <1>12. SlotInv'
    BY <1>1 DEF Inv, SlotInv
  <1>13. CancelInv'
    BY <1>1, <1>3, <1>5, <1>6 DEF Inv, CancelInv
  <1> QED  BY <1>9, <1>10, <1>11, <1>12, <1>13, <1>7

(* The task in hand is deferred. *)
LEMMA ProcessDeferStep ==
    ASSUME Inv, ProcessDefer
    PROVE  /\ PlaceInv' /\ OwnerInv' /\ KeptInv' /\ SlotInv' /\ CancelInv'
           /\ \A t \in Tasks : Present(t)' => Present(t)
  <1> USE DEF taskq, resq, slots, loop, http, history
  <1>1. /\ main = "process" /\ main' = "tasks" /\ cur.type = "work"
        /\ deferred' = Append(deferred, Work(cur.id))
        /\ UNCHANGED <<queue, waiting, finals, id_task, busy, batch, req, pc, left, ghosts>>
    BY DEF ProcessDefer, Defer, Goto
  <1>2. PICK u \in Tasks : cur = Work(u) /\ cur.id = u
    BY <1>1, MessageFacts DEF Inv, TypeOK
  <1>3. deferred \in Seq(Messages) /\ Work(u) \in Messages
    BY MessageFacts DEF Inv, TypeOK
  <1>4. deferred' = Append(deferred, Work(u))
    BY <1>1, <1>2
  <1>5. \A x : /\ Contains(deferred', x) <=> Contains(deferred, x) \/ Work(u) = x
               /\ Once(deferred, x) /\ ~(Contains(deferred, x) /\ Work(u) = x) => Once(deferred', x)
    BY <1>3, <1>4, AppendFacts
  <1>6. \A t \in Tasks : /\ InHand(t) <=> t = u
                         /\ Work(u) = Work(t) <=> t = u
                         /\ ~InHand(t)'
                         /\ \A s \in Slots : Runs(s, t)' <=> Runs(s, t)
                         /\ TasksOf(Owner(t))' = TasksOf(Owner(t))
    BY <1>1, <1>2, MessageDistinct DEF InHand, Runs, TasksOf
  <1>7. \A t \in Tasks : Running(t)' <=> Running(t)
    BY <1>6 DEF Running
  <1>8. \A t \in Tasks : Pending(t)' <=> Pending(t) \/ t = u
    BY <1>1, <1>5, <1>6 DEF Pending
  <1>9. \A t \in Tasks : Present(t)' <=> Present(t)
    BY <1>6, <1>7, <1>8 DEF Present
  <1>10. ASSUME NEW t \in Tasks  PROVE OnceInBoth(queue, deferred, Work(t))'
    BY <1>1, <1>5, <1>6 DEF Inv, PlaceInv, OnceInBoth, Pending
  <1>11. PlaceInv'
    BY <1>6, <1>7, <1>8, <1>10 DEF Inv, PlaceInv
  <1>12. OwnerInv'
    BY <1>1, <1>6, <1>9 DEF Inv, OwnerInv
  <1>13. KeptInv'
    BY <1>1, <1>9 DEF Inv, KeptInv, Receiving
  <1>14. SlotInv'
    BY <1>1 DEF Inv, SlotInv
  <1>15. CancelInv'
    BY <1>1, <1>2, <1>6, <1>7, <1>8, MessageDistinct DEF Inv, CancelInv
  <1> QED  BY <1>11, <1>12, <1>13, <1>14, <1>15, <1>9

(* What an answer does, if there is one. *)
LEMMA AnswerFacts ==
    ASSUME TypeOK, NEW r \in Results, Send(<<r>>)
    PROVE  /\ UNCHANGED <<waiting, resRunning>>
           /\ \A c \in Clients : \/ pc'[c] = pc[c]
                                 \/ pc[c] = "asleep" /\ pc'[c] = "recv"
           /\ \A t \in Tasks : /\ finals'[t] = 0 => finals[t] = 0
                               /\ Ends(r, t) /\ t \in waiting => finals'[t] # 0
  <1>1. finals \in [Tasks -> Nat]
    BY DEF TypeOK
  <1>2. CASE r.id \in waiting
    <2>1. /\ UNCHANGED <<waiting, resRunning>> /\ pc' = Woken
          /\ finals' = [t \in Tasks |-> IF Ends(r, t) THEN finals[t] + 1 ELSE finals[t]]
      BY <1>2, SendOne
    <2>2. \A t \in Tasks : /\ finals'[t] = 0 => finals[t] = 0
                           /\ Ends(r, t) /\ t \in waiting => finals'[t] # 0
      BY <1>1, <2>1
    <2> QED  BY <2>1, <2>2, WokenFacts
  <1>3. CASE r.id \notin waiting
    BY <1>3, SendOne DEF Ends
  <1> QED  BY <1>2, <1>3

(* The task in hand is given to an idle slot, or refused. *)
LEMMA ProcessLaunchStep ==
    ASSUME Inv, ProcessLaunch
    PROVE  /\ PlaceInv' /\ OwnerInv' /\ KeptInv' /\ SlotInv' /\ CancelInv'
           /\ \A t \in Tasks : Present(t)' => Present(t) /\ (t = cur.id => ~IsBad(cur.id))
  <1> USE DEF taskq, resq, slots, loop, http, history
  <1>0. TypeOK
    BY DEF Inv
  <1>1. /\ main = "process" /\ main' = "tasks" /\ cur.type = "work"
        /\ UNCHANGED <<queue, deferred, req, left, ghosts, batch>>
    BY DEF ProcessLaunch, Goto
  <1>2. PICK u \in Tasks : cur = Work(u) /\ cur.id = u
    BY <1>0, <1>1, MessageFacts DEF TypeOK
  <1>3. PICK s \in Available(u) : /\ id_task' = [id_task EXCEPT ![s] = u]
                                  /\ busy' = [busy EXCEPT ![s] = ~IsBad(u)]
    BY <1>2 DEF ProcessLaunch
  <1>4. s \in Slots /\ ~busy[s]
    BY <1>0, <1>3, TaskFacts, RequestFacts, SlotFacts DEF Available, Candidates
  <1>5. \A r \in Slots : /\ r # s => (busy'[r] <=> busy[r]) /\ id_task'[r] = id_task[r]
                         /\ r = s => (busy'[r] <=> ~IsBad(u)) /\ id_task'[r] = u
    BY <1>0, <1>3, <1>4 DEF TypeOK
  <1>6. \A t \in Tasks : /\ InHand(t) <=> t = u
                         /\ ~InHand(t)'
                         /\ TasksOf(Owner(t))' = TasksOf(Owner(t))
                         /\ Pending(t)' <=> Pending(t)
                         /\ \A r \in Slots : Runs(r, t)' <=> Runs(r, t) \/ (r = s /\ t = u /\ ~IsBad(u))
    BY <1>1, <1>2, <1>4, <1>5, MessageDistinct DEF InHand, Runs, TasksOf, Pending
  <1>7. \A t \in Tasks : Running(t)' <=> Running(t) \/ (t = u /\ ~IsBad(u))
    BY <1>4, <1>6 DEF Running
  <1>8. \A t \in Tasks : Present(t)' <=> Present(t) /\ (t = u => ~IsBad(u))
    BY <1>6, <1>7 DEF Present, Inv, PlaceInv
  <1>9. \A t \in Tasks : ~(InHand(t) /\ Running(t)) /\ ~(InHand(t) /\ Pending(t))
    BY DEF Inv, PlaceInv
  <1>10. PlaceInv'
    <2> SUFFICES ASSUME NEW t \in Tasks
                 PROVE  /\ OnceInBoth(queue, deferred, Work(t))'
                        /\ \A r, v \in Slots : Runs(r, t)' /\ Runs(v, t)' => r = v
                        /\ ~(Pending(t)' /\ InHand(t)')
                        /\ ~(Pending(t)' /\ Running(t)')
                        /\ ~(InHand(t)' /\ Running(t)')
      BY DEF PlaceInv
    <2>1. OnceInBoth(queue, deferred, Work(t))'
      BY <1>1 DEF Inv, PlaceInv
    <2>2. \A r, v \in Slots : Runs(r, t)' /\ Runs(v, t)' => r = v
      BY <1>6, <1>9 DEF Inv, PlaceInv, Running
    <2> QED  BY <1>6, <1>7, <1>9, <2>1, <2>2 DEF Inv, PlaceInv
  <1>11. /\ UNCHANGED waiting
         /\ \A c \in Clients : \/ pc'[c] = pc[c]
                               \/ pc[c] = "asleep" /\ pc'[c] = "recv"
         /\ \A t \in Tasks : /\ finals'[t] = 0 => finals[t] = 0
                             /\ IsBad(u) /\ t = u /\ t \in waiting => finals'[t] # 0
    <2> DEFINE r == Result(u, "error")
    <2>1. CASE IsBad(u)
      <3>1. Send(<<r>>)
        BY <1>2, <2>1 DEF ProcessLaunch
      <3>2. r \in Results /\ \A t \in Tasks : Ends(r, t) <=> t = u
        BY DEF Result, Results, Ends
      <3> HIDE DEF r
      <3> QED  BY <1>0, <3>1, <3>2, AnswerFacts
    <2>2. CASE ~IsBad(u)
      BY <1>2, <2>2 DEF ProcessLaunch
    <2> QED  BY <2>1, <2>2
  <1>12. \A t \in Tasks : Owner(t) \in Clients
    BY TaskFacts
  <1>13. OwnerInv'
    BY <1>1, <1>6, <1>8, <1>11, <1>12 DEF Inv, OwnerInv
  <1>14. KeptInv'
    BY <1>8, <1>11, <1>12 DEF Inv, KeptInv, Receiving
  <1>15. SlotInv'
    BY <1>1, <1>5 DEF Inv, SlotInv
  <1>16. CancelInv'
    BY <1>1, <1>2, <1>6, <1>7, <1>11, <1>12, MessageDistinct DEF Inv, CancelInv
  <1> QED  BY <1>10, <1>13, <1>14, <1>15, <1>16, <1>2, <1>8

(* The task in hand is answered at once. *)
LEMMA ProcessAtOnceStep ==
    ASSUME Inv, ProcessAtOnce
    PROVE  /\ PlaceInv' /\ OwnerInv' /\ KeptInv' /\ SlotInv' /\ CancelInv'
           /\ \A t \in Tasks : Present(t)' => Present(t) /\ t # cur.id
  <1> USE DEF taskq, resq, slots, loop, http, history
  <1>0. TypeOK
    BY DEF Inv
  <1>1. /\ main = "process" /\ main' = "tasks" /\ cur.type = "work"
        /\ UNCHANGED <<queue, deferred, busy, id_task, req, left, ghosts, batch>>
    BY DEF ProcessAtOnce, Goto
  <1>2. PICK u \in Tasks : cur = Work(u) /\ cur.id = u
    BY <1>0, <1>1, MessageFacts DEF TypeOK
  <1>3. PICK type \in {"final", "error"} : Send(<<Result(u, type)>>)
    BY <1>2 DEF ProcessAtOnce
  <1>4. /\ UNCHANGED waiting
        /\ \A c \in Clients : \/ pc'[c] = pc[c]
                              \/ pc[c] = "asleep" /\ pc'[c] = "recv"
        /\ \A t \in Tasks : /\ finals'[t] = 0 => finals[t] = 0
                            /\ t = u /\ t \in waiting => finals'[t] # 0
    <2> DEFINE r == Result(u, type)
    <2>1. r \in Results /\ \A t \in Tasks : Ends(r, t) <=> t = u
      BY DEF Result, Results, Ends
    <2>2. Send(<<r>>)
      BY <1>3
    <2> HIDE DEF r
    <2> QED  BY <1>0, <2>1, <2>2, AnswerFacts
  <1>5. \A t \in Tasks : /\ InHand(t) <=> t = u
                         /\ ~InHand(t)'
                         /\ TasksOf(Owner(t))' = TasksOf(Owner(t))
                         /\ Pending(t)' <=> Pending(t)
                         /\ \A r \in Slots : Runs(r, t)' <=> Runs(r, t)
    BY <1>1, <1>2, MessageDistinct DEF InHand, Runs, TasksOf, Pending
  <1>6. \A t \in Tasks : Running(t)' <=> Running(t)
    BY <1>5 DEF Running
  <1>7. \A t \in Tasks : Present(t)' <=> Present(t) /\ t # u
    BY <1>5, <1>6 DEF Present, Inv, PlaceInv
  <1>8. \A t \in Tasks : Owner(t) \in Clients
    BY TaskFacts
  <1>9. PlaceInv'
    BY <1>1, <1>5, <1>6 DEF Inv, PlaceInv
  <1>10. OwnerInv'
    BY <1>1, <1>4, <1>5, <1>7, <1>8 DEF Inv, OwnerInv
  <1>11. KeptInv'
    BY <1>4, <1>7, <1>8 DEF Inv, KeptInv, Receiving
  <1>12. SlotInv'
    BY <1>1 DEF Inv, SlotInv
  <1>13. CancelInv'
    BY <1>1, <1>2, <1>4, <1>5, <1>6, <1>8, MessageDistinct DEF Inv, CancelInv
  <1> QED  BY <1>9, <1>10, <1>11, <1>12, <1>13, <1>2, <1>7

(* A release moves pending tasks, and ends the tasks of the slots. *)
LEMMA ReleasePlaces ==
    ASSUME TypeOK, NEW ss \in SUBSET Slots, Release(ss)
    PROVE  \A t \in Tasks :
              /\ Pending(t)' <=> Pending(t)
              /\ OnceInBoth(queue, deferred, Work(t)) => OnceInBoth(queue, deferred, Work(t))'
              /\ \A s \in Slots : Runs(s, t)' <=> Runs(s, t) /\ s \notin ss
              /\ Contains(queue, Cancel(t)) => Contains(queue', Cancel(t))
  <1> TAKE t \in Tasks
  <1>1. /\ Pending(t)' <=> Pending(t)
        /\ OnceInBoth(queue, deferred, Work(t)) => OnceInBoth(queue, deferred, Work(t))'
        /\ Contains(queue, Cancel(t)) => Contains(queue', Cancel(t))
    BY ReleaseFacts DEF Pending
  <1>2. \A s \in Slots : busy'[s] <=> busy[s] /\ s \notin ss
    BY DEF Release
  <1>3. \A s \in Slots : Runs(s, t)' <=> Runs(s, t) /\ s \notin ss
    BY <1>2, ReleaseFacts DEF Runs
  <1> QED  BY <1>1, <1>3

LEMMA ProcessCancelStep ==
    ASSUME Inv, ProcessCancel
    PROVE  /\ PlaceInv' /\ OwnerInv' /\ KeptInv' /\ SlotInv' /\ CancelInv'
           /\ \A t \in Tasks : Present(t)' => Present(t)
  <1> USE DEF taskq, resq, slots, loop, http, history
  <1>0. TypeOK
    BY DEF Inv
  <1>1. /\ main = "process" /\ main' = "tasks" /\ cur.type = "cancel"
        /\ Release(SlotOf(cur.id_target))
        /\ UNCHANGED <<waiting, finals, pc, req, left, ghosts, batch>>
    BY DEF ProcessCancel, Goto
  <1>2. PICK u \in Tasks : cur = Cancel(u) /\ cur.id_target = u
    BY <1>0, <1>1, MessageFacts DEF TypeOK
  <1>3. SlotOf(u) \in SUBSET Slots /\ Release(SlotOf(u))
    BY <1>1, <1>2 DEF SlotOf
  <1>4. \A t \in Tasks :
              /\ Pending(t)' <=> Pending(t)
              /\ OnceInBoth(queue, deferred, Work(t)) => OnceInBoth(queue, deferred, Work(t))'
              /\ \A s \in Slots : Runs(s, t)' <=> Runs(s, t) /\ t # u
              /\ Contains(queue, Cancel(t)) => Contains(queue', Cancel(t))
    BY <1>0, <1>3, ReleasePlaces DEF SlotOf, Runs
  <1>5. \A t \in Tasks : /\ ~InHand(t) /\ ~InHand(t)'
                         /\ TasksOf(Owner(t))' = TasksOf(Owner(t))
    BY <1>1, <1>2, MessageDistinct DEF InHand, TasksOf
  <1>6. \A t \in Tasks : Running(t)' <=> Running(t) /\ t # u
    BY <1>4 DEF Running
  <1>7. \A t \in Tasks : Present(t)' => Present(t)
    BY <1>4, <1>5, <1>6 DEF Present
  <1>8. PlaceInv'
    BY <1>4, <1>5, <1>6 DEF Inv, PlaceInv
  <1>9. OwnerInv'
    BY <1>1, <1>5, <1>7 DEF Inv, OwnerInv
  <1>10. KeptInv'
    <2>1. pc[Owner(u)] \in {"gone", "dead"}
      BY <1>1, <1>2 DEF Inv, GoneInv, Cancelling
    <2>2. \A t \in Tasks : Present(t) /\ t # u => Present(t)'
      BY <1>4, <1>5, <1>6 DEF Present
    <2> QED  BY <1>1, <2>1, <2>2 DEF Inv, KeptInv, Receiving
  <1>11. SlotInv'
    BY <1>0, <1>1, <1>3, ReleaseFacts DEF Inv, SlotInv
  <1>12. CancelInv'
    BY <1>1, <1>2, <1>4, <1>5, <1>6, MessageDistinct DEF Inv, CancelInv
  <1> QED  BY <1>8, <1>9, <1>10, <1>11, <1>12, <1>7

LEMMA SlotStopsStep ==
    ASSUME Inv, NEW s \in Slots, SlotStops(s)
    PROVE  /\ PlaceInv' /\ OwnerInv' /\ KeptInv' /\ SlotInv' /\ CancelInv'
           /\ \A t \in Tasks : Present(t)' => Present(t) /\ t # id_task[s]
  <1> USE DEF taskq, resq, slots, loop, http, history
  <1>0. TypeOK
    BY DEF Inv
  <1>1. /\ main = "slots" /\ s \in batch /\ Release({s})
        /\ UNCHANGED <<main, cur, req, left, ghosts>> /\ batch' = batch \ {s}
    BY DEF SlotStops, InBatch
  <1>2. busy[s] /\ id_task[s] \in Tasks
    BY <1>1 DEF Inv, SlotInv
  <1>3. PICK u \in Tasks : u = id_task[s]
    BY <1>2
  <1>4. PICK type \in {"final", "error"} : Send(<<Result(u, type)>>)
    BY <1>3 DEF SlotStops
  <1>5. /\ UNCHANGED waiting
        /\ \A c \in Clients : \/ pc'[c] = pc[c]
                              \/ pc[c] = "asleep" /\ pc'[c] = "recv"
        /\ \A t \in Tasks : /\ finals'[t] = 0 => finals[t] = 0
                            /\ t = u /\ t \in waiting => finals'[t] # 0
    <2> DEFINE r == Result(u, type)
    <2>1. r \in Results /\ \A t \in Tasks : Ends(r, t) <=> t = u
      BY DEF Result, Results, Ends
    <2>2. Send(<<r>>)
      BY <1>4
    <2> HIDE DEF r
    <2> QED  BY <1>0, <2>1, <2>2, AnswerFacts
  <1>6. \A t \in Tasks :
              /\ Pending(t)' <=> Pending(t)
              /\ OnceInBoth(queue, deferred, Work(t)) => OnceInBoth(queue, deferred, Work(t))'
              /\ \A r \in Slots : Runs(r, t)' <=> Runs(r, t) /\ r # s
              /\ Contains(queue, Cancel(t)) => Contains(queue', Cancel(t))
    BY <1>0, <1>1, ReleasePlaces
  <1>7. \A t \in Tasks : /\ ~InHand(t) /\ ~InHand(t)'
                         /\ TasksOf(Owner(t))' = TasksOf(Owner(t))
    BY <1>1 DEF InHand, TasksOf
  <1>8. \A t \in Tasks : Runs(s, t) => t = u
    BY <1>3 DEF Runs
  <1>9. \A t \in Tasks : /\ Running(t)' => Running(t)
                         /\ Running(t) /\ t # u => Running(t)'
    BY <1>6, <1>8 DEF Running
  <1>10. \A t \in Tasks : /\ Present(t)' => Present(t)
                          /\ Present(t) /\ t # u => Present(t)'
    BY <1>6, <1>7, <1>9 DEF Present
  <1>11. \A t \in Tasks : Owner(t) \in Clients
    BY TaskFacts
  <1>12. PlaceInv'
    BY <1>6, <1>7, <1>9 DEF Inv, PlaceInv
  <1>13. OwnerInv'
    BY <1>1, <1>5, <1>7, <1>10, <1>11 DEF Inv, OwnerInv
  <1>14. KeptInv'
    BY <1>5, <1>10, <1>11 DEF Inv, KeptInv, Receiving
  <1>15. SlotInv'
    <2>1. \A r \in Slots : busy'[r] <=> busy[r] /\ r # s
      BY <1>1 DEF Release
    <2>2. id_task' = id_task /\ batch \in SUBSET Slots
      BY <1>0, <1>1 DEF Release, TypeOK
    <2> QED  BY <1>1, <2>1, <2>2 DEF Inv, SlotInv
  <1>16. CancelInv'
    BY <1>1, <1>5, <1>6, <1>7, <1>9, <1>11 DEF Inv, CancelInv
  <1>17. ~Present(u)'
    <2>1. Runs(s, u) /\ Running(u)
      BY <1>2, <1>3 DEF Runs, Running
    <2>2. \A r \in Slots : ~Runs(r, u)'
      BY <1>6, <2>1 DEF Inv, PlaceInv
    <2>3. ~Pending(u)'
      BY <1>6, <2>1 DEF Inv, PlaceInv
    <2> QED  BY <1>7, <2>2, <2>3 DEF Present, Running
  <1> QED  BY <1>12, <1>13, <1>14, <1>15, <1>16, <1>3, <1>10, <1>17

LEMMA DecodeFailsStep ==
    ASSUME Inv, DecodeFails
    PROVE  PlaceInv' /\ OwnerInv' /\ KeptInv' /\ SlotInv' /\ CancelInv'
  <1> USE DEF taskq, resq, slots, loop, http, history
  <1>0. TypeOK
    BY DEF Inv
  <1>1. /\ main = "slots" /\ Release(Slots)
        /\ Send([s \in Slots |-> Result(id_task[s], "error")])
        /\ UNCHANGED <<main, cur, req, left, ghosts>> /\ batch' = {}
    BY DEF DecodeFails
  <1>2. /\ UNCHANGED waiting
        /\ pc' = pc \/ pc' = Woken
        /\ \A t \in Tasks : /\ finals'[t] = 0 => finals[t] = 0
                            /\ Running(t) /\ t \in waiting => finals'[t] # 0
    BY <1>0, <1>1, SendAll
  <1>3. \A c \in Clients : \/ pc'[c] = pc[c]
                           \/ pc[c] = "asleep" /\ pc'[c] = "recv"
    BY <1>0, <1>2, WokenFacts
  <1>4. \A t \in Tasks :
              /\ Pending(t)' <=> Pending(t)
              /\ OnceInBoth(queue, deferred, Work(t)) => OnceInBoth(queue, deferred, Work(t))'
              /\ \A r \in Slots : ~Runs(r, t)'
    BY <1>0, <1>1, ReleasePlaces
  <1>5. \A t \in Tasks : /\ ~InHand(t) /\ ~InHand(t)' /\ ~Running(t)'
                         /\ TasksOf(Owner(t))' = TasksOf(Owner(t))
    BY <1>1, <1>4 DEF InHand, TasksOf, Running
  <1>6. \A t \in Tasks : /\ Present(t)' => Present(t)
                         /\ Present(t) /\ ~Running(t) => Present(t)'
    BY <1>4, <1>5 DEF Present
  <1>7. \A t \in Tasks : Owner(t) \in Clients
    BY TaskFacts
  <1>8. PlaceInv'
    BY <1>4, <1>5 DEF Inv, PlaceInv
  <1>9. OwnerInv'
    BY <1>1, <1>2, <1>3, <1>5, <1>6, <1>7 DEF Inv, OwnerInv
  <1>10. KeptInv'
    BY <1>2, <1>3, <1>6, <1>7 DEF Inv, KeptInv, Receiving
  <1>11. SlotInv'
    <2>1. \A r \in Slots : ~busy'[r]
      BY <1>1 DEF Release
    <2> QED  BY <1>1, <2>1 DEF SlotInv
  <1>12. CancelInv'
    BY <1>1, <1>3, <1>4, <1>5, <1>7 DEF Inv, CancelInv
  <1> QED  BY <1>8, <1>9, <1>10, <1>11, <1>12

LEMMA UpdateBatchStep ==
    ASSUME Inv, UpdateBatch
    PROVE  /\ PlaceInv' /\ OwnerInv' /\ KeptInv' /\ SlotInv' /\ CancelInv'
           /\ \A t \in Tasks : Present(t)' => Present(t)
  <1> USE DEF taskq, resq, slots, loop, http, history
  <1>0. TypeOK
    BY DEF Inv
  <1>1. /\ main = "update" /\ main' = "slots" /\ queue' = Append(queue, NextResponse)
        /\ UNCHANGED <<deferred, waiting, finals, busy, id_task, cur, req, pc, left, ghosts>>
        /\ batch' \in SUBSET {s \in Slots : busy[s]}
    BY DEF UpdateBatch
  <1>2. queue \in Seq(Messages) /\ NextResponse \in Messages
    BY <1>0, MessageFacts DEF TypeOK
  <1>3. \A t \in Tasks : /\ Contains(queue', Work(t)) <=> Contains(queue, Work(t))
                         /\ Contains(queue', Cancel(t)) <=> Contains(queue, Cancel(t))
                         /\ Once(queue, Work(t)) => Once(queue', Work(t))
    BY <1>1, <1>2, AppendFacts, MessageDistinct
  <1>4. \A t \in Tasks :
              /\ Pending(t)' <=> Pending(t)
              /\ OnceInBoth(queue, deferred, Work(t)) => OnceInBoth(queue, deferred, Work(t))'
              /\ \A r \in Slots : Runs(r, t)' <=> Runs(r, t)
              /\ ~InHand(t) /\ ~InHand(t)'
              /\ TasksOf(Owner(t))' = TasksOf(Owner(t))
    BY <1>1, <1>3 DEF Pending, OnceInBoth, Runs, InHand, TasksOf
  <1>5. \A t \in Tasks : Running(t)' <=> Running(t)
    BY <1>4 DEF Running
  <1>6. \A t \in Tasks : Present(t)' <=> Present(t)
    BY <1>4, <1>5 DEF Present
  <1>7. PlaceInv'
    BY <1>4, <1>5 DEF Inv, PlaceInv
  <1>8. OwnerInv'
    BY <1>1, <1>4, <1>6 DEF Inv, OwnerInv
  <1>9. KeptInv'
    BY <1>1, <1>6 DEF Inv, KeptInv, Receiving
  <1>10. SlotInv'
    BY <1>1 DEF Inv, SlotInv
  <1>11. CancelInv'
    BY <1>1, <1>3, <1>4, <1>5 DEF Inv, CancelInv
  <1> QED  BY <1>7, <1>8, <1>9, <1>10, <1>11, <1>6

(* The tasks of a request are posted. *)
LEMMA PostStep ==
    ASSUME Inv, NEW c \in Clients, Post(c)
    PROVE  /\ PlaceInv' /\ OwnerInv' /\ KeptInv' /\ SlotInv' /\ CancelInv'
           /\ \A t \in Tasks : Present(t)' => Present(t) \/ t \in TasksOf(c)
  <1> USE DEF taskq, resq, slots, loop, http, history
  <1>0. TypeOK
    BY DEF Inv
  <1> DEFINE work == [i \in 1 .. req[c].n |-> Work(<<c, i>>)]
  <1>1. /\ work \in Seq(Messages)
        /\ \A t \in Tasks : /\ Contains(work, Work(t)) <=> t \in TasksOf(c)
                            /\ Once(work, Work(t))
                            /\ ~Contains(work, Cancel(t))
    BY <1>0, WorkFacts
  <1>2. queue' = queue \o work \/ queue' = work \o queue
    BY DEF Post
  <1> HIDE DEF work
  <1>3. /\ pc[c] = "post" /\ pc' = [pc EXCEPT ![c] = "recv"]
        /\ UNCHANGED <<deferred, waiting, finals, busy, id_task, main, cur, batch, req, left, ghosts>>
    BY DEF Post
  <1>4. pc'[c] = "recv" /\ \A d \in Clients \ {c} : pc'[d] = pc[d]
    BY <1>0, <1>3 DEF TypeOK
  <1>5. queue \in Seq(Messages)
    BY <1>0 DEF TypeOK
  <1>6. \A x : /\ Contains(queue \o work, x) <=> Contains(queue, x) \/ Contains(work, x)
               /\ Contains(work \o queue, x) <=> Contains(queue, x) \/ Contains(work, x)
               /\ OnceInBoth(queue, work, x) => Once(queue \o work, x)
               /\ OnceInBoth(work, queue, x) => Once(work \o queue, x)
    BY <1>1, <1>5, ConcatFacts
  <1>7. \A t \in Tasks : /\ Contains(queue', Work(t)) <=> Contains(queue, Work(t)) \/ t \in TasksOf(c)
                         /\ Contains(queue', Cancel(t)) <=> Contains(queue, Cancel(t))
                         /\ Once(queue, Work(t)) /\ ~(Contains(queue, Work(t)) /\ t \in TasksOf(c))
                               => Once(queue', Work(t))
    BY <1>1, <1>2, <1>6 DEF OnceInBoth
  <1>8. \A t \in TasksOf(c) : t \in Tasks /\ Owner(t) = c
    BY <1>0, RequestFacts
  <1>9. \A t \in TasksOf(c) : ~Present(t)
    BY <1>3, <1>8 DEF Inv, OwnerInv
  <1>10. \A t \in Tasks :
              /\ Pending(t)' <=> Pending(t) \/ t \in TasksOf(c)
              /\ \A r \in Slots : Runs(r, t)' <=> Runs(r, t)
              /\ InHand(t)' <=> InHand(t)
              /\ TasksOf(Owner(t))' = TasksOf(Owner(t))
    BY <1>3, <1>7 DEF Pending, Runs, InHand, TasksOf
  <1>11. \A t \in Tasks : Running(t)' <=> Running(t)
    BY <1>10 DEF Running
  <1>12. \A t \in Tasks : Present(t)' <=> Present(t) \/ t \in TasksOf(c)
    BY <1>10, <1>11 DEF Present
  <1>13. \A t \in Tasks : OnceInBoth(queue, deferred, Work(t))'
    <2> TAKE t \in Tasks
    <2>1. OnceInBoth(queue, deferred, Work(t))
      BY DEF Inv, PlaceInv
    <2>2. t \in TasksOf(c) => ~Contains(queue, Work(t)) /\ ~Contains(deferred, Work(t))
      BY <1>9 DEF Present, Pending
    <2> QED  BY <1>3, <1>7, <2>1, <2>2 DEF OnceInBoth
  <1>14. PlaceInv'
    BY <1>9, <1>10, <1>11, <1>13 DEF Inv, PlaceInv, Present
  <1>15. \A t \in Tasks : Owner(t) \in Clients
    BY TaskFacts
  <1>16. OwnerInv'
    BY <1>3, <1>4, <1>8, <1>10, <1>12, <1>15 DEF Inv, OwnerInv
  <1>17. KeptInv'
    <2> SUFFICES ASSUME NEW t \in Tasks, Receiving(Owner(t))', t \in waiting', finals'[t] = 0
                 PROVE  Present(t)'
      BY DEF KeptInv
    <2>1. CASE Owner(t) = c
      <3>1. t \in TasksOf(c)
        BY <1>3, <2>1 DEF Inv, OwnerInv
      <3> QED  BY <1>12, <3>1
    <2>2. CASE Owner(t) # c
      BY <1>3, <1>4, <1>12, <1>15, <2>2 DEF Inv, KeptInv, Receiving
    <2> QED  BY <2>1, <2>2
  <1>18. SlotInv'
    BY <1>3 DEF Inv, SlotInv
  <1>19. CancelInv'
    BY <1>3, <1>4, <1>7, <1>8, <1>10, <1>11, <1>15 DEF Inv, CancelInv
  <1> QED  BY <1>14, <1>16, <1>17, <1>18, <1>19, <1>12

(* The cancellations of a request are posted. *)
LEMMA PostCancelStep ==
    ASSUME Inv, NEW c \in Clients, PostCancel(c)
    PROVE  /\ PlaceInv' /\ OwnerInv' /\ KeptInv' /\ SlotInv' /\ CancelInv'
           /\ \A t \in Tasks : Present(t)' => Present(t)
  <1> USE DEF taskq, resq, slots, loop, http, history
  <1>0. TypeOK
    BY DEF Inv
  <1>1. PICK order \in Bijection(1 .. req[c].n, TasksOf(c)) :
             queue' = [i \in 1 .. req[c].n |-> Cancel(order[i])] \o Cleaned(queue, TasksOf(c))
    BY DEF PostCancel
  <1> DEFINE cancels == [i \in 1 .. req[c].n |-> Cancel(order[i])]
             q == Cleaned(queue, TasksOf(c))
             d == Cleaned(deferred, TasksOf(c))
  <1>2. /\ cancels \in Seq(Messages)
        /\ \A t \in Tasks : ~Contains(cancels, Work(t)) /\ Once(cancels, Work(t))
        /\ \A t \in TasksOf(c) : Contains(cancels, Cancel(t))
    BY <1>0, CancelFacts
  <1>3. /\ pc[c] = "cancel" /\ left[c] = {} /\ pc' = [pc EXCEPT ![c] = "gone"]
        /\ queue' = cancels \o q /\ deferred' = d
        /\ ghosts' = ghosts \cup {t \in TasksOf(c) : Pending(t) \/ InHand(t)}
        /\ UNCHANGED <<waiting, finals, busy, id_task, main, cur, batch, req, left>>
    BY <1>1 DEF PostCancel
  <1>4. pc'[c] = "gone" /\ \A e \in Clients \ {c} : pc'[e] = pc[e]
    BY <1>0, <1>3 DEF TypeOK
  <1>5. \A t \in TasksOf(c) : t \in Tasks /\ Owner(t) = c
    BY <1>0, RequestFacts
  <1>6. /\ q \in Seq(Messages)
        /\ \A t \in Tasks : /\ Contains(q, Work(t)) <=> Contains(queue, Work(t))
                            /\ Once(queue, Work(t)) => Once(q, Work(t))
        /\ \A t \in Tasks \ TasksOf(c) : Contains(queue, Cancel(t)) => Contains(q, Cancel(t))
        /\ \A t \in Tasks : /\ Contains(d, Work(t)) <=> Contains(deferred, Work(t))
                            /\ Once(deferred, Work(t)) => Once(d, Work(t))
    <2>1. queue \in Seq(Messages) /\ deferred \in Seq(Messages) /\ TasksOf(c) \in SUBSET Tasks
      BY <1>0, <1>5 DEF TypeOK
    <2> QED  BY <2>1, CleanedFacts
  <1> HIDE DEF cancels, q, d
  <1>7. \A x : /\ Contains(cancels \o q, x) <=> Contains(cancels, x) \/ Contains(q, x)
               /\ OnceInBoth(cancels, q, x) => Once(cancels \o q, x)
    BY <1>2, <1>6, ConcatFacts
  <1>8. \A t \in Tasks : /\ Contains(queue', Work(t)) <=> Contains(queue, Work(t))
                         /\ Contains(deferred', Work(t)) <=> Contains(deferred, Work(t))
                         /\ Once(queue, Work(t)) => Once(queue', Work(t))
                         /\ Once(deferred, Work(t)) => Once(deferred', Work(t))
                         /\ Contains(queue, Cancel(t)) \/ t \in TasksOf(c) => Contains(queue', Cancel(t))
    BY <1>2, <1>3, <1>6, <1>7 DEF OnceInBoth
  <1>9. \A t \in Tasks :
              /\ Pending(t)' <=> Pending(t)
              /\ OnceInBoth(queue, deferred, Work(t)) => OnceInBoth(queue, deferred, Work(t))'
              /\ \A r \in Slots : Runs(r, t)' <=> Runs(r, t)
              /\ InHand(t)' <=> InHand(t)
              /\ TasksOf(Owner(t))' = TasksOf(Owner(t))
    BY <1>3, <1>8 DEF Pending, OnceInBoth, Runs, InHand, TasksOf
  <1>10. \A t \in Tasks : Running(t)' <=> Running(t)
    BY <1>9 DEF Running
  <1>11. \A t \in Tasks : Present(t)' <=> Present(t)
    BY <1>9, <1>10 DEF Present
  <1>12. \A t \in Tasks : Owner(t) \in Clients
    BY TaskFacts
  <1>13. PlaceInv'
    BY <1>9, <1>10 DEF Inv, PlaceInv
  <1>14. OwnerInv'
    BY <1>3, <1>4, <1>9, <1>11, <1>12 DEF Inv, OwnerInv
  <1>15. KeptInv'
    BY <1>3, <1>4, <1>11, <1>12 DEF Inv, KeptInv, Receiving
  <1>16. SlotInv'
    BY <1>3 DEF Inv, SlotInv
  <1>17. CancelInv'
    <2> SUFFICES ASSUME NEW t \in Tasks, t \notin ghosts', pc'[Owner(t)] = "gone"
                 PROVE  /\ ~Pending(t)' /\ ~InHand(t)'
                        /\ Running(t)' => \/ Contains(queue', Cancel(t))
                                          \/ main' = "process" /\ cur' = Cancel(t)
      BY DEF CancelInv
    <2>1. CASE Owner(t) # c
      BY <1>3, <1>4, <1>8, <1>9, <1>10, <1>12, <2>1 DEF Inv, CancelInv
    <2>2. CASE Owner(t) = c
      <3>1. t \in TasksOf(c) \/ ~Present(t)
        BY <2>2 DEF Inv, OwnerInv
      <3>2. CASE t \in TasksOf(c)
        BY <1>3, <1>8, <1>9, <3>2
      <3>3. CASE ~Present(t)
        BY <1>9, <1>10, <3>3 DEF Present
      <3> QED  BY <3>1, <3>2, <3>3
    <2> QED  BY <2>1, <2>2
  <1> QED  BY <1>13, <1>14, <1>15, <1>16, <1>17, <1>11

LEMMA RecvAbortsStep ==
    ASSUME Inv, NEW c \in Clients, RecvAborts(c)
    PROVE  /\ PlaceInv' /\ OwnerInv' /\ KeptInv' /\ SlotInv' /\ CancelInv'
           /\ \A t \in Tasks : Present(t)' => Present(t)
  <1> USE DEF taskq, resq, slots, loop, http, history
  <1>1. /\ main' = "aborted"
        /\ \A d \in Clients : pc'[d] = "dead"
        /\ UNCHANGED <<queue, deferred, waiting, finals, busy, id_task, req, left>>
    BY DEF RecvAborts
  <1>2. \A t \in Tasks : Owner(t) \in Clients
    BY TaskFacts
  <1>3. \A t \in Tasks : /\ Pending(t)' <=> Pending(t)
                         /\ \A r \in Slots : Runs(r, t)' <=> Runs(r, t)
                         /\ ~InHand(t)'
                         /\ TasksOf(Owner(t))' = TasksOf(Owner(t))
    BY <1>1 DEF Pending, Runs, InHand, TasksOf
  <1>4. \A t \in Tasks : Running(t)' <=> Running(t)
    BY <1>3 DEF Running
  <1>5. \A t \in Tasks : Present(t)' => Present(t)
    BY <1>3, <1>4 DEF Present
  <1>6. PlaceInv'
    BY <1>1, <1>3, <1>4 DEF Inv, PlaceInv
  <1>7. OwnerInv'
    BY <1>1, <1>2, <1>3, <1>5 DEF Inv, OwnerInv
  <1>8. KeptInv' /\ CancelInv'
    BY <1>1, <1>2 DEF KeptInv, CancelInv, Receiving
  <1>9. SlotInv'
    BY <1>1 DEF Inv, SlotInv
  <1> QED  BY <1>6, <1>7, <1>8, <1>9, <1>5

(* Cancellations come from clients that have left, and these stay away. *)
LEMMA GoneStep ==
    ASSUME Inv, Next
    PROVE  GoneInv'
  <1> USE DEF taskq, resq, slots, loop, http, history
  <1> DEFINE Left(c) == pc[c] \in {"gone", "dead"}
             Stays == /\ \A c \in Clients : Left(c) => Left(c)'
                      /\ \A t \in Tasks : Cancelling(t)' => Cancelling(t) \/ pc'[Owner(t)] = "gone"
  <1>0. TypeOK /\ queue \in Seq(Messages) /\ deferred \in Seq(Messages) /\ cur \in Messages
    BY DEF Inv, TypeOK
  <1>1. \A t \in Tasks : Owner(t) \in Clients
    BY TaskFacts
  <1>2. Stays => GoneInv'
    BY <1>1 DEF Inv, GoneInv
  <1>3. pc' = pc \/ pc' = Woken => \A c \in Clients : Left(c) => Left(c)'
    BY <1>0, WokenFacts
  <1>4. ASSUME NEW r \in Results, Send(<<r>>)  PROVE \A c \in Clients : Left(c) => Left(c)'
    BY <1>0, <1>4, AnswerFacts
  <1>5. ASSUME Unmoved  PROVE \A t \in Tasks : Cancelling(t)' => Cancelling(t)
    BY <1>5 DEF Unmoved, Cancelling
  <1>6. CASE NoMoreTasks \/ Wait \/ LoopEnds \/ ProcessNext \/ UpdateIdle \/ UpdateDone \/ Join
             \/ Signal \/ CleanUp
    <2>1. Unmoved
      BY <1>0, <1>6, MessageFacts DEF Unmoved, NoMoreTasks, Wait, LoopEnds, ProcessNext,
         UpdateIdle, UpdateDone, Join, Goto, Signal, CleanUp
    <2>2. pc' = pc \/ pc' = Woken
      BY <1>6 DEF NoMoreTasks, Wait, LoopEnds, ProcessNext, UpdateIdle, UpdateDone, Join, Signal,
         CleanUp
    <2> QED  BY <1>2, <1>3, <1>5, <2>1, <2>2
  <1>7. ASSUME NEW s \in Slots, SlotAdvances(s)  PROVE GoneInv'
    <2>1. Unmoved
      BY <1>7 DEF Unmoved, SlotAdvances
    <2>2. Result(id_task[s], "partial") \in Results
      BY <1>7 DEF Inv, SlotInv, SlotAdvances, InBatch, Result, Results
    <2>3. pc' = pc \/ Send(<<Result(id_task[s], "partial")>>)
      BY <1>7 DEF SlotAdvances
    <2> QED  BY <1>2, <1>3, <1>4, <1>5, <2>1, <2>2, <2>3
  <1>8. ASSUME NEW c \in Clients,
               \/ AddWaiting(c) \/ Take(c) \/ Disconnected(c) \/ RecvTest(c) \/ RecvSleep(c)
               \/ CancelWaiting(c) \/ Finish(c)
        PROVE  GoneInv'
    <2>1. Unmoved
      BY <1>8 DEF Unmoved, AddWaiting, Take, Disconnected, RecvTest, RecvSleep, CancelWaiting, Finish
    <2>2. /\ pc[c] \notin {"gone", "dead"}
          /\ \A d \in Clients \ {c} : pc'[d] = pc[d]
      BY <1>0, <1>8 DEF TypeOK, AddWaiting, Take, Disconnected, RecvTest, RecvSleep, CancelWaiting,
         Finish
    <2> QED  BY <1>2, <1>5, <2>1, <2>2
  <1>9. CASE TakeTask
    <2>1. \A t \in Tasks : Cancelling(t)' => Cancelling(t)
      BY <1>0, <1>9, TailFacts DEF TakeTask, Cancelling
    <2> QED  BY <1>2, <1>9, <2>1 DEF TakeTask
  <1>10. CASE ProcessDefer
    <2>1. cur.id \in Tasks /\ Work(cur.id) \in Messages
      BY <1>0, <1>10, MessageFacts DEF ProcessDefer
    <2>2. deferred' = Append(deferred, Work(cur.id)) /\ queue' = queue /\ main' = "tasks" /\ pc' = pc
      BY <1>10 DEF ProcessDefer, Defer, Goto
    <2>3. \A t \in Tasks : Contains(deferred', Cancel(t)) <=> Contains(deferred, Cancel(t))
      BY <1>0, <2>1, <2>2, AppendFacts, MessageDistinct
    <2> QED  BY <1>2, <2>2, <2>3 DEF Cancelling
  <1>11. CASE ProcessLaunch
    <2>1. cur.id \in Tasks
      BY <1>0, <1>11, MessageFacts DEF ProcessLaunch
    <2>2. Result(cur.id, "error") \in Results
      BY <2>1 DEF Result, Results
    <2>3. pc' = pc \/ Send(<<Result(cur.id, "error")>>)
      BY <1>11 DEF ProcessLaunch
    <2>4. queue' = queue /\ deferred' = deferred /\ main' = "tasks"
      BY <1>11 DEF ProcessLaunch, Goto
    <2> QED  BY <1>2, <1>3, <1>4, <2>2, <2>3, <2>4 DEF Cancelling
  <1>12. CASE ProcessAtOnce
    <2>1. cur.id \in Tasks
      BY <1>0, <1>12, MessageFacts DEF ProcessAtOnce
    <2>2. \A type \in {"final", "error"} : Result(cur.id, type) \in Results
      BY <2>1 DEF Result, Results
    <2>3. \E type \in {"final", "error"} : Send(<<Result(cur.id, type)>>)
      BY <1>12 DEF ProcessAtOnce
    <2>4. queue' = queue /\ deferred' = deferred /\ main' = "tasks"
      BY <1>12 DEF ProcessAtOnce, Goto
    <2> QED  BY <1>2, <1>4, <2>2, <2>3, <2>4 DEF Cancelling
  <1>13. ASSUME NEW ss \in SUBSET Slots, Release(ss), main' # "process"
         PROVE  \A t \in Tasks : Cancelling(t)' => Cancelling(t)
    BY <1>0, <1>13, ReleaseFacts DEF Cancelling
  <1>14. CASE ProcessCancel
    <2>1. SlotOf(cur.id_target) \in SUBSET Slots
      BY DEF SlotOf
    <2> QED  BY <1>2, <1>3, <1>13, <1>14, <2>1 DEF ProcessCancel, Goto
  <1>15. ASSUME NEW s \in Slots, SlotStops(s)  PROVE GoneInv'
    <2>1. \A type \in {"final", "error"} : Result(id_task[s], type) \in Results
      BY <1>15 DEF Inv, SlotInv, SlotStops, InBatch, Result, Results
    <2>2. \E type \in {"final", "error"} : Send(<<Result(id_task[s], type)>>)
      BY <1>15 DEF SlotStops
    <2>3. Release({s}) /\ main' # "process"
      BY <1>15 DEF SlotStops, InBatch
    <2> QED  BY <1>2, <1>4, <1>13, <2>1, <2>2, <2>3
  <1>16. CASE DecodeFails
    <2>1. Release(Slots) /\ main' # "process" /\ (pc' = pc \/ pc' = Woken)
      BY <1>0, <1>16, SendAll DEF DecodeFails
    <2> QED  BY <1>2, <1>3, <1>13, <2>1
  <1>17. CASE UpdateBatch
    <2>1. \A t \in Tasks : Contains(queue', Cancel(t)) <=> Contains(queue, Cancel(t))
      BY <1>0, <1>17, AppendFacts, MessageFacts, MessageDistinct DEF UpdateBatch
    <2> QED  BY <1>2, <1>17, <2>1 DEF UpdateBatch, Cancelling
  <1>18. ASSUME NEW c \in Clients, Post(c)  PROVE GoneInv'
    <2> DEFINE work == [i \in 1 .. req[c].n |-> Work(<<c, i>>)]
    <2>1. /\ work \in Seq(Messages)
          /\ \A t \in Tasks : ~Contains(work, Cancel(t))
      BY <1>0, WorkFacts
    <2>2. queue' = queue \o work \/ queue' = work \o queue
      BY <1>18 DEF Post
    <2> HIDE DEF work
    <2>3. \A t \in Tasks : Contains(queue', Cancel(t)) => Contains(queue, Cancel(t))
      <3>1. \A x : /\ Contains(queue \o work, x) <=> Contains(queue, x) \/ Contains(work, x)
                   /\ Contains(work \o queue, x) <=> Contains(work, x) \/ Contains(queue, x)
        BY <1>0, <2>1, ConcatFacts
      <3> QED  BY <2>1, <2>2, <3>1
    <2>4. pc[c] = "post" /\ \A d \in Clients \ {c} : pc'[d] = pc[d]
      BY <1>0, <1>18 DEF TypeOK, Post
    <2> QED  BY <1>2, <1>18, <2>3, <2>4 DEF Post, Cancelling
  <1>19. ASSUME NEW c \in Clients, PostCancel(c)  PROVE GoneInv'
    <2>1. PICK order \in Bijection(1 .. req[c].n, TasksOf(c)) :
             queue' = [i \in 1 .. req[c].n |-> Cancel(order[i])] \o Cleaned(queue, TasksOf(c))
      BY <1>19 DEF PostCancel
    <2> DEFINE cancels == [i \in 1 .. req[c].n |-> Cancel(order[i])]
               q == Cleaned(queue, TasksOf(c))
               d == Cleaned(deferred, TasksOf(c))
    <2>2. /\ cancels \in Seq(Messages)
          /\ \A t \in Tasks : Contains(cancels, Cancel(t)) => Owner(t) = c
      <3>1. cancels \in Seq(Messages)
        BY <1>0, CancelFacts
      <3>2. order \in [1 .. req[c].n -> TasksOf(c)]
        BY DEF Bijection, Injection
      <3>3. \A i \in 1 .. Len(cancels) : i \in 1 .. req[c].n /\ cancels[i] = Cancel(order[i])
        <4> DEFINE n == req[c].n
        <4>1. n \in Nat
          BY <1>0, RequestFacts, ServerAssumption
        <4> HIDE DEF n
        <4>2. Len(cancels) = n
          BY <4>1, <3>1 DEF n
        <4> QED  BY <4>2 DEF n
      <3>4. \A t \in TasksOf(c) : t \in Tasks /\ Owner(t) = c
        BY <1>0, RequestFacts
      <3> HIDE DEF cancels
      <3>5. \A t \in Tasks : Contains(cancels, Cancel(t)) => Owner(t) = c
        BY <3>2, <3>3, <3>4, MessageDistinct DEF Contains
      <3> QED  BY <3>1, <3>5
    <2>3. TasksOf(c) \in SUBSET Tasks
      BY <1>0, RequestFacts
    <2>4. /\ q \in Seq(Messages)
          /\ \A x : Contains(q, x) => Contains(queue, x)
          /\ \A x : Contains(d, x) => Contains(deferred, x)
      <3>1. \A p \in Seq(Messages) : /\ Cleaned(p, TasksOf(c)) \in Seq(Messages)
                                     /\ \A x : Contains(Cleaned(p, TasksOf(c)), x) => Contains(p, x)
        <4> TAKE p \in Seq(Messages)
        <4> DEFINE I == {i \in DOMAIN p : p[i].id_target \notin TasksOf(c)}
        <4>1. I \in SUBSET (1 .. Len(p)) /\ Cleaned(p, TasksOf(c)) = At(p, I)
          BY DEF Cleaned
        <4> HIDE DEF I
        <4>2. /\ At(p, I) \in Seq(Messages)
              /\ \A k \in 1 .. Len(At(p, I)) : \E i \in I : At(p, I)[k] = p[i]
          BY <4>1, AtFacts
        <4> QED  BY <4>1, <4>2 DEF Contains
      <3> QED  BY <1>0, <3>1
    <2>5. /\ pc[c] = "cancel" /\ pc' = [pc EXCEPT ![c] = "gone"]
          /\ queue' = cancels \o q /\ deferred' = d /\ UNCHANGED <<main, cur>>
      BY <1>19, <2>1 DEF PostCancel
    <2> HIDE DEF cancels, q, d
    <2>6. \A t \in Tasks : Contains(queue', Cancel(t)) =>
                              Contains(queue, Cancel(t)) \/ Owner(t) = c
      <3>1. \A x : Contains(cancels \o q, x) <=> Contains(cancels, x) \/ Contains(q, x)
        BY <2>2, <2>4, ConcatFacts
      <3> QED  BY <2>2, <2>4, <2>5, <3>1
    <2>7. pc'[c] = "gone" /\ \A e \in Clients \ {c} : pc'[e] = pc[e]
      BY <1>0, <2>5 DEF TypeOK
    <2> QED  BY <1>2, <2>4, <2>5, <2>6, <2>7 DEF Cancelling
  <1>20. ASSUME NEW c \in Clients, RecvAborts(c)  PROVE GoneInv'
    BY <1>1, <1>20 DEF RecvAborts, GoneInv
  <1> QED
    BY <1>6, <1>7, <1>8, <1>9, <1>10, <1>11, <1>12, <1>14, <1>15, <1>16, <1>17, <1>18, <1>19, <1>20
    DEF Next, MainStep, ClientStep

-----------------------------------------------------------------------------
(***************************************************************************)
(* The invariant.                                                          *)
(***************************************************************************)
LEMMA InvInit == Init => Inv
  <1> SUFFICES ASSUME Init PROVE Inv
    OBVIOUS
  <1> USE DEF Init
  <1>1. TypeOK
    <2>1. /\ 0 \in 0 .. MaxRounds /\ 0 \in 0 .. MaxFailures /\ NextResponse \in Messages
          /\ <<>> \in Seq(Messages) /\ <<>> \in Seq(Results)
      BY MessageFacts, ServerAssumption
    <2> QED  BY <2>1 DEF TypeOK
  <1>2. \A t \in Tasks : ~Pending(t) /\ ~InHand(t) /\ ~Running(t) /\ ~Cancelling(t)
    BY DEF Pending, InHand, Running, Runs, Cancelling, Contains
  <1>3. \A t \in Tasks : OnceInBoth(queue, deferred, Work(t))
    BY DEF OnceInBoth, Once, Contains
  <1>4. PlaceInv /\ OwnerInv /\ KeptInv
    BY <1>2, <1>3 DEF PlaceInv, OwnerInv, KeptInv, Present, Runs
  <1>5. SlotInv /\ CancelInv /\ GoneInv
    BY <1>2 DEF SlotInv, CancelInv, GoneInv
  <1> QED  BY <1>1, <1>4, <1>5 DEF Inv

LEMMA InvNext == Inv /\ [Next]_vars => Inv'
  <1> SUFFICES ASSUME Inv, [Next]_vars  PROVE Inv'
    OBVIOUS
  <1>1. CASE Next
    <2>1. TypeOK'
      BY <1>1, TypeStep DEF Inv
    <2>2. GoneInv'
      BY <1>1, GoneStep
    <2>3. PlaceInv' /\ OwnerInv' /\ KeptInv' /\ SlotInv' /\ CancelInv'
      BY <1>1, UnmovedStep, TakeTaskStep, ProcessDeferStep, ProcessLaunchStep, ProcessAtOnceStep,
         ProcessCancelStep, SlotStopsStep, DecodeFailsStep, UpdateBatchStep, PostStep,
         PostCancelStep, RecvAbortsStep
      DEF Next, MainStep, ClientStep
    <2> QED  BY <2>1, <2>2, <2>3 DEF Inv
  <1>2. CASE UNCHANGED vars
    BY <1>2 DEF vars, taskq, resq, slots, loop, http, history, Inv, TypeOK, PlaceInv, OwnerInv, KeptInv,
       SlotInv, CancelInv, GoneInv, Present, Pending, InHand, Running, Runs, Cancelling, TasksOf,
       Receiving
  <1> QED  BY <1>1, <1>2

-----------------------------------------------------------------------------
(***************************************************************************)
(* The answers.                                                            *)
(***************************************************************************)

(* A handler that has left stays away, one that ends has ended or was going *)
(* to, and none starts again.                                               *)
Onward ==
    /\ UNCHANGED req
    /\ \A c \in Clients :
          /\ HasLeft(c) => HasLeft(c)'
          /\ pc'[c] \in {"finish", "done"} => pc[c] \in {"finish", "done"}
          /\ pc'[c] \in {"new", "post"} => pc[c] \in {"new", "post"}
          /\ left'[c] \subseteq TasksOf(c)

(* Nothing is sent, received or removed. *)
LEMMA AnswersSame ==
    ASSUME Inv, Answers, Onward, UNCHANGED <<results, finals, finished>>,
           \A t \in Tasks : Present(t)' => Present(t) \/ finals[t] = 0,
           \A i \in 1 .. Len(results) : results[i].id \in waiting'
    PROVE  Answers'
  <1>1. \A t \in Tasks : /\ Answering(t)' <=> Answering(t)
                         /\ Received(t)' <=> Received(t)
    BY DEF Answering, Received
  <1>2. \A c \in Clients : TasksOf(c)' = TasksOf(c) /\ TasksOf(c) \in SUBSET Tasks
    BY RequestFacts DEF Onward, TasksOf, Inv
  <1>3. \A c \in Clients : Got(c)' = Got(c)
    BY <1>1, <1>2 DEF Got
  <1>4. \A t \in Tasks : Owner(t) \in Clients
    BY TaskFacts
  <1>5. AnswerInv'
    BY <1>1, <1>4 DEF Answers, AnswerInv, Onward
  <1>6. ResultInv'
    BY DEF Answers, ResultInv
  <1>7. FinishInv'
    BY <1>2, <1>3 DEF Answers, FinishInv, Onward
  <1> QED  BY <1>5, <1>6, <1>7 DEF Answers

(* What is left when some results are removed, in its order. *)
LEMMA RemovedOrder ==
    ASSUME TypeOK, NEW I \in SUBSET (1 .. Len(results))
    PROVE  /\ \A k \in 1 .. Len(At(results, I)) : \E i \in I : At(results, I)[k] = results[i]
           /\ \A i \in I : \E k \in 1 .. Len(At(results, I)) : At(results, I)[k] = results[i]
           /\ \A k, l \in 1 .. Len(At(results, I)) : k < l =>
                 \E i, j \in I : /\ i < j
                                 /\ At(results, I)[k] = results[i]
                                 /\ At(results, I)[l] = results[j]
  <1>1. results \in Seq(Results)
    BY DEF TypeOK
  <1> QED  BY <1>1, AtFacts

(* All that was queued for some tasks of clients that have left is removed, *)
(* and nothing else.                                                        *)
LEMMA AnswersRemoved ==
    ASSUME Inv, Answers, Onward, UNCHANGED <<finals, finished>>,
           \A t \in Tasks : Present(t)' => Present(t),
           NEW I \in SUBSET (1 .. Len(results)), results' = At(results, I),
           \A i \in I : results[i].id \in waiting',
           \A i \in (1 .. Len(results)) \ I :
               /\ pc'[Owner(results[i].id)] \in {"cancel", "gone", "dead"}
               /\ \A j \in I : results[j].id # results[i].id
    PROVE  Answers'
  <1>1. results \in Seq(Results)
    BY DEF Inv, TypeOK
  <1>2. /\ \A k \in 1 .. Len(results') : \E i \in I : results'[k] = results[i]
        /\ \A i \in I : \E k \in 1 .. Len(results') : results'[k] = results[i]
        /\ \A k, l \in 1 .. Len(results') : k < l =>
              \E i, j \in I : i < j /\ results'[k] = results[i] /\ results'[l] = results[j]
    <2>1. /\ \A k \in 1 .. Len(At(results, I)) : \E i \in I : At(results, I)[k] = results[i]
          /\ \A i \in I : \E k \in 1 .. Len(At(results, I)) : At(results, I)[k] = results[i]
          /\ \A k, l \in 1 .. Len(At(results, I)) : k < l =>
                \E i, j \in I : /\ i < j
                                /\ At(results, I)[k] = results[i]
                                /\ At(results, I)[l] = results[j]
      BY RemovedOrder DEF Inv
    <2> QED  BY <2>1
  <1>3. ASSUME NEW t \in Tasks
        PROVE  /\ Answering(t)' => Answering(t)
               /\ ~HasLeft(Owner(t))' => (Answering(t)' <=> Answering(t))
    <2>1. Answering(t)' => Answering(t)
      <3>1. ASSUME NEW k \in 1 .. Len(results'), Ends(results'[k], t)  PROVE Answering(t)
        <4>1. PICK i \in I : results'[k] = results[i]
          BY <1>2
        <4> QED  BY <3>1, <4>1 DEF Answering
      <3> QED  BY <3>1 DEF Answering
    <2>2. ASSUME ~HasLeft(Owner(t))', NEW i \in 1 .. Len(results), Ends(results[i], t)
          PROVE  Answering(t)'
      <3>1. i \in I
        BY <2>2 DEF Ends, HasLeft
      <3>2. PICK k \in 1 .. Len(results') : results'[k] = results[i]
        BY <1>2, <3>1
      <3> QED  BY <2>2, <3>2 DEF Answering
    <2> QED  BY <2>1, <2>2 DEF Answering
  <1>4. \A t \in Tasks : ~HasLeft(Owner(t))' => (Received(t)' <=> Received(t))
    BY <1>3 DEF Received
  <1>5. \A c \in Clients : /\ TasksOf(c)' = TasksOf(c) /\ TasksOf(c) \in SUBSET Tasks
                           /\ \A t \in TasksOf(c) : Owner(t) = c
    BY RequestFacts DEF Onward, TasksOf, Inv
  <1>6. \A c \in Clients : ~HasLeft(c)' => Got(c)' = Got(c)
    BY <1>4, <1>5 DEF Got
  <1>7. \A t \in Tasks : Owner(t) \in Clients
    BY TaskFacts
  <1>8. ASSUME NEW t \in Tasks, Received(t)', NEW k \in 1 .. Len(results')
        PROVE  results'[k].id # t
    <2>1. PICK j \in I : results'[k] = results[j]
      BY <1>2
    <2>2. CASE Received(t)
      BY <2>1, <2>2 DEF Answers, AnswerInv
    <2>3. CASE ~Received(t)
      <3>1. PICK i \in 1 .. Len(results) : Ends(results[i], t)
        BY <1>8, <2>3 DEF Received, Answering
      <3>2. i \notin I
        BY <1>2, <1>8, <3>1 DEF Received, Answering
      <3> QED  BY <2>1, <3>1, <3>2 DEF Ends
    <2> QED  BY <2>2, <2>3
  <1>9. AnswerInv'
    <2>1. \A t \in Tasks : /\ finals'[t] \in {0, 1}
                           /\ finals'[t] = 1 => ~Present(t)' /\ pc'[Owner(t)] \notin {"new", "post"}
                           /\ Answering(t)' => finals'[t] = 1
      BY <1>3, <1>7 DEF Answers, AnswerInv, Onward
    <2> QED  BY <1>8, <2>1 DEF AnswerInv
  <1>10. ResultInv'
    <2>1. \A k \in 1 .. Len(results') : results'[k].id \in waiting'
      <3> TAKE k \in 1 .. Len(results')
      <3>1. PICK i \in I : results'[k] = results[i]
        BY <1>2
      <3> QED  BY <3>1
    <2>2. \A k, l \in 1 .. Len(results') :
              k < l /\ results'[k].id = results'[l].id => results'[k].type = "partial"
      <3> TAKE k, l \in 1 .. Len(results')
      <3> HAVE k < l /\ results'[k].id = results'[l].id
      <3>1. PICK i, j \in I : i < j /\ results'[k] = results[i] /\ results'[l] = results[j]
        BY <1>2
      <3> QED  BY <3>1 DEF Answers, ResultInv
    <2> QED  BY <2>1, <2>2 DEF ResultInv
  <1>11. FinishInv'
    BY <1>5, <1>6 DEF Answers, FinishInv, Onward
  <1> QED  BY <1>9, <1>10, <1>11 DEF Answers

(* A result is sent for a task that is still there. *)
LEMMA AnswersSent ==
    ASSUME Inv, Answers, NEW r \in Results, Send(<<r>>), Present(r.id),
           UNCHANGED <<finished, req, left>>,
           \A t \in Tasks : Present(t)' => Present(t) /\ ~Ends(r, t)
    PROVE  Answers'
  <1>0. TypeOK
    BY DEF Inv
  <1>1. PICK u \in Tasks : u = r.id
    BY DEF Results
  <1>2. /\ UNCHANGED waiting
        /\ \A c \in Clients : \/ pc'[c] = pc[c]
                              \/ pc[c] = "asleep" /\ pc'[c] = "recv"
    BY <1>0, AnswerFacts
  <1>3. Onward
    BY <1>2 DEF Onward, HasLeft, Answers, FinishInv
  <1>4. CASE u \notin waiting
    <2>1. results' = results /\ finals' = finals
      BY <1>0, <1>1, <1>4, SendOne
    <2>2. \A i \in 1 .. Len(results) : results[i].id \in waiting'
      BY <1>2 DEF Answers, ResultInv
    <2> QED  BY <1>3, <2>1, <2>2, AnswersSame
  <1>5. CASE u \in waiting
    <2>1. /\ results' = Append(results, r)
          /\ finals' = [t \in Tasks |-> IF Ends(r, t) THEN finals[t] + 1 ELSE finals[t]]
      BY <1>0, <1>1, <1>5, SendOne
    <2>2. results \in Seq(Results) /\ finals \in [Tasks -> Nat]
      BY <1>0 DEF TypeOK
    <2>3. /\ Len(results') = Len(results) + 1 /\ Len(results) \in Nat
          /\ results'[Len(results) + 1] = r
          /\ \A i \in 1 .. Len(results) : results'[i] = results[i]
      BY <2>1, <2>2
    <2>4. \A i \in 1 .. Len(results') : \/ i \in 1 .. Len(results) /\ results'[i] = results[i]
                                        \/ i = Len(results) + 1 /\ results'[i] = r
      BY <2>3
    <2>5. finals[u] = 0 /\ ~Answering(u) /\ pc[Owner(u)] \notin {"new", "post"}
      BY <1>1 DEF Answers, AnswerInv, Inv, OwnerInv
    <2>6. \A t \in Tasks : finals'[t] = IF Ends(r, t) THEN finals[t] + 1 ELSE finals[t]
      BY <2>1
    <2>7. ASSUME NEW t \in Tasks  PROVE Answering(t)' <=> Answering(t) \/ Ends(r, t)
      <3>1. ASSUME NEW i \in 1 .. Len(results'), Ends(results'[i], t)
            PROVE  Answering(t) \/ Ends(r, t)
        BY <2>4, <3>1 DEF Answering
      <3>2. ASSUME NEW i \in 1 .. Len(results), Ends(results[i], t)  PROVE Answering(t)'
        <4>1. i \in 1 .. Len(results') /\ results'[i] = results[i]
          BY <2>3
        <4> QED  BY <3>2, <4>1 DEF Answering
      <3>3. ASSUME Ends(r, t)  PROVE Answering(t)'
        <4>1. Len(results) + 1 \in 1 .. Len(results')
          BY <2>3
        <4> QED  BY <2>3, <3>3, <4>1 DEF Answering
      <3> QED  BY <3>1, <3>2, <3>3 DEF Answering
    <2>8. \A t \in Tasks : Ends(r, t) => t = u
      BY <1>1 DEF Ends
    <2>9. \A t \in Tasks : /\ Received(t)' <=> Received(t)
                           /\ Received(t) => t # u
      BY <2>5, <2>6, <2>7, <2>8 DEF Received
    <2>10. \A t \in Tasks : Owner(t) \in Clients
      BY TaskFacts
    <2>11. AnswerInv'
      <3>1. \A t \in Tasks : /\ finals'[t] \in {0, 1}
                             /\ finals'[t] = 1 => ~Present(t)' /\ pc'[Owner(t)] \notin {"new", "post"}
                             /\ Answering(t)' => finals'[t] = 1
        BY <1>3, <2>5, <2>6, <2>7, <2>8, <2>10 DEF Answers, AnswerInv, Onward
      <3>2. ASSUME NEW t \in Tasks, Received(t)', NEW i \in 1 .. Len(results')
            PROVE  results'[i].id # t
        BY <1>1, <2>4, <2>9, <3>2 DEF Answers, AnswerInv
      <3> QED  BY <3>1, <3>2 DEF AnswerInv
    <2>12. ResultInv'
      <3>1. ASSUME NEW i \in 1 .. Len(results')  PROVE results'[i].id \in waiting'
        BY <1>1, <1>2, <1>5, <2>4 DEF Answers, ResultInv
      <3>2. ASSUME NEW i \in 1 .. Len(results'), NEW j \in 1 .. Len(results'), i < j,
                   results'[i].id = results'[j].id
            PROVE  results'[i].type = "partial"
        <4>1. i \in 1 .. Len(results) /\ results'[i] = results[i]
          BY <2>3, <2>4, <3>2
        <4>2. CASE j \in 1 .. Len(results) /\ results'[j] = results[j]
          BY <3>2, <4>1, <4>2 DEF Answers, ResultInv
        <4>3. CASE results'[j] = r
          BY <1>1, <2>5, <3>2, <4>1, <4>3 DEF Answering, Ends
        <4> QED  BY <2>4, <4>2, <4>3
      <3> QED  BY <3>1, <3>2 DEF ResultInv
    <2>13. FinishInv'
      <3>1. \A c \in Clients : TasksOf(c)' = TasksOf(c) /\ TasksOf(c) \in SUBSET Tasks
        BY <1>0, RequestFacts DEF TasksOf
      <3>2. \A c \in Clients : Got(c)' = Got(c)
        BY <2>9, <3>1 DEF Got
      <3> QED  BY <1>3, <3>1, <3>2 DEF Answers, FinishInv, Onward
    <2> QED  BY <2>11, <2>12, <2>13 DEF Answers
  <1> QED  BY <1>4, <1>5

(* Removing one element. *)
LEMMA RemoveFacts ==
    ASSUME NEW X, NEW q \in Seq(X), NEW f \in 1 .. Len(q)
    PROVE  /\ Len(RemoveAt(q, f)) = Len(q) - 1
           /\ \A k \in 1 .. (Len(q) - 1) :
                 RemoveAt(q, f)[k] = IF k < f THEN q[k] ELSE q[k + 1]
  <1>1. Len(q) \in Nat /\ f \in Nat /\ 1 <= f /\ f <= Len(q)
    OBVIOUS
  <1> DEFINE a == SubSeq(q, 1, f - 1)
             b == SubSeq(q, f + 1, Len(q))
  <1>2. /\ a \in Seq(X) /\ Len(a) = f - 1
        /\ \A k \in 1 .. (f - 1) : a[k] = q[k]
    BY <1>1
  <1>3. /\ b \in Seq(X) /\ Len(b) = Len(q) - f
        /\ \A k \in 1 .. (Len(q) - f) : b[k] = q[f + k]
    BY <1>1
  <1>4. RemoveAt(q, f) = a \o b
    BY DEF RemoveAt
  <1> HIDE DEF a, b
  <1>5. Len(a \o b) = Len(q) - 1
    <2>1. Len(a \o b) = Len(a) + Len(b)
      BY <1>2, <1>3, ConcatProperties
    <2>2. (f - 1) + (Len(q) - f) = Len(q) - 1
      BY <1>1
    <2> QED  BY <1>2, <1>3, <2>1, <2>2
  <1>6. ASSUME NEW k \in 1 .. (Len(q) - 1)  PROVE (a \o b)[k] = IF k < f THEN q[k] ELSE q[k + 1]
    <2>1. CASE k < f
      BY <1>1, <1>2, <1>3, <2>1
    <2>2. CASE ~(k < f)
      <3>1. (k - (f - 1)) \in 1 .. (Len(q) - f) /\ f + (k - (f - 1)) = k + 1
        BY <1>1, <2>2
      <3>2. (a \o b)[k] = b[k - (f - 1)]
        BY <1>1, <1>2, <1>3, <2>2
      <3> QED  BY <1>3, <2>2, <3>1, <3>2
    <2> QED  BY <2>1, <2>2
  <1> QED  BY <1>4, <1>5, <1>6

(* A client receives the first of its results.  One that ends its task is   *)
(* the only one left of the task, so that the task counts as received, once.*)
LEMMA AnswersTaken ==
    ASSUME Inv, Answers, NEW c \in Clients, Take(c)
    PROVE  Answers'
  <1> USE DEF taskq, resq, slots, loop, http, history
  <1>0. TypeOK
    BY DEF Inv
  <1> DEFINE f == First(c)
             n == Len(results)
  <1>1. /\ f \in 1 .. n /\ Owner(results[f].id) = c /\ results[f] \in Results
        /\ \A i \in 1 .. n : Owner(results[i].id) = c => f <= i
    BY <1>0, FirstFacts DEF Take
  <1>2. PICK u \in Tasks : u = results[f].id
    BY <1>1 DEF Results
  <1> DEFINE type == results[f].type
             next == AfterResult(c, type)
  <1>3. /\ pc[c] = "recv" /\ results' = RemoveAt(results, f)
        /\ pc' = [pc EXCEPT ![c] = next]
        /\ left' = [left EXCEPT ![c] = IF next = "cancel" THEN TasksOf(c) ELSE {}]
        /\ finished' = [finished EXCEPT ![c] = @ + (IF type = "partial" THEN 0 ELSE 1)]
        /\ UNCHANGED <<waiting, finals, req>>
    BY DEF Take
  <1>4. results \in Seq(Results) /\ n \in Nat
    BY <1>0 DEF TypeOK
  <1>5. /\ Len(results') = n - 1
        /\ \A k \in 1 .. (n - 1) : results'[k] = IF k < f THEN results[k] ELSE results[k + 1]
    BY <1>1, <1>3, <1>4, RemoveFacts
  <1>6. /\ next \in {"cancel", "finish", "recv"}
        /\ next = "finish" => finished[c] + (IF type = "partial" THEN 0 ELSE 1) = req[c].n
    BY DEF AfterResult
  <1> HIDE DEF f, n, next
  <1>7. \A k \in 1 .. Len(results') : \E i \in 1 .. n :
              /\ i # f /\ results'[k] = results[i] /\ (i = k \/ i = k + 1)
              /\ i = k => k < f
              /\ i = k + 1 => k >= f
    <2> TAKE k \in 1 .. Len(results')
    <2>1. k \in 1 .. (n - 1) /\ k \in Nat /\ f \in Nat
      BY <1>1, <1>4, <1>5
    <2>2. CASE k < f
      <3>1. k \in 1 .. n /\ k # f /\ k # k + 1 /\ results'[k] = results[k]
        BY <1>4, <1>5, <2>1, <2>2
      <3> QED  BY <2>2, <3>1
    <2>3. CASE ~(k < f)
      <3>1. k + 1 \in 1 .. n /\ k + 1 # f /\ k # k + 1 /\ results'[k] = results[k + 1] /\ k >= f
        BY <1>4, <1>5, <2>1, <2>3
      <3> QED  BY <3>1
    <2> QED  BY <2>2, <2>3
  <1>8. \A i \in 1 .. n : i # f => \E k \in 1 .. Len(results') : results'[k] = results[i]
    <2> TAKE i \in 1 .. n
    <2> HAVE i # f
    <2>1. CASE i < f
      <3>1. i \in 1 .. (n - 1) /\ i \in 1 .. Len(results')
        BY <1>1, <1>4, <1>5, <2>1
      <3>2. results'[i] = results[i]
        BY <1>5, <2>1, <3>1
      <3> QED  BY <3>1, <3>2
    <2>2. CASE ~(i < f)
      <3>1. i - 1 \in 1 .. (n - 1) /\ i - 1 \in 1 .. Len(results') /\ ~(i - 1 < f) /\ (i - 1) + 1 = i
        BY <1>1, <1>4, <1>5, <2>2
      <3>2. results'[i - 1] = results[i]
        BY <1>5, <3>1
      <3> QED  BY <3>1, <3>2
    <2> QED  BY <2>1, <2>2
  <1>9. type # "partial" => \A i \in 1 .. n : i # f => results[i].id # u
    <2> SUFFICES ASSUME type # "partial", NEW i \in 1 .. n, i # f, results[i].id = u  PROVE FALSE
      OBVIOUS
    <2>1. f <= i
      BY <1>1, <1>2
    <2>2. f < i
      BY <1>1, <1>4, <2>1
    <2> QED  BY <1>1, <1>2, <2>2 DEF Answers, ResultInv, n
  <1>10. ASSUME NEW t \in Tasks
         PROVE  Answering(t)' <=> Answering(t) /\ (t = u => type = "partial")
    <2>1. ASSUME NEW k \in 1 .. Len(results'), Ends(results'[k], t)
          PROVE  Answering(t) /\ (t = u => type = "partial")
      <3>1. PICK i \in 1 .. n : i # f /\ results'[k] = results[i]
        BY <1>7
      <3>2. Answering(t)
        BY <2>1, <3>1 DEF Answering, n
      <3> QED  BY <1>9, <2>1, <3>1, <3>2 DEF Ends
    <2>2. ASSUME NEW i \in 1 .. n, Ends(results[i], t), t = u => type = "partial"
          PROVE  Answering(t)'
      <3>1. i # f
        BY <1>2, <2>2 DEF Ends
      <3>2. PICK k \in 1 .. Len(results') : results'[k] = results[i]
        BY <1>8, <3>1
      <3> QED  BY <2>2, <3>2 DEF Answering
    <2> QED  BY <2>1, <2>2 DEF Answering, n
  <1>11. type # "partial" => Answering(u) /\ finals[u] = 1
    BY <1>1, <1>2 DEF Answering, Ends, Answers, AnswerInv, n
  <1>12. \A t \in Tasks : Received(t)' <=> Received(t) \/ (t = u /\ type # "partial")
    BY <1>3, <1>10, <1>11 DEF Received
  <1>13. /\ pc'[c] = next /\ \A d \in Clients \ {c} : pc'[d] = pc[d]
         /\ left'[c] \in {TasksOf(c), {}} /\ \A d \in Clients \ {c} : left'[d] = left[d]
         /\ finished'[c] = finished[c] + (IF type = "partial" THEN 0 ELSE 1)
         /\ \A d \in Clients \ {c} : finished'[d] = finished[d]
         /\ finished[c] \in Nat
    BY <1>0, <1>3 DEF TypeOK
  <1>14. \A t \in Tasks : Owner(t) \in Clients /\ (Present(t)' => Present(t))
    <2>1. Unmoved
      BY DEF Take, Unmoved
    <2> QED  BY <2>1, UnmovedPlaces, TaskFacts
  <1>15. AnswerInv'
    <2>1. \A t \in Tasks : /\ finals'[t] \in {0, 1}
                           /\ finals'[t] = 1 => ~Present(t)' /\ pc'[Owner(t)] \notin {"new", "post"}
                           /\ Answering(t)' => finals'[t] = 1
      BY <1>3, <1>6, <1>10, <1>13, <1>14 DEF Answers, AnswerInv
    <2>2. ASSUME NEW t \in Tasks, Received(t)', NEW k \in 1 .. Len(results')
          PROVE  results'[k].id # t
      <3>1. PICK i \in 1 .. n : i # f /\ results'[k] = results[i]
        BY <1>7
      <3>2. CASE Received(t)
        BY <3>1, <3>2 DEF Answers, AnswerInv, n
      <3>3. CASE t = u /\ type # "partial"
        BY <1>9, <3>1, <3>3
      <3> QED  BY <1>12, <2>2, <3>2, <3>3
    <2> QED  BY <2>1, <2>2 DEF AnswerInv
  <1>16. ResultInv'
    <2>1. ASSUME NEW k \in 1 .. Len(results')  PROVE results'[k].id \in waiting'
      <3>1. PICK i \in 1 .. n : results'[k] = results[i]
        BY <1>7
      <3> QED  BY <1>3, <3>1 DEF Answers, ResultInv, n
    <2>2. ASSUME NEW k \in 1 .. Len(results'), NEW l \in 1 .. Len(results'), k < l,
                 results'[k].id = results'[l].id
          PROVE  results'[k].type = "partial"
      <3>1. PICK i \in 1 .. n : /\ results'[k] = results[i] /\ (i = k \/ i = k + 1)
                                /\ i = k => k < f
                                /\ i = k + 1 => k >= f
        BY <1>7
      <3>2. PICK j \in 1 .. n : /\ results'[l] = results[j] /\ (j = l \/ j = l + 1)
                                /\ j = l => l < f
                                /\ j = l + 1 => l >= f
        BY <1>7
      <3>3. i < j
        BY <1>1, <1>4, <1>5, <2>2, <3>1, <3>2
      <3> QED  BY <2>2, <3>1, <3>2, <3>3 DEF Answers, ResultInv, n
    <2> QED  BY <2>1, <2>2 DEF ResultInv
  <1>17. \A d \in Clients : /\ TasksOf(d)' = TasksOf(d) /\ TasksOf(d) \in SUBSET Tasks
                            /\ \A t \in TasksOf(d) : Owner(t) = d
                            /\ IsFiniteSet(TasksOf(d))
    BY <1>0, <1>3, RequestFacts DEF TasksOf
  <1>18. ASSUME NEW d \in Clients  PROVE
               /\ ~HasLeft(d)' => finished'[d] = Cardinality(Got(d)')
               /\ pc'[d] \in {"finish", "done"} => finished'[d] = req'[d].n
               /\ left'[d] \subseteq TasksOf(d)'
    <2>1. CASE d # c
      <3>1. Got(d)' = Got(d)
        BY <1>1, <1>2, <1>12, <1>17, <2>1 DEF Got
      <3> QED  BY <1>3, <1>13, <1>17, <2>1, <3>1 DEF Answers, FinishInv, HasLeft
    <2>2. CASE d = c
      <3>1. finished[c] = Cardinality(Got(c))
        BY <1>3 DEF Answers, FinishInv, HasLeft
      <3>2. finished'[c] = Cardinality(Got(c)')
        <4>1. CASE type = "partial"
          <5>1. Got(c)' = Got(c)
            BY <1>12, <1>17, <4>1 DEF Got
          <5> QED  BY <1>13, <3>1, <4>1, <5>1
        <4>2. CASE type # "partial"
          <5>1. u \in TasksOf(c)
            BY <1>1, <1>2 DEF Answers, ResultInv, Inv, OwnerInv, n
          <5>2. u \notin Got(c)
            BY <1>11, <4>2 DEF Got, Received
          <5>3. Got(c)' = Got(c) \cup {u}
            BY <1>12, <1>17, <4>2, <5>1 DEF Got
          <5>4. IsFiniteSet(Got(c))
            BY <1>17, FS_Subset DEF Got
          <5>5. Cardinality(Got(c) \cup {u}) = Cardinality(Got(c)) + 1
            BY <5>2, <5>4, FS_AddElement
          <5> QED  BY <1>13, <3>1, <4>2, <5>3, <5>5
        <4> QED  BY <4>1, <4>2
      <3> QED  BY <1>3, <1>6, <1>13, <1>17, <2>2, <3>2
    <2> QED  BY <2>1, <2>2
  <1>19. FinishInv'
    BY <1>18 DEF FinishInv
  <1> QED  BY <1>15, <1>16, <1>19 DEF Answers

(* A handler that ends has received all its results. *)
LEMMA NothingLeft ==
    ASSUME Inv, Answers, NEW c \in Clients, pc[c] \in {"finish", "done"}
    PROVE  \A i \in 1 .. Len(results) : Owner(results[i].id) # c
  <1>1. /\ IsFiniteSet(TasksOf(c)) /\ Cardinality(TasksOf(c)) = req[c].n
        /\ TasksOf(c) \in SUBSET Tasks
    BY RequestFacts DEF Inv
  <1>2. Cardinality(Got(c)) = req[c].n
    BY DEF Answers, FinishInv, HasLeft
  <1>3. Got(c) \in SUBSET TasksOf(c)
    BY DEF Got
  <1>4. Got(c) = TasksOf(c)
    BY <1>1, <1>2, <1>3, FS_Subset
  <1>5. \A t \in TasksOf(c) : Received(t)
    BY <1>4 DEF Got
  <1>6. results \in Seq(Results)
    BY DEF Inv, TypeOK
  <1> SUFFICES ASSUME NEW i \in 1 .. Len(results), Owner(results[i].id) = c  PROVE FALSE
    OBVIOUS
  <1>7. results[i].id \in Tasks /\ results[i].id \in waiting
    BY <1>6 DEF Answers, ResultInv, Inv, TypeOK
  <1>8. results[i].id \in TasksOf(c)
    BY <1>7 DEF Inv, OwnerInv
  <1> QED  BY <1>1, <1>5, <1>8 DEF Answers, AnswerInv

LEMMA AnswersMain ==
    ASSUME Inv, Answers, MainStep \/ Signal, fails' = 0
    PROVE  Answers'
  <1> USE DEF taskq, resq, slots, loop, http, history
  <1>0. TypeOK /\ cur \in Messages
    BY DEF Inv, TypeOK
  <1>1. ASSUME pc' = pc \/ pc' = Woken, UNCHANGED <<results, finals, finished, req, left, waiting>>,
               \A t \in Tasks : Present(t)' => Present(t)
        PROVE  Answers'
    <2>1. \A c \in Clients : \/ pc'[c] = pc[c]
                             \/ pc[c] = "asleep" /\ pc'[c] = "recv"
      BY <1>0, <1>1, WokenFacts
    <2>2. Onward
      BY <1>1, <2>1 DEF Onward, HasLeft, Answers, FinishInv
    <2>3. \A i \in 1 .. Len(results) : results[i].id \in waiting'
      BY <1>1 DEF Answers, ResultInv
    <2> QED  BY <1>1, <2>2, <2>3, AnswersSame
  <1>2. CASE NoMoreTasks \/ Wait \/ LoopEnds \/ ProcessNext \/ UpdateIdle \/ UpdateDone \/ Join
             \/ Signal \/ CleanUp
    <2>1. Unmoved
      BY <1>0, <1>2, MessageFacts DEF Unmoved, NoMoreTasks, Wait, LoopEnds, ProcessNext,
         UpdateIdle, UpdateDone, Join, Goto, Signal, CleanUp
    <2>2. /\ pc' = pc \/ pc' = Woken
          /\ UNCHANGED <<results, finals, finished, req, left, waiting>>
      BY <1>2 DEF NoMoreTasks, Wait, LoopEnds, ProcessNext, UpdateIdle, UpdateDone, Join, Signal,
         CleanUp
    <2> QED  BY <1>1, <2>1, <2>2, UnmovedPlaces
  <1>3. CASE TakeTask \/ ProcessDefer \/ ProcessCancel \/ UpdateBatch
    <2>1. \A t \in Tasks : Present(t)' => Present(t)
      BY <1>3, TakeTaskStep, ProcessDeferStep, ProcessCancelStep, UpdateBatchStep
    <2>2. pc' = pc /\ UNCHANGED <<results, finals, finished, req, left, waiting>>
      BY <1>3 DEF TakeTask, ProcessDefer, ProcessCancel, UpdateBatch
    <2> QED  BY <1>1, <2>1, <2>2
  <1>4. CASE ProcessLaunch
    <2>1. PICK u \in Tasks : cur = Work(u) /\ cur.id = u /\ main = "process"
      BY <1>0, <1>4, MessageFacts DEF ProcessLaunch
    <2>2. \A t \in Tasks : Present(t)' => Present(t) /\ (t = u => ~IsBad(u))
      BY <1>4, <2>1, ProcessLaunchStep
    <2>3. CASE ~IsBad(u)
      <3>1. pc' = pc /\ UNCHANGED <<results, finals, finished, req, left, waiting>>
        BY <1>4, <2>1, <2>3 DEF ProcessLaunch
      <3> QED  BY <1>1, <2>2, <3>1
    <2>4. CASE IsBad(u)
      <3> DEFINE r == Result(u, "error")
      <3>1. Send(<<r>>) /\ UNCHANGED <<finished, req, left>>
        BY <1>4, <2>1, <2>4 DEF ProcessLaunch
      <3>2. r \in Results /\ r.id = u /\ \A t \in Tasks : Ends(r, t) <=> t = u
        BY DEF Result, Results, Ends
      <3>3. Present(u)
        BY <2>1 DEF Present, InHand
      <3> HIDE DEF r
      <3>4. \A t \in Tasks : Present(t)' => Present(t) /\ ~Ends(r, t)
        BY <2>2, <2>4, <3>2
      <3> QED  BY <3>1, <3>2, <3>3, <3>4, AnswersSent
    <2> QED  BY <2>3, <2>4
  <1>5. CASE ProcessAtOnce
    <2>1. PICK u \in Tasks : cur = Work(u) /\ cur.id = u /\ main = "process"
      BY <1>0, <1>5, MessageFacts DEF ProcessAtOnce
    <2>2. PICK type \in {"final", "error"} : Send(<<Result(u, type)>>)
      BY <1>5, <2>1 DEF ProcessAtOnce
    <2> DEFINE r == Result(u, type)
    <2>3. Send(<<r>>) /\ UNCHANGED <<finished, req, left>>
      BY <1>5, <2>2 DEF ProcessAtOnce
    <2>4. r \in Results /\ r.id = u /\ \A t \in Tasks : Ends(r, t) <=> t = u
      BY DEF Result, Results, Ends
    <2>5. Present(u)
      BY <2>1 DEF Present, InHand
    <2> HIDE DEF r
    <2>6. \A t \in Tasks : Present(t)' => Present(t) /\ ~Ends(r, t)
      BY <1>5, <2>1, <2>4, ProcessAtOnceStep
    <2> QED  BY <2>3, <2>4, <2>5, <2>6, AnswersSent
  <1>6. ASSUME NEW s \in Slots, SlotStops(s)  PROVE Answers'
    <2>1. busy[s] /\ id_task[s] \in Tasks
      BY <1>6 DEF SlotStops, InBatch, Inv, SlotInv
    <2>2. PICK u \in Tasks : u = id_task[s]
      BY <2>1
    <2>3. PICK type \in {"final", "error"} : Send(<<Result(u, type)>>)
      BY <1>6, <2>2 DEF SlotStops
    <2> DEFINE r == Result(u, type)
    <2>4. Send(<<r>>) /\ UNCHANGED <<finished, req, left>>
      BY <1>6, <2>3 DEF SlotStops
    <2>5. r \in Results /\ r.id = u /\ \A t \in Tasks : Ends(r, t) <=> t = u
      BY DEF Result, Results, Ends
    <2>6. Present(u)
      BY <2>1, <2>2 DEF Present, Running, Runs
    <2> HIDE DEF r
    <2>7. \A t \in Tasks : Present(t)' => Present(t) /\ ~Ends(r, t)
      BY <1>6, <2>2, <2>5, SlotStopsStep
    <2> QED  BY <2>4, <2>5, <2>6, <2>7, AnswersSent
  <1>7. ASSUME NEW s \in Slots, SlotAdvances(s)  PROVE Answers'
    <2>1. Unmoved
      BY <1>7 DEF Unmoved, SlotAdvances
    <2>2. \A t \in Tasks : Present(t)' => Present(t)
      BY <2>1, UnmovedPlaces
    <2>3. CASE UNCHANGED <<resq, pc>>
      <3>1. pc' = pc /\ UNCHANGED <<results, finals, finished, req, left, waiting>>
        BY <1>7, <2>3 DEF SlotAdvances
      <3> QED  BY <1>1, <2>2, <3>1
    <2>4. CASE Send(<<Result(id_task[s], "partial")>>)
      <3>1. busy[s] /\ id_task[s] \in Tasks
        BY <1>7 DEF SlotAdvances, InBatch, Inv, SlotInv
      <3> DEFINE r == Result(id_task[s], "partial")
      <3>2. Send(<<r>>) /\ UNCHANGED <<finished, req, left>>
        BY <1>7, <2>4 DEF SlotAdvances
      <3>3. r \in Results /\ r.id = id_task[s] /\ \A t \in Tasks : ~Ends(r, t)
        BY <3>1 DEF Result, Results, Ends
      <3>4. Present(id_task[s])
        BY <3>1 DEF Present, Running, Runs
      <3> HIDE DEF r
      <3> QED  BY <2>2, <3>2, <3>3, <3>4, AnswersSent
    <2> QED  BY <1>7, <2>3, <2>4 DEF SlotAdvances
  <1>8. CASE DecodeFails
    <2>1. fails' = fails + 1 /\ fails \in Nat
      BY <1>0, <1>8, ServerAssumption DEF DecodeFails, TypeOK
    <2> QED  BY <2>1
  <1> QED
    BY <1>2, <1>3, <1>4, <1>5, <1>6, <1>7, <1>8 DEF MainStep

LEMMA AnswersClient ==
    ASSUME Inv, Answers, NEW c \in Clients,
           AddWaiting(c) \/ Disconnected(c) \/ ClientStep(c)
    PROVE  Answers'
  <1> USE DEF taskq, resq, slots, loop, http, history
  <1>0. TypeOK /\ results \in Seq(Results) /\ waiting \in SUBSET Tasks
    BY DEF Inv, TypeOK
  <1>1. \A i \in 1 .. Len(results) : results[i].id \in waiting
    BY DEF Answers, ResultInv
  <1>2. \A d \in Clients : left[d] \subseteq TasksOf(d)
    BY DEF Answers, FinishInv
  <1>3. CASE AddWaiting(c) \/ RecvTest(c) \/ RecvSleep(c) \/ Disconnected(c)
    <2>1. Unmoved
      BY <1>3 DEF Unmoved, AddWaiting, RecvTest, RecvSleep, Disconnected
    <2>2. UNCHANGED <<results, finals, finished, req>> /\ waiting \subseteq waiting'
      BY <1>3 DEF AddWaiting, RecvTest, RecvSleep, Disconnected
    <2>3. /\ \/ pc[c] = "new" /\ pc'[c] = "post" /\ left' = left
             \/ pc[c] = "recv" /\ pc'[c] = "checked" /\ left' = left
             \/ pc[c] = "checked" /\ pc'[c] = "asleep" /\ left' = left
             \/ pc[c] = "recv" /\ pc'[c] = "cancel" /\ left'[c] = TasksOf(c)
          /\ \A d \in Clients \ {c} : pc'[d] = pc[d] /\ left'[d] = left[d]
      BY <1>0, <1>3 DEF TypeOK, AddWaiting, RecvTest, RecvSleep, Disconnected
    <2>4. Onward
      BY <1>2, <2>2, <2>3 DEF Onward, HasLeft
    <2> QED  BY <1>1, <2>1, <2>2, <2>4, UnmovedPlaces, AnswersSame
  <1>4. CASE Post(c)
    <2>1. /\ UNCHANGED <<results, finals, finished, req, waiting, left>> /\ pc[c] = "post"
          /\ pc'[c] = "recv" /\ \A d \in Clients \ {c} : pc'[d] = pc[d]
      BY <1>0, <1>4 DEF TypeOK, Post
    <2>2. \A t \in Tasks : Present(t)' => Present(t) \/ t \in TasksOf(c)
      BY <1>4, PostStep
    <2>3. \A t \in TasksOf(c) : t \in Tasks /\ Owner(t) = c
      BY <1>0, RequestFacts
    <2>4. \A t \in TasksOf(c) : finals[t] = 0
      BY <2>1, <2>3 DEF Answers, AnswerInv
    <2>5. Onward
      BY <1>2, <2>1 DEF Onward, HasLeft
    <2> QED  BY <1>1, <2>1, <2>2, <2>4, <2>5, AnswersSame
  <1>5. CASE Take(c)
    BY <1>5, AnswersTaken
  <1>6. CASE PostCancel(c) \/ RecvAborts(c)
    <2>1. \A t \in Tasks : Present(t)' => Present(t)
      BY <1>6, PostCancelStep, RecvAbortsStep
    <2>2. /\ UNCHANGED <<results, finals, finished, req, waiting, left>>
          /\ \A d \in Clients : pc'[d] = pc[d] \/ pc'[d] = "gone" \/ pc'[d] = "dead"
      BY <1>0, <1>6 DEF TypeOK, PostCancel, RecvAborts
    <2>3. Onward
      BY <1>2, <2>2 DEF Onward, HasLeft
    <2> QED  BY <1>1, <2>1, <2>2, <2>3, AnswersSame
  <1>7. CASE CancelWaiting(c)
    <2>1. PICK t \in left[c] : /\ waiting' = waiting \ {t} /\ results' = Without(t)
                               /\ left' = [left EXCEPT ![c] = @ \ {t}]
      BY <1>7 DEF CancelWaiting
    <2>2. /\ pc[c] = "cancel" /\ UNCHANGED <<finals, finished, req, pc>> /\ Unmoved
      BY <1>7 DEF CancelWaiting, Unmoved
    <2>3. Owner(t) = c
      BY <1>0, <1>2, RequestFacts
    <2> DEFINE I == {i \in DOMAIN results : results[i].id # t}
    <2>4. /\ I \in SUBSET (1 .. Len(results)) /\ results' = At(results, I)
          /\ \A i \in 1 .. Len(results) : i \in I <=> results[i].id # t
      BY <1>0, <2>1 DEF Without
    <2> HIDE DEF I
    <2>5. \A d \in Clients : left'[d] \subseteq left[d]
      BY <1>0, <2>1 DEF TypeOK
    <2>6. Onward
      BY <1>2, <2>2, <2>5 DEF Onward, HasLeft
    <2>7. /\ \A i \in I : results[i].id \in waiting'
          /\ \A i \in (1 .. Len(results)) \ I :
                /\ pc'[Owner(results[i].id)] \in {"cancel", "gone", "dead"}
                /\ \A j \in I : results[j].id # results[i].id
      BY <1>1, <2>1, <2>2, <2>3, <2>4
    <2>8. \A v \in Tasks : Present(v)' => Present(v)
      BY <2>2, UnmovedPlaces
    <2> QED  BY <2>2, <2>4, <2>6, <2>7, <2>8, AnswersRemoved
  <1>8. CASE Finish(c)
    <2>1. /\ pc[c] = "finish" /\ pc' = [pc EXCEPT ![c] = "done"]
          /\ waiting' = waiting \/ waiting' = waiting \ TasksOf(c)
          /\ UNCHANGED <<finals, finished, req, left>> /\ Unmoved
      BY <1>8 DEF Finish, Unmoved
    <2>2. \A i \in 1 .. Len(results) : Owner(results[i].id) # c
      BY <2>1, NothingLeft
    <2>3. \A i \in 1 .. Len(results) : results[i].id \in waiting'
      BY <1>0, <1>1, <2>1, <2>2, RequestFacts
    <2>4. Onward
      BY <1>0, <1>2, <2>1 DEF Onward, HasLeft, TypeOK
    <2>5. \A v \in Tasks : Present(v)' => Present(v)
      BY <2>1, UnmovedPlaces
    <2>6. CASE results' = results
      BY <2>1, <2>3, <2>4, <2>5, <2>6, AnswersSame
    <2>7. CASE results' # results
      <3> DEFINE I == {i \in DOMAIN results : Owner(results[i].id) # c}
      <3>1. results' = At(results, I)
        BY <1>8, <2>7 DEF Finish
      <3>2. I = 1 .. Len(results)
        BY <1>0, <2>2
      <3> HIDE DEF I
      <3> QED  BY <2>1, <2>3, <2>4, <2>5, <3>1, <3>2, AnswersRemoved
    <2> QED  BY <2>6, <2>7
  <1> QED  BY <1>3, <1>4, <1>5, <1>6, <1>7, <1>8 DEF ClientStep

LEMMA AnsInit == Init => AnsInv
  <1> SUFFICES ASSUME Init PROVE Answers
    BY DEF AnsInv
  <1>0. Inv
    BY InvInit
  <1> USE DEF Init
  <1>1. Len(results) = 0 /\ \A i \in 1 .. Len(results) : FALSE
    OBVIOUS
  <1>2. \A t \in Tasks : ~Answering(t) /\ ~Received(t)
    BY <1>1 DEF Answering, Received
  <1>3. AnswerInv
    BY <1>2 DEF AnswerInv
  <1>4. ResultInv
    BY <1>1 DEF ResultInv
  <1>5. ASSUME NEW c \in Clients  PROVE Cardinality(Got(c)) = 0
    <2>1. TasksOf(c) \in SUBSET Tasks
      BY <1>0, RequestFacts DEF Inv
    <2>2. Got(c) = {}
      BY <1>2, <2>1 DEF Got
    <2> QED  BY <2>2, FS_EmptySet
  <1>6. FinishInv
    BY <1>5 DEF FinishInv
  <1> QED  BY <1>3, <1>4, <1>6 DEF Answers

LEMMA AnsNext == IInv /\ [Next]_vars => AnsInv'
  <1> SUFFICES ASSUME IInv, [Next]_vars, fails' = 0  PROVE Answers'
    BY DEF AnsInv
  <1>1. CASE UNCHANGED vars
    <2>1. Answers
      BY <1>1 DEF vars, history, IInv, AnsInv
    <2> QED
      BY <1>1, <2>1 DEF vars, taskq, resq, slots, loop, http, history, Answers, AnswerInv, ResultInv,
         FinishInv, Got, HasLeft, Answering, Received, TasksOf, Present, Pending, InHand, Running, Runs
  <1>2. CASE Next
    <2>1. fails = 0 \/ DecodeFails
      BY <1>2 DEF Next, MainStep, ClientStep, history, TakeTask, NoMoreTasks, Wait, LoopEnds,
         ProcessDefer, ProcessLaunch, ProcessAtOnce, ProcessCancel, ProcessNext, UpdateIdle,
         UpdateBatch, UpdateDone, SlotAdvances, SlotStops, CleanUp, Join, Signal, AddWaiting,
         Disconnected, Post, Take, RecvTest, RecvSleep, RecvAborts, CancelWaiting, PostCancel, Finish
    <2>2. ~DecodeFails
      BY ServerAssumption DEF DecodeFails, IInv, Inv, TypeOK
    <2>3. Inv /\ Answers
      BY <2>1, <2>2 DEF IInv, AnsInv
    <2> QED  BY <1>2, <2>3, AnswersMain, AnswersClient DEF Next
  <1> QED  BY <1>1, <1>2

(* How often something is in a sequence. *)
LEMMA CountFacts ==
    ASSUME NEW X, NEW q \in Seq(X), NEW x, Once(q, x)
    PROVE  Cardinality({i \in DOMAIN q : q[i] = x}) = IF Contains(q, x) THEN 1 ELSE 0
  <1> DEFINE I == {i \in DOMAIN q : q[i] = x}
  <1>1. DOMAIN q = 1 .. Len(q)
    OBVIOUS
  <1>2. CASE Contains(q, x)
    <2>1. PICK i \in 1 .. Len(q) : q[i] = x
      BY <1>2 DEF Contains
    <2>2. I = {i}
      BY <1>1, <2>1 DEF Once
    <2> QED  BY <1>2, <2>2, FS_Singleton
  <1>3. CASE ~Contains(q, x)
    <2>1. I = {}
      BY <1>1, <1>3 DEF Contains
    <2> QED  BY <1>3, <2>1, FS_EmptySet
  <1> QED  BY <1>2, <1>3

-----------------------------------------------------------------------------
(***************************************************************************)
(* Theorems.                                                               *)
(***************************************************************************)

(* What the theorems below follow from: where a task is, which tasks are    *)
(* waited for, cancelled and answered, and what the handlers have counted,  *)
(* after every step of the HTTP threads, of start_loop() and of a signal.   *)
THEOREM Invariance == Spec => []IInv
  <1>1. Init => IInv
    BY InvInit, AnsInit DEF IInv
  <1>2. IInv /\ [Next]_vars => IInv'
    BY InvNext, AnsNext DEF IInv
  <1> QED  BY <1>1, <1>2, PTL DEF Spec

(* The variables of server_queue, server_response, the slots and the        *)
(* threads keep their types.                                                *)
THEOREM TypeCorrect == Spec => []TypeOK
  <1>1. IInv => TypeOK
    BY DEF IInv, Inv
  <1> QED  BY <1>1, Invariance, PTL

(* No task is lost or run twice: the moves of post(), start_loop(), defer() *)
(* and pop_deferred_task(), and the launch and the release of a slot, keep  *)
(* a task in at most one place, and a task that a client waits for and that *)
(* nothing has ended in exactly one.                                        *)
THEOREM NothingLost == Spec => []NoTaskLost
  <1>1. ASSUME IInv PROVE NoTaskLost
    <2>0. Inv /\ queue \in Seq(Messages) /\ deferred \in Seq(Messages)
      BY <1>1 DEF IInv, Inv, TypeOK
    <2> SUFFICES ASSUME NEW t \in Tasks
                 PROVE  /\ Copies(t) <= 1
                        /\ Receiving(Owner(t)) /\ t \in waiting /\ finals[t] = 0 => Copies(t) = 1
      BY DEF NoTaskLost
    <2> DEFINE inQueue == Cardinality({i \in DOMAIN queue : queue[i] = Work(t)})
               inDeferred == Cardinality({i \in DOMAIN deferred : deferred[i] = Work(t)})
               inHand == IF InHand(t) THEN 1 ELSE 0
               inSlots == Cardinality({s \in Slots : busy[s] /\ id_task[s] = t})
    <2>1. OnceInBoth(queue, deferred, Work(t))
      BY <2>0 DEF Inv, PlaceInv
    <2>2. inQueue = IF Contains(queue, Work(t)) THEN 1 ELSE 0
      BY <2>0, <2>1, CountFacts DEF OnceInBoth
    <2>3. inDeferred = IF Contains(deferred, Work(t)) THEN 1 ELSE 0
      BY <2>0, <2>1, CountFacts DEF OnceInBoth
    <2>4. inSlots = IF Running(t) THEN 1 ELSE 0
      <3> DEFINE ss == {s \in Slots : busy[s] /\ id_task[s] = t}
      <3>1. CASE Running(t)
        <4>1. PICK s \in Slots : Runs(s, t)
          BY <3>1 DEF Running
        <4>2. \A r \in Slots : Runs(r, t) => r = s
          BY <2>0, <4>1 DEF Inv, PlaceInv
        <4>3. ss = {s}
          BY <4>1, <4>2 DEF Runs
        <4> QED  BY <3>1, <4>3, FS_Singleton
      <3>2. CASE ~Running(t)
        <4>1. ss = {}
          BY <3>2 DEF Running, Runs
        <4> QED  BY <3>2, <4>1, FS_EmptySet
      <3> QED  BY <3>1, <3>2
    <2>5. Copies(t) = inQueue + inDeferred + inHand + inSlots
      BY DEF Copies
    <2>6. /\ ~(Contains(queue, Work(t)) /\ Contains(deferred, Work(t)))
          /\ ~(Pending(t) /\ InHand(t)) /\ ~(Pending(t) /\ Running(t)) /\ ~(InHand(t) /\ Running(t))
          /\ Pending(t) <=> Contains(queue, Work(t)) \/ Contains(deferred, Work(t))
      BY <2>0, <2>1 DEF Inv, PlaceInv, OnceInBoth, Pending
    <2>7. inHand = IF InHand(t) THEN 1 ELSE 0
      OBVIOUS
    <2> HIDE DEF inQueue, inDeferred, inHand, inSlots
    <2>8. Copies(t) = IF Present(t) THEN 1 ELSE 0
      BY <2>2, <2>3, <2>4, <2>5, <2>6, <2>7 DEF Present
    <2>9. Receiving(Owner(t)) /\ t \in waiting /\ finals[t] = 0 => Present(t)
      BY <2>0 DEF Inv, KeptInv
    <2> QED  BY <2>8, <2>9
  <1> QED  BY <1>1, Invariance, PTL

(* Unless a decode has failed, send() queues at most one result that ends a *)
(* task, and every queued result is waited for by a client that is still    *)
(* there: remove_waiting_task_id, and the handlers that unregister without  *)
(* it, leave nothing behind that would keep recv()'s predicate true.        *)
THEOREM AnswersOnce == Spec => []AnsweredOnce
  <1>1. ASSUME IInv PROVE AnsweredOnce
    <2> SUFFICES ASSUME fails = 0
                 PROVE  /\ \A t \in Tasks : finals[t] <= 1
                        /\ \A i \in DOMAIN results :
                              /\ results[i].id \in waiting
                              /\ pc[Owner(results[i].id)] \notin {"done", "gone"}
      BY DEF AnsweredOnce
    <2>1. Inv /\ Answers
      BY <1>1 DEF IInv, AnsInv
    <2>2. results \in Seq(Results) /\ waiting \in SUBSET Tasks
      BY <2>1 DEF Inv, TypeOK
    <2>3. \A t \in Tasks : finals[t] <= 1
      BY <2>1 DEF Answers, AnswerInv
    <2>4. \A i \in 1 .. Len(results) : results[i].id \in waiting /\ results[i].id \in Tasks
      BY <2>1, <2>2 DEF Answers, ResultInv
    <2>5. \A i \in 1 .. Len(results) : pc[Owner(results[i].id)] \notin {"done", "gone"}
      BY <2>1, <2>4, NothingLeft, TaskFacts DEF Inv, OwnerInv
    <2> QED  BY <2>2, <2>3, <2>4, <2>5
  <1> QED  BY <1>1, Invariance, PTL

(* When update_slots() computes a batch, a slot works for a client that has *)
(* cancelled only if the cancellation is still in the queue, or if the task *)
(* was pending when post() cleaned up: no other cancellation misses it.     *)
THEOREM NoGhosts == Spec => []NoGhostWork
  <1>1. ASSUME IInv PROVE NoGhostWork
    <2> SUFFICES ASSUME NEW s \in Slots, main = "slots", busy[s], pc[Owner(id_task[s])] = "gone",
                        id_task[s] \notin ghosts
                 PROVE  Contains(queue, Cancel(id_task[s]))
      BY DEF NoGhostWork
    <2>1. id_task[s] \in Tasks \ ghosts
      BY <1>1 DEF IInv, Inv, SlotInv
    <2>2. Running(id_task[s])
      BY DEF Running, Runs
    <2> QED  BY <1>1, <2>1, <2>2 DEF IInv, Inv, CancelInv
  <1> QED  BY <1>1, Invariance, PTL
=============================================================================
